----------------------- MODULE IncrementalMerkleTree -----------------------
(* The note commitment tree and the witnesses into it: IncrementalMerkleTree and             *)
(* IncrementalWitness, which keep of a tree of depth Depth only the roots of full subtrees,  *)
(* checked against the tree written out.  A hash is a term: a leaf, or the two hashes it was *)
(* combined from with their depth, so that equal hashes come from equal trees only.          *)
EXTENDS Integers, SequencesExt

CONSTANT Depth

ASSUME DepthAssumption == Depth \in Nat \ {0}

NoHash == <<>>                \* boost::none
leafHash(n) == <<n>>
uncommitted == <<0>>
combine(a, b, depth) == <<depth, a, b>>

Exists(h) == h # NoHash

empty_root[d \in 0..Depth] == IF d = 0 THEN uncommitted
                              ELSE LET e == empty_root[d - 1] IN combine(e, e, d - 1)

-----------------------------------------------------------------------------
(* IncrementalMerkleTree. *)

EmptyTree == [left |-> NoHash, right |-> NoHash, parents |-> <<>>]

is_complete(t, depth) ==
    /\ Exists(t.left) /\ Exists(t.right)
    /\ Len(t.parents) = depth - 1
    /\ \A i \in DOMAIN t.parents : Exists(t.parents[i])

\* The loop of append that carries the hash h up from the leaves: like adding one to a binary number.
CarryUp(parents, h) ==
    LET full == SelectInSeq(parents, LAMBDA p : ~Exists(p))      \* first place that is free, 0 if none
        free == IF full = 0 THEN Len(parents) + 1 ELSE full
        combined == FoldLeft(LAMBDA c, i : combine(parents[i], c, i), h, [i \in 1..(free - 1) |-> i])
        below == [i \in 1..(free - 1) |-> NoHash] \o <<combined>>
    IN  below \o SubSeq(parents, free + 1, Len(parents))

\* append; tree is not full.
TreeAppend(t, obj) ==
    IF ~Exists(t.left) THEN [t EXCEPT !.left = obj]
    ELSE IF ~Exists(t.right) THEN [t EXCEPT !.right = obj]
    ELSE [left |-> obj, right |-> NoHash, parents |-> CarryUp(t.parents, combine(t.left, t.right, 0))]

\* size; its shifts of an int are exact below 2^31 leaves.
TreeSize(t) ==
    LET bit(h, n) == IF Exists(h) THEN n ELSE 0
    IN  FoldLeft(LAMBDA s, i : s + bit(t.parents[i], 2^i), bit(t.left, 1) + bit(t.right, 1),
                 [i \in DOMAIN t.parents |-> i])

last(t) == IF Exists(t.right) THEN t.right ELSE t.left

\* The uncles at the depths 0 to depth - 1, as root and path take them: the collapsed subtree on the
\* left, or the next one of the filler, and the empty root when the filler is used up.
Uncles(t, depth, filler) ==
    LET collapsed(d) == IF d = 0 THEN (IF Exists(t.right) THEN t.left ELSE NoHash)
                        ELSE IF d <= Len(t.parents) THEN t.parents[d] ELSE NoHash
        step(u, d) ==
            IF Exists(collapsed(d)) THEN [u EXCEPT !.path = Append(@, collapsed(d)), !.index = Append(@, TRUE)]
            ELSE [path |-> Append(u.path, IF u.rest = <<>> THEN empty_root[d] ELSE Head(u.rest)),
                  index |-> Append(u.index, FALSE),
                  rest |-> IF u.rest = <<>> THEN <<>> ELSE Tail(u.rest)]
    IN  FoldLeft(step, [path |-> <<>>, index |-> <<>>, rest |-> filler], [i \in 1..depth |-> i - 1])

\* The root that a path gives for a leaf.
Climb(leaf, u) ==
    FoldLeft(LAMBDA h, i : IF u.index[i] THEN combine(u.path[i], h, i - 1) ELSE combine(h, u.path[i], i - 1),
             leaf, [i \in DOMAIN u.path |-> i])

\* root(depth, filler_hashes).  With no leaf at all the filler gives both.
TreeRoot(t, depth, filler) ==
    LET leaf == IF Exists(t.left) THEN last(t) ELSE IF filler = <<>> THEN uncommitted ELSE Head(filler)
        rest == IF Exists(t.left) \/ filler = <<>> THEN filler ELSE Tail(filler)
    IN  Climb(leaf, Uncles(t, depth, rest))

\* Mutant: uncles that were filled above the tree are not counted.
next_depthNoSkip(t, skip) ==
    LET free == (IF Exists(t.left) THEN <<>> ELSE <<0>>) \o (IF Exists(t.right) THEN <<>> ELSE <<0>>)
                \o SelectSeq([i \in DOMAIN t.parents |-> i], LAMBDA i : ~Exists(t.parents[i]))
    IN  IF skip < Len(free) THEN free[skip + 1] ELSE Len(t.parents) + 1

\* The depth of the subtree that fills up next, when skip of them are filled.
next_depth(t, skip) ==
    LET free == (IF Exists(t.left) THEN <<>> ELSE <<0>>) \o (IF Exists(t.right) THEN <<>> ELSE <<0>>)
                \o SelectSeq([i \in DOMAIN t.parents |-> i], LAMBDA i : ~Exists(t.parents[i]))
    IN  IF skip < Len(free) THEN free[skip + 1] ELSE Len(t.parents) + 1 + (skip - Len(free))

wfcheck(t) ==
    /\ Len(t.parents) < Depth
    /\ t.parents # <<>> => Exists(Last(t.parents))
    /\ ~Exists(t.left) => ~Exists(t.right) /\ t.parents = <<>>

-----------------------------------------------------------------------------
(* IncrementalWitness. *)

NoCursor == [EmptyTree EXCEPT !.parents = <<NoHash>>]    \* a tree that no append gives

witness(t) == [tree |-> t, filled |-> <<>>, cursor |-> NoCursor, cursor_depth |-> 0]

partial_path(w) == IF w.cursor = NoCursor THEN w.filled
                   ELSE Append(w.filled, TreeRoot(w.cursor, w.cursor_depth, <<>>))

WitnessRoot(w) == TreeRoot(w.tree, Depth, partial_path(w))

WitnessPath(w) == Uncles(w.tree, Depth, partial_path(w))

\* append; it throws "tree is full" when the depth is too great.
WitnessFull(w) == w.cursor = NoCursor /\ next_depth(w.tree, Len(w.filled)) >= Depth

WitnessAppend(w, obj) ==
    LET depth == next_depth(w.tree, Len(w.filled))
        grown == TreeAppend(w.cursor, obj)
    IN  IF w.cursor # NoCursor
        THEN IF is_complete(grown, w.cursor_depth)
             THEN [w EXCEPT !.filled = Append(@, TreeRoot(grown, w.cursor_depth, <<>>)), !.cursor = NoCursor]
             ELSE [w EXCEPT !.cursor = grown]
        ELSE IF depth = 0 THEN [w EXCEPT !.filled = Append(@, obj), !.cursor_depth = 0]
        ELSE [w EXCEPT !.cursor = TreeAppend(EmptyTree, obj), !.cursor_depth = depth]

-----------------------------------------------------------------------------
(* A tree that grows, with a witness for one of its leaves. *)

VARIABLES tree,
          count,      \* how many leaves were appended, the hashes 1, 2, 3...
          held        \* the witness, and the leaf it is for; leaf 0 when there is none

treeVars == <<tree, count, held>>

TreeInit == tree = EmptyTree /\ count = 0 /\ held = [leaf |-> 0, witness |-> witness(EmptyTree)]

Take == /\ count > 0 /\ held.leaf # count
        /\ held' = [leaf |-> count, witness |-> witness(tree)]
        /\ UNCHANGED <<tree, count>>

Grow == /\ ~is_complete(tree, Depth) /\ (held.leaf # 0 => ~WitnessFull(held.witness))
        /\ count' = count + 1
        /\ tree' = TreeAppend(tree, leafHash(count + 1))
        /\ held' = IF held.leaf = 0 THEN held ELSE [held EXCEPT !.witness = WitnessAppend(@, leafHash(count + 1))]

\* The witness is written and read: cursor_depth is computed again.
Reread == /\ held.leaf # 0
          /\ held' = [held EXCEPT !.witness.cursor_depth = next_depth(held.witness.tree, Len(held.witness.filled))]
          /\ UNCHANGED <<tree, count>>

TreeNext == Take \/ Grow \/ Reread

-----------------------------------------------------------------------------
(* Properties. *)

\* The hash at depth d and place i (from 0) of the whole tree with n leaves.
ReferenceHash(n, depth) ==
    LET hash[d \in 0..Depth, i \in 0..(2^Depth - 1)] ==
            IF d = 0 THEN (IF i < n THEN leafHash(i + 1) ELSE uncommitted)
            ELSE combine(hash[d - 1, 2 * i], hash[d - 1, 2 * i + 1], d - 1)
    IN  hash[depth, 0]

\* The incremental tree and every incremental witness compute what the whole tree has: the same
\* root, whenever the witness was taken and however often it was stored and read back, and a path
\* that leads from the witnessed leaf to that root, at the leaf's place.  Neither refuses a leaf
\* before the tree is full, and what is stored passes wfcheck.
WitnessesTheTree ==
    /\ wfcheck(tree) /\ TreeSize(tree) = count
    /\ TreeRoot(tree, Depth, <<>>) = ReferenceHash(count, Depth)
    /\ is_complete(tree, Depth) <=> count = 2^Depth
    /\ held.leaf # 0 =>
          LET path == WitnessPath(held.witness)
          IN  /\ WitnessRoot(held.witness) = ReferenceHash(count, Depth)
              /\ last(held.witness.tree) = leafHash(held.leaf)
              /\ Climb(leafHash(held.leaf), path) = ReferenceHash(count, Depth)
              /\ held.leaf - 1 = FoldLeft(LAMBDA s, i : s + (IF path.index[i] THEN 2^(i - 1) ELSE 0),
                                          0, [i \in 1..Depth |-> i])
              /\ WitnessFull(held.witness) <=> count = 2^Depth
              /\ wfcheck(held.witness.tree)

=============================================================================

----------------------------- MODULE MerkleTree -----------------------------
(***************************************************************************)
(* The hash tree of a cycle (RFC 9162): the root that is published, the    *)
(* inclusion proof that a reveal carries and the loop that checks it.  A   *)
(* hash is the term it was computed from, so that hashes are equal when    *)
(* their inputs are; a commitment is <<"commitment", n>>.                  *)
(*                                                                         *)
(* A claim is what a reveal may say of a published root: any piece of any  *)
(* proof of the tree, for any position in a tree of any size, of a         *)
(* commitment in the tree, one that is not, or an inner node passed off    *)
(* as one.  The loop of verify_inclusion takes one node of it a step.      *)
(***************************************************************************)
EXTENDS Integers, Sequences

CONSTANTS MaxLeaves,   \* bound: leaves of the tree, and size a claim may state
          None

VARIABLES n_leaves,    \* of the published cycle
          claim,       \* leaf, index, tree_size and proof of the reveal
          computed,    \* locals of verify_inclusion: hash so far,
          path,        \* rest of the proof,
          fn, sn,      \* position and last position at this height
          verdict      \* None while the loop runs

loop == <<computed, path, fn, sn>>
treeVars == <<n_leaves, claim, loop, verdict>>

UnprefixedLeafHash(leaf) == leaf \* mutant: leaves and nodes are not told apart

LeafHash(leaf) == <<"leaf", leaf>>
NodeHash(left, right) == <<"node", left, right>>

Power[i \in Nat] == IF i = 0 THEN 1 ELSE 2 * Power[i - 1]
Split(size) == CHOOSE k \in {Power[i] : i \in 0 .. size} : k < size /\ size <= 2 * k

(* cycle_leaves: sorted and without repetition, so that the leaf at i, from*)
(* 0, is the i-th.  A slice of them is where it begins and its size.       *)
Leaf(i) == <<"commitment", i + 1>>
Slices == Nat \X (Nat \ {0})
Left(s) == <<s[1], Split(s[2])>>
Right(s) == <<s[1] + Split(s[2]), s[2] - Split(s[2])>>

SubtreeHash[s \in Slices] ==
    IF s[2] = 1 THEN LeafHash(Leaf(s[1]))
    ELSE NodeHash(SubtreeHash[Left(s)], SubtreeHash[Right(s)])

merkle_root(size) == IF size = 0 THEN <<"empty">> ELSE SubtreeHash[<<0, size>>]

(* From the leaf towards the root; index counts from the start of a slice. *)
inclusion_proof[s \in Slices] ==
    [index \in Nat |->
        IF s[2] = 1 THEN <<>>
        ELSE IF index < Split(s[2])
             THEN Append(inclusion_proof[Left(s)][index], SubtreeHash[Right(s)])
             ELSE Append(inclusion_proof[Right(s)][index - Split(s[2])], SubtreeHash[Left(s)])]

-----------------------------------------------------------------------------
Proofs(n) == {inclusion_proof[<<0, n>>][i] : i \in 0 .. n - 1}
Pieces(n) == {<<>>} \cup UNION {{SubSeq(p, i, j) : i, j \in 1 .. Len(p)} : p \in Proofs(n)}
Nodes(n) == UNION {{p[i] : i \in DOMAIN p} : p \in Proofs(n)} \cup {merkle_root(n)}

Claims(n) ==
    {c \in [leaf : {Leaf(i) : i \in 0 .. n} \cup Nodes(n),
            index : 0 .. MaxLeaves - 1,
            tree_size : 1 .. MaxLeaves,
            proof : Pieces(n)] : c.index < c.tree_size}

Init ==
    /\ n_leaves \in 0 .. MaxLeaves
    /\ claim \in Claims(n_leaves)
    /\ computed = LeafHash(claim.leaf)
    /\ path = claim.proof
    /\ fn = claim.index
    /\ sn = claim.tree_size - 1
    /\ verdict = None

(* Up to the height where the node has a right sibling or is the first.    *)
Climb[p \in Nat \X Nat] ==
    IF p[1] % 2 = 1 \/ p[1] = 0 THEN p ELSE Climb[<<p[1] \div 2, p[2] \div 2>>]

TakeLeft ==
    /\ verdict = None /\ path # <<>> /\ sn # 0
    /\ fn % 2 = 1 \/ fn = sn
    /\ computed' = NodeHash(Head(path), computed)
    /\ fn' = Climb[<<fn, sn>>][1] \div 2
    /\ sn' = Climb[<<fn, sn>>][2] \div 2
    /\ path' = Tail(path)
    /\ UNCHANGED <<n_leaves, claim, verdict>>

TakeRight ==
    /\ verdict = None /\ path # <<>> /\ sn # 0
    /\ ~ (fn % 2 = 1 \/ fn = sn)
    /\ computed' = NodeHash(computed, Head(path))
    /\ fn' = fn \div 2
    /\ sn' = sn \div 2
    /\ path' = Tail(path)
    /\ UNCHANGED <<n_leaves, claim, verdict>>

TooLong ==
    /\ verdict = None /\ path # <<>> /\ sn = 0
    /\ verdict' = FALSE
    /\ UNCHANGED <<n_leaves, claim, loop>>

Conclude ==
    /\ verdict = None /\ path = <<>>
    /\ verdict' = (sn = 0 /\ computed = merkle_root(n_leaves))
    /\ UNCHANGED <<n_leaves, claim, loop>>

Done == verdict # None /\ UNCHANGED treeVars

Next == TakeLeft \/ TakeRight \/ TooLong \/ Conclude \/ Done

Spec == Init /\ [][Next]_treeVars

-----------------------------------------------------------------------------
InTree == \E i \in 0 .. n_leaves - 1 : claim.leaf = Leaf(i)
Honest ==
    /\ claim.tree_size = n_leaves
    /\ claim.leaf = Leaf(claim.index)
    /\ claim.proof = inclusion_proof[<<0, n_leaves>>][claim.index]

(* What a verified reveal proves: the published root commits to the leaf.  *)
(* No claim about an outsider or an inner node is accepted, whatever size  *)
(* and position it states; with the size of the published line, the leaf   *)
(* is at the position stated; and every honest proof is accepted.          *)
VerifiedIffIncluded ==
    verdict # None =>
       /\ verdict => InTree
       /\ claim.tree_size = n_leaves => (verdict <=> Honest)
=============================================================================

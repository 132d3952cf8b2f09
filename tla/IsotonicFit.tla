---------------------------- MODULE IsotonicFit ----------------------------
(***************************************************************************)
(* The monotone map from a confidence to its hit rate, by pooling adjacent *)
(* violators: points come in order of confidence, a block that lies below  *)
(* the one before it is pooled with it.  Rates are kept as hits and counts *)
(* and compared by cross-multiplication, so there is no rounding here.     *)
(***************************************************************************)
EXTENDS Integers, Sequences, FiniteSets, FiniteSetsExt

CONSTANTS MaxKnots,    \* bound: distinct confidences
          MaxCount     \* bound: samples of one confidence

VARIABLES points,   \* samples of each confidence, pooled: hits and count
          taken,    \* points put into blocks so far
          blocks    \* hits, count and number of points of each block

vars == <<points, taken, blocks>>

Point == {p \in [hits : 0 .. MaxCount, count : 1 .. MaxCount] : p.hits <= p.count}

(* Rate of a is above that of b.                                           *)
Above(a, b) == a.hits * b.count > b.hits * a.count

-----------------------------------------------------------------------------
Init ==
    /\ points \in UNION {[1 .. n -> Point] : n \in 1 .. MaxKnots}
    /\ taken = 0 /\ blocks = <<>>

Violates ==
    /\ Len(blocks) > 1
    /\ Above(blocks[Len(blocks) - 1], blocks[Len(blocks)])

PushPoint ==
    /\ ~Violates /\ taken < Len(points)
    /\ LET p == points[taken + 1]
       IN  blocks' = Append(blocks, [hits |-> p.hits, count |-> p.count, size |-> 1])
    /\ taken' = taken + 1
    /\ UNCHANGED points

PoolLastTwo ==
    /\ Violates
    /\ LET n == Len(blocks)
           a == blocks[n - 1]
           b == blocks[n]
       IN  blocks' = Append(SubSeq(blocks, 1, n - 2),
                        [hits |-> a.hits + b.hits, count |-> a.count + b.count,
                         size |-> a.size + b.size])
    /\ UNCHANGED <<points, taken>>

Next ==
    \/ PushPoint
    \/ PoolLastTwo
    \/ /\ taken = Len(points) /\ ~Violates
       /\ UNCHANGED vars

Spec == Init /\ [][Next]_vars

-----------------------------------------------------------------------------
(* The sum of a function, counted unit by unit.                            *)
Total(f, most) == Cardinality({x \in (DOMAIN f) \X (1 .. most) : x[2] <= f[x[1]]})

(* The block that holds point i, whose rate is the value of its knot.      *)
EndOf(b) == Total([c \in 1 .. b |-> blocks[c].size], MaxKnots)
BlockOf(i) == Min({b \in DOMAIN blocks : i <= EndOf(b)})

(* Hits and count of the points from j to k.                               *)
Sum(j, k) ==
    [hits  |-> Total([i \in j .. k |-> points[i].hits], MaxCount),
     count |-> Total([i \in j .. k |-> points[i].count], MaxCount)]

TypeOK ==
    /\ taken \in 0 .. Len(points)
    /\ \A b \in DOMAIN blocks : blocks[b].hits <= blocks[b].count
    /\ blocks # <<>> => EndOf(Len(blocks)) = taken

(* The result is the regression of its definition, not merely monotone:    *)
(* the value at a point is the greatest, over the points up to it, of the  *)
(* least mean of a run of points from there to one at or behind it.  In    *)
(* whatever order the pooling falls, also with equal rates.                *)
IsTheRegression ==
    taken = Len(points) /\ ~Violates =>
        \A i \in DOMAIN points :
            LET v == blocks[BlockOf(i)]
            IN  /\ \A j \in 1 .. i : \E k \in i .. Len(points) : ~Above(Sum(j, k), v)
                /\ \E j \in 1 .. i : \A k \in i .. Len(points) : ~Above(v, Sum(j, k))

(* The inductive invariant.  No run of points from the start of a block,   *)
(* in it or up to a later one but the last, is below the value of the      *)
(* block, and none up to its end is above it; blocks are the sums of their *)
(* points and, but for the last, rise.                                     *)
StartOf(b) == EndOf(b - 1) + 1

BlocksAreSums ==
    \A b \in DOMAIN blocks :
        /\ blocks[b].hits = Sum(StartOf(b), EndOf(b)).hits
        /\ blocks[b].count = Sum(StartOf(b), EndOf(b)).count
        /\ \A k \in StartOf(b) .. EndOf(b) : ~Above(blocks[b], Sum(StartOf(b), k))

RegressionUntil(n) ==
    \A b \in 1 .. n :
        /\ \A c \in b .. n : ~Above(blocks[b], blocks[c])
        /\ \A j \in 1 .. EndOf(b) : ~Above(Sum(j, EndOf(b)), blocks[b])
        /\ \A k \in StartOf(b) .. EndOf(n) : ~Above(blocks[b], Sum(StartOf(b), k))

IInv ==
    /\ points \in Seq(Point) /\ Len(points) <= MaxKnots
    /\ blocks \in Seq([hits : Nat, count : Nat, size : 1 .. MaxKnots])
    /\ TypeOK /\ EndOf(Len(blocks)) = taken
    /\ BlocksAreSums
    /\ RegressionUntil(Len(blocks) - 1)
=============================================================================

---------------------------- MODULE MCVectorClient ----------------------------
(***************************************************************************)
(* Small instances of VectorClient.  The registers are narrower than the   *)
(* machine's; AVX2 keeps four lanes, so that the last two values of a      *)
(* register are not the whole of it.  Words of five bits let a run be as   *)
(* long as the longest block.                                              *)
(***************************************************************************)
EXTENDS VectorClient

MCLanes == [i \in Isas |-> CASE i = "sse42" -> 2 [] i = "avx2" -> 4 [] i = "avx512" -> 3]

\* Every block shorter than a register of four lanes, over the values at
\* which the arithmetic wraps.
Shorts == BoundedSeq({-Half, 1, Half - 1}, 3)

\* Blocks that reach the third register after the heads and end inside, at
\* and just after a register: a step up or down, and values that all differ.
Lengths == {5, 7, 10, 13, 14}
Steps   == {[p \in 1 .. n |-> IF p < k THEN v[1] ELSE v[2]] :
              <<n, k, v>> \in {5, 7, 13, 14} \X {1, 5, 12}
                                \X {<<0, 3>>, <<7, 0>>, <<-Half, Half - 1>>}}
Saws    == {[p \in 1 .. n |-> ((m * p) % 7) - 3] : <<n, m>> \in Lengths \X {1, 3}}

\* Few blocks of many lengths, for objects that are used again and again.
Growing == {[p \in 1 .. n |-> IF p < k THEN 1 ELSE 2] :
              <<n, k>> \in {0, 1, 2, 4, 6, 9} \X {1, 3}}

MCBlocks     == [x \in Schemes |-> CASE x = "rle" -> Growing \cup Saws
                                     [] OTHER     -> Shorts \cup Steps \cup Saws]
MCMaxEncodes == [x \in Schemes |-> CASE x = "rle" -> 3 [] OTHER -> 2]
===============================================================================

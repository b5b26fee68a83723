------------------------------ MODULE Remappings ------------------------------
(***************************************************************************)
(* The orderings of remappings.h, on the row-major block of side n.  A     *)
(* position of the source, counted from 0, is y * n + x; a sequence holds  *)
(* the value of position p at p + 1.                                       *)
(***************************************************************************)
EXTENDS Integers, Sequences

Orderings == {"default", "zigzag", "morton"}

\* Every second row is reversed.
RemapToZigzagOrder(input, n) ==
  [d \in 1 .. n * n |->
     LET y == (d - 1) \div n
         x == (d - 1) % n
     IN  input[(IF y % 2 = 0 THEN x ELSE n - 1 - x) + y * n + 1]]

\* A plausible slip: no room is left between the bits.
SpreadOverlapping(n) ==
  LET spread[x \in 0 .. n - 1] ==
        IF x = 0 THEN 0 ELSE (x % 2) + 2 * spread[x \div 2]
  IN  spread

(***************************************************************************)
(* libmorton: the bits of x and y interleaved, x lowest.  Each coordinate  *)
(* is spread, a zero above every bit, and that of y goes into the zeros.   *)
(***************************************************************************)
Spread(n) ==
  LET spread[x \in 0 .. n - 1] ==
        IF x = 0 THEN 0 ELSE (x % 2) + 4 * spread[x \div 2]
  IN  spread

MortonCode(spread, x, y) == spread[x] + 2 * spread[y]

\* The remapping throws when a code falls outside the block.
MortonThrows(n) ==
  LET spread == Spread(n)
  IN  \E x, y \in 0 .. n - 1 : MortonCode(spread, x, y) > n * n - 1

(***************************************************************************)
(* output[code] = input[y * n + x] over an output of zeros.                *)
(***************************************************************************)
RemapToMortonOrder(input, n) ==
  LET spread == Spread(n)
      Sources(d) == {s \in (0 .. n - 1) \X (0 .. n - 1) :
                       MortonCode(spread, s[1], s[2]) = d - 1}
  IN  [d \in 1 .. n * n |->
         IF Sources(d) = {} THEN 0
         ELSE LET s == CHOOSE s \in Sources(d) : TRUE
              IN  input[s[2] * n + s[1] + 1]]

OrderingThrows(ordering, n) == ordering = "morton" /\ MortonThrows(n)

ApplyOrdering(input, ordering, n) ==
  CASE ordering = "default" -> input
    [] ordering = "zigzag"  -> RemapToZigzagOrder(input, n)
    [] ordering = "morton"  -> RemapToMortonOrder(input, n)
=============================================================================

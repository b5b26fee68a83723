---------------------------- MODULE MCRasterBlocks ----------------------------
(***************************************************************************)
(* Rasters of every size up to seven by five pixels, without a bad read,   *)
(* under every block size and number of blocks; and rasters of two blocks  *)
(* with every combination of values at which the minimum and the shift     *)
(* wrap, any of whose reads may fail.                                      *)
(***************************************************************************)
EXTENDS RasterBlocks

Programs == {"comp", "pipeline"}

Sizes == [program : Programs, width : 1 .. 7, height : 1 .. 5, side : 0 .. 3,
          count : 0 .. 8, failures : {0}]

TwoBlocks == [program : Programs, width : {1}, height : {2}, side : {1},
              count : {2, 3}, failures : {5}]

Edges == (SUBSET {-Half, -Half + 1, -1, 0, Half - 1}) \ {{}}

BlocksOf(i) ==
  IF i.side = 0 THEN {}
  ELSE 0 .. (i.width \div i.side) * (i.height \div i.side) - 1

SamplingCases == {[input |-> i, raster |-> [b \in BlocksOf(i) |-> {0}]] : i \in Sizes}
ShiftCases    == [input : TwoBlocks, raster : [{0, 1} -> Edges]]

MCCases == SamplingCases \cup ShiftCases
===============================================================================

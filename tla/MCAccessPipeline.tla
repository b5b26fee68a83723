--------------------------- MODULE MCAccessPipeline ---------------------------
(***************************************************************************)
(* Small instances of AccessPipeline: three blocks of side 1 to 4, rasters *)
(* with negative values, extremes and equal blocks.                        *)
(***************************************************************************)
EXTENDS AccessPipeline

Combinations(sides, orderings, initials, accesses, bases, agains) ==
  [side : sides, ordering : orderings, initial : initials, access : accesses,
   base : bases, again : agains]

SrcKinds == Kinds \ {"dict"}

\* Every base codec under every transformation that changes data.
MutatingSettings ==
  Combinations({2}, {"zigzag"}, {"none"}, Mutating, SrcKinds, {"cascade", "padded"})

\* Every base codec and way of reading, in blocks that are not a multiple of
\* four values.
ReadingSettings ==
  Combinations({3}, {"zigzag"}, {"none", "ValueBasedClassification"},
               {"Scan", "LinearSumSimd", "LinearSum"}, SrcKinds, {"plain"})
  \cup Combinations({3}, {"default"}, {"none"}, {"LinearSumFused"}, {"plain", "fused"},
                    {"plain"})

\* Every ordering, on a side on which Morton order is not the identity, and on
\* one that it does not take.
OrderingSettings ==
  Combinations({3, 4}, Orderings, {"none"}, {"LinearSumSimd", "ValueShift"}, {"plain"},
               {"direct"})

\* Fewer values than classes, with and without overflow slots.
SmallSettings ==
  Combinations({1}, {"default"}, {"none", "IndexBasedClassification"},
               {"IndexBasedClassification", "SmoothAndShift"},
               {"plain", "direct", "padded", "fused"}, {"plain"})

\* The dictionary codec of agg/, on either side.
DictSettings ==
  Combinations({2}, {"zigzag"}, {"none"},
               {"Threshold", "SmoothAndShift", "ValueBasedClassification", "ValueShift"},
               {"plain", "padded", "dict"}, {"dict", "plain"})
  \cup Combinations({2}, {"default"}, {"Threshold", "ValueBasedClassification"},
                    {"ValueShift", "ValueBasedClassification"}, {"direct", "dict"}, {"dict"})

\* The scan of agg/ meets what the split would.
ScanSettings ==
  Combinations({3}, {"morton"}, {"none"}, {"ValueShift"}, {"dict"}, {"plain"})
  \cup Combinations({1}, {"default"}, {"none"}, {"IndexBasedClassification"},
                    {"plain"}, {"dict"})

AllSettings == MutatingSettings \cup ReadingSettings \cup OrderingSettings
               \cup SmallSettings \cup DictSettings \cup ScanSettings

Square(n, f(_)) == [p \in 1 .. n * n |-> f(p)]
Ramp(n)    == Square(n, LAMBDA p : p)
Extreme(n) == Square(n, LAMBDA p : IF p % 2 = 0 THEN -Half ELSE Half - 1)
Below(n)   == Square(n, LAMBDA p : p - 3)
Flat(n)    == Square(n, LAMBDA p : 2)
\* Shifted by Half, its range wraps around to a bin size of -1.
Wide(n)    == Square(n, LAMBDA p : CASE p % 4 = 1 -> -Half
                                       [] p % 4 = 2 -> 2 - Half
                                       [] p % 4 = 3 -> -1
                                       [] OTHER     -> 2)

\* Blocks that all differ, with the minimum in any place, and some that are
\* equal.
AllRasters ==
  [n \in 1 .. 4 |->
     {<<Ramp(n), Extreme(n), Below(n)>>, <<Below(n), Flat(n), Ramp(n)>>,
      <<Flat(n), Flat(n), Below(n)>>}
     \cup IF n = 2 THEN {<<Wide(n), Flat(n), Ramp(n)>>} ELSE {}]
===============================================================================

---------------------------- MODULE Transformations ----------------------------
(***************************************************************************)
(* The in-place transformations of transformations.h, as functions from    *)
(* the vector before to the vector after.  The literals of bench_utils.h   *)
(* (8 classes, a shift of 2^23) are parameters, so that they fit words of  *)
(* a few bits.                                                             *)
(***************************************************************************)
EXTENDS Words, SequencesExt

CONSTANTS Classes,   \* max_classes and num_classes
          Shift      \* the delta of ValueShift

ASSUME ClassesAssumption == Classes \in Nat /\ Classes > 1 /\ Classes <= Half
ASSUME ShiftAssumption   == Shift \in Word

SumOf(data) ==
  LET sum[k \in 0 .. Len(data)] == IF k = 0 THEN 0 ELSE sum[k - 1] + data[k]
  IN  sum[Len(data)]

\* Avg sums in 64 bits.
Avg(data) == IF data = <<>> THEN 0 ELSE TruncDiv(SumOf(data), Len(data))

\* Threshold with the mean of the data, as both callers have it.
Threshold(data) ==
  LET value == Avg(data)
  IN  [i \in 1 .. Len(data) |-> IF data[i] >= value THEN 1 ELSE 0]

(***************************************************************************)
(* A three-point mean, two-point at the ends, in wrapping arithmetic, and  *)
(* a shift that makes the least value zero when it is negative.            *)
(***************************************************************************)
Smoothed(data) ==
  LET n == Len(data)
  IN  [i \in 1 .. n |->
         IF i = 1 THEN TruncDiv(Wrap(data[1] + data[2]), 2)
         ELSE IF i = n THEN TruncDiv(Wrap(data[n - 1] + data[n]), 2)
         ELSE TruncDiv(Wrap(Wrap(data[i - 1] + data[i]) + data[i + 1]), 3)]

SmoothAndShift(data) ==
  IF Len(data) < 2 THEN data
  ELSE LET smoothed == Smoothed(data)
           least    == Min(ToSet(smoothed))
       IN  [i \in 1 .. Len(data) |->
              IF least < 0 THEN Wrap(smoothed[i] + Wrap(-least)) ELSE smoothed[i]]

(***************************************************************************)
(* Classes by position.                                                    *)
(***************************************************************************)
\* A plausible slip: one class more than there are.
ItemsPerClassOneMore(n) == n \div (Classes + 1)

ItemsPerClass(n) == n \div Classes

IndexBasedClassification(data) ==
  LET perClass == ItemsPerClass(Len(data))
  IN  [i \in 1 .. Len(data) |->
         IF i > perClass * Classes THEN Classes - 1 ELSE (i - 1) \div perClass]

(***************************************************************************)
(* Classes by value; the range of the values may exceed the word.          *)
(***************************************************************************)
Least(data) == Min(ToSet(data))

BinSize(data) == TruncDiv(Wrap(Max(ToSet(data)) - Least(data)), Classes - 1)

ValueBasedClassification(data) ==
  [i \in 1 .. Len(data) |->
     IF BinSize(data) = 0 THEN 0
     ELSE LET class == TruncDiv(Wrap(data[i] - Least(data)), BinSize(data))
          IN  IF class < Classes - 1 THEN class ELSE Classes - 1]

ValueShift(data) == [i \in 1 .. Len(data) |-> Wrap(data[i] + Shift)]

Mutating == {"Threshold", "SmoothAndShift", "IndexBasedClassification",
             "ValueBasedClassification", "ValueShift"}

(***************************************************************************)
(* The vectors on which a division traps: by position, when there is no    *)
(* value per class; by value, when the range has wrapped around to a bin   *)
(* size of -1 and the least word is divided by it.  The operators above    *)
(* are for the vectors that do not trap.                                   *)
(***************************************************************************)
Traps(t, data) ==
  \/ t = "IndexBasedClassification" /\ data # <<>> /\ ItemsPerClass(Len(data)) = 0
  \/ /\ t = "ValueBasedClassification" /\ data # <<>> /\ BinSize(data) = -1
     /\ \E v \in ToSet(data) : Wrap(v - Least(data)) = -Half

\* ApplyTransformation, and the mutating variants of ApplyAccessTransformation.
Transformed(t, data) ==
  CASE t = "none"                     -> data
    [] t = "Threshold"                -> Threshold(data)
    [] t = "SmoothAndShift"           -> SmoothAndShift(data)
    [] t = "IndexBasedClassification" -> IndexBasedClassification(data)
    [] t = "ValueBasedClassification" -> ValueBasedClassification(data)
    [] t = "ValueShift"               -> ValueShift(data)
=============================================================================

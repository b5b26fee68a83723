--------------------------- MODULE RasterBlocksProofs ---------------------------
(***************************************************************************)
(* RasterBlocks for rasters and blocks of every size, every number of      *)
(* blocks to sample, every word width and reads that fail anywhere.        *)
(***************************************************************************)
EXTENDS RasterBlocks, TLAPS, FiniteSetTheorems, WellFoundedInduction

(***************************************************************************)
(* Facts about the integers.                                               *)
(***************************************************************************)
LEMMA DivMod ==
  ASSUME NEW n \in Nat, NEW d \in Nat \ {0}
  PROVE  /\ n \div d \in Nat /\ n % d \in 0 .. d - 1
         /\ d * (n \div d) \in Nat
         /\ n = d * (n \div d) + (n % d)
OBVIOUS

LEMMA ProductAtMost ==
  ASSUME NEW x \in Nat, NEW y \in Nat, NEW z \in Nat, y <= z
  PROVE  x * y \in Nat /\ x * y <= x * z /\ y * x = x * y
OBVIOUS

\* A quotient and a remainder are those of the division.
LEMMA DivModUnique ==
  ASSUME NEW d \in Nat \ {0}, NEW q \in Nat, NEW r \in 0 .. d - 1
  PROVE  (d * q + r) % d = r
<1> DEFINE n == d * q + r
           p == n \div d
<1>1. d * q \in Nat /\ n \in Nat
  OBVIOUS
<1>2. p \in Nat /\ n % d \in 0 .. d - 1 /\ d * p \in Nat /\ n = d * p + (n % d)
  BY <1>1, DivMod
<1>3. n = d * q + r
  OBVIOUS
<1> HIDE DEF n, p
<1>4. ~ (p < q)
  <2> SUFFICES ASSUME p < q PROVE FALSE
    OBVIOUS
  <2>1. p + 1 \in Nat /\ p + 1 <= q
    BY <1>2
  <2>2. d * (p + 1) <= d * q
    BY <2>1, ProductAtMost
  <2>3. d * (p + 1) = d * p + d
    BY <1>2
  <2> QED
    BY <1>1, <1>2, <1>3, <2>2, <2>3
<1>5. ~ (q < p)
  <2> SUFFICES ASSUME q < p PROVE FALSE
    OBVIOUS
  <2>1. q + 1 \in Nat /\ q + 1 <= p
    BY <1>2
  <2>2. d * (q + 1) <= d * p
    BY <1>2, <2>1, ProductAtMost
  <2>3. d * (q + 1) = d * q + d
    OBVIOUS
  <2> QED
    BY <1>1, <1>2, <1>3, <2>2, <2>3
<1>6. p = q
  BY <1>2, <1>4, <1>5
<1>7. n % d = r
  BY <1>1, <1>2, <1>3, <1>6
<1> QED
  BY <1>7 DEF n

\* A nonempty set of words has a minimum.
LEMMA LeastWord ==
  ASSUME NEW S \in SUBSET Word, S # {}
  PROVE  Min(S) \in S /\ \A v \in S : Min(S) <= v
<1> DEFINE T == {v + Half : v \in S}
<1>1. T \in SUBSET Nat /\ T # {}
  BY HalfAssumption DEF Word
<1>2. PICK m \in T : \A n \in T : <<n, m>> \notin OpToRel(<, Nat)
  <2> HIDE DEF T
  <2> QED
    BY <1>1, WFMin, NatLessThanWellFounded
<1>3. m \in Nat /\ \A n \in T : n \in Nat /\ ~ (n < m)
  BY <1>1, <1>2 DEF OpToRel
<1>4. PICK x \in S : m = x + Half
  BY <1>2
<1>5. ASSUME NEW v \in S PROVE x <= v
  <2>1. v + Half \in T /\ v \in Int /\ x \in Int /\ Half \in Nat
    BY HalfAssumption DEF Word
  <2> HIDE DEF T
  <2>2. ~ (v + Half < x + Half)
    BY <1>3, <1>4, <2>1
  <2> QED
    BY <2>1, <2>2
<1> QED
  BY <1>5 DEF Min

(***************************************************************************)
(* The shift of one value: a word, and not negative exactly when the value *)
(* is less than 2^31 above the minimum, whatever the two wraps do.         *)
(***************************************************************************)
LEMMA ShiftOfValue ==
  ASSUME NEW m \in Word, NEW v \in Word
  PROVE  /\ Wrap(v + Wrap(-m)) \in Word
         /\ m < 0 /\ m <= v => (Wrap(v + Wrap(-m)) >= 0 <=> v - m < Half)
  BY HalfAssumption DEF Word, Wrap

\* The shift of a block.
LEMMA ShiftedFacts ==
  ASSUME minimum \in Word, NEW S \in (SUBSET Word) \ {{}}
  PROVE  /\ Shifted(S) \in (SUBSET Word) \ {{}}
         /\ (\A v \in S : minimum <= v) =>
              ((\A w \in Shifted(S) : w >= 0)
                 <=> (\A v \in S : minimum < 0 => v - minimum < Half))
<1>1. CASE minimum < 0
  <2>1. Shifted(S) = {Wrap(v + Wrap(-minimum)) : v \in S}
    BY <1>1 DEF Shifted
  <2>2. \A v \in S : Wrap(v + Wrap(-minimum)) \in Word
    BY ShiftOfValue
  <2>3. \A v \in S : minimum <= v =>
          (Wrap(v + Wrap(-minimum)) >= 0 <=> v - minimum < Half)
    BY <1>1, ShiftOfValue
  <2> QED
    BY <1>1, <2>1, <2>2, <2>3
<1>2. CASE ~ (minimum < 0)
  <2>1. Shifted(S) = S
    BY <1>2 DEF Shifted
  <2>2. \A v \in S : minimum <= v => v >= 0
    BY <1>2 DEF Word
  <2> QED
    BY <1>2, <2>1, <2>2
<1> QED
  BY <1>1, <1>2

-------------------------------------------------------------------------------
(***************************************************************************)
(* The sampling.                                                           *)
(***************************************************************************)
LEMMA IntervalFacts ==
  ASSUME NEW total \in Nat \ {0}, NEW count \in Nat \ {0}
  PROVE  /\ SampleInterval(total, count) \in Nat \ {0}
         /\ count <= total => count * SampleInterval(total, count) <= total
         /\ count > total => SampleInterval(total, count) = 1
<1> DEFINE x == total \div count
<1>1. x \in Nat /\ count * x \in Nat /\ total = count * x + (total % count)
      /\ total % count \in 0 .. count - 1
  BY DivMod
<1>2. SampleInterval(total, count) = Max({1, x})
  BY DEF SampleInterval
<1> HIDE DEF x
<1>3. Max({1, x}) = IF x > 1 THEN x ELSE 1
  <2>1. \E m \in {1, x} : \A y \in {1, x} : m >= y
    BY <1>1
  <2>2. Max({1, x}) \in {1, x} /\ \A y \in {1, x} : Max({1, x}) >= y
    BY <2>1 DEF Max
  <2> QED
    BY <1>1, <2>2
<1>4. count <= total => x >= 1
  <2> SUFFICES ASSUME count <= total, x = 0 PROVE FALSE
    BY <1>1
  <2>1. count * x = 0
    OBVIOUS
  <2> QED
    BY <1>1, <2>1
<1>5. count > total => x = 0
  <2> SUFFICES ASSUME count > total, x >= 1 PROVE FALSE
    BY <1>1
  <2>1. count * 1 <= count * x
    BY <1>1, ProductAtMost
  <2> QED
    BY <1>1, <2>1
<1> QED
  BY <1>1, <1>2, <1>3, <1>4, <1>5

\* Every number sampled is that of a block.
LEMMA SampledFacts ==
  ASSUME NEW total \in Nat \ {0}, NEW count \in Nat \ {0}
  PROVE  /\ Len(SampledBlocks(total, count)) = count
         /\ \A j \in 1 .. count :
              /\ SampledBlocks(total, count)[j] \in 0 .. total - 1
              /\ SampledBlocks(total, count)[j]
                   = ((j - 1) * SampleInterval(total, count)) % total
<1> DEFINE s == SampleInterval(total, count)
<1>1. s \in Nat \ {0}
  BY IntervalFacts
<1> HIDE DEF s
<1>2. \A j \in 1 .. count : (j - 1) * s \in Nat
  BY <1>1
<1>3. \A j \in 1 .. count : ((j - 1) * s) % total \in 0 .. total - 1
  BY <1>2, DivMod
<1>4. SampledBlocks(total, count) = [j \in 1 .. count |-> ((j - 1) * s) % total]
  BY DEF SampledBlocks, s
<1> QED
  BY <1>3, <1>4 DEF s

\* The block of a number less than their product lies in a raster of so many
\* blocks in a row and a column.
LEMMA OffsetInside ==
  ASSUME NEW width \in Nat, NEW height \in Nat, NEW side \in Nat \ {0},
         NEW number \in 0 .. (width \div side) * (height \div side) - 1
  PROVE  LET offset == BlockOffset(number, width \div side, side)
         IN  offset.x + side <= width /\ offset.y + side <= height
<1> DEFINE w == width \div side
           h == height \div side
<1>1. w \in Nat /\ h \in Nat /\ side * w <= width /\ side * h <= height
      /\ side * w \in Nat /\ side * h \in Nat
  BY DivMod
<1>2. number \in 0 .. w * h - 1
  OBVIOUS
<1>3. BlockOffset(number, width \div side, side).x = (number % w) * side
      /\ BlockOffset(number, width \div side, side).y = (number \div w) * side
  BY DEF BlockOffset
<1> HIDE DEF w, h
<1>4. w * h \in Nat /\ number \in Nat /\ number < w * h
  BY <1>1, <1>2
<1>5. w # 0
  <2>1. w = 0 => w * h = 0
    BY <1>1
  <2> QED
    BY <1>4, <2>1
<1> DEFINE a == number % w
           b == number \div w
<1>6. a \in 0 .. w - 1 /\ b \in Nat /\ w * b \in Nat /\ number = w * b + a
  <2>1. w \in Nat \ {0} /\ number \in Nat
    BY <1>1, <1>4, <1>5
  <2> QED
    BY <2>1, DivMod
<1> HIDE DEF a, b
<1>7. b < h
  <2> SUFFICES ASSUME h <= b PROVE FALSE
    BY <1>1, <1>6
  <2>1. w * h <= w * b
    BY <1>1, <1>6, ProductAtMost
  <2> QED
    BY <1>1, <1>4, <1>6, <2>1
<1>8. a \in Nat /\ b \in Nat /\ a + 1 <= w /\ b + 1 <= h
  BY <1>1, <1>6, <1>7
<1>9. side * (a + 1) <= side * w /\ side * (b + 1) <= side * h
  BY <1>1, <1>8, ProductAtMost
<1>10. a * side + side = side * (a + 1) /\ b * side + side = side * (b + 1)
       /\ a * side \in Nat /\ b * side \in Nat
  BY <1>8
<1>11. a * side + side <= width /\ b * side + side <= height
  BY <1>1, <1>8, <1>9, <1>10
<1> QED
  BY <1>3, <1>11 DEF a, b

(***************************************************************************)
(* No block is sampled more than once more than another: with fewer        *)
(* samples than blocks none is sampled twice, since the interval times the *)
(* number of samples is no more than the number of blocks; with more, the  *)
(* samples go round, and each but the first of one block follows one of    *)
(* the other.                                                              *)
(***************************************************************************)
SamplesOf(total, count, n) == {j \in 1 .. count : SampledBlocks(total, count)[j] = n}

LEMMA SamplesEvenly ==
  ASSUME NEW total \in Nat \ {0}, NEW count \in Nat \ {0},
         NEW a \in 0 .. total - 1, NEW b \in 0 .. total - 1
  PROVE  Cardinality(SamplesOf(total, count, a))
           <= Cardinality(SamplesOf(total, count, b)) + 1
<1> DEFINE A == SamplesOf(total, count, a)
           B == SamplesOf(total, count, b)
           s == SampleInterval(total, count)
<1>1. /\ A \subseteq 1 .. count /\ B \subseteq 1 .. count
      /\ \A j \in 1 .. count : /\ j \in A <=> ((j - 1) * s) % total = a
                               /\ j \in B <=> ((j - 1) * s) % total = b
  BY SampledFacts DEF SamplesOf
<1>2. IsFiniteSet(1 .. count)
  BY FS_Interval
<1>3. IsFiniteSet(A) /\ IsFiniteSet(B)
  BY <1>1, <1>2, FS_Subset
<1>4. Cardinality(A) \in Nat /\ Cardinality(B) \in Nat
  BY <1>3, FS_CardinalityType
<1>5. s \in Nat \ {0}
  BY IntervalFacts
<1>6. CASE count <= total
  <2>1. count * s <= total /\ count * s \in Nat
    BY <1>5, <1>6, IntervalFacts
  <2>2. ASSUME NEW j \in A PROVE j \in 1 .. count /\ (j - 1) * s = a
    <3>1. j \in 1 .. count /\ ((j - 1) * s) % total = a
      BY <1>1, <2>2
    <3>2. j - 1 \in Nat /\ (j - 1) + 1 <= count
      BY <3>1
    <3>3. s * ((j - 1) + 1) <= s * count /\ s * count = count * s
      BY <1>5, <3>2, ProductAtMost
    <3>4. s * ((j - 1) + 1) = (j - 1) * s + s /\ (j - 1) * s \in Nat
      BY <1>5, <3>2
    <3>5. (j - 1) * s < total
      BY <1>5, <2>1, <3>3, <3>4
    <3>6. \A x \in Nat : x < total => x % total = x
      OBVIOUS
    <3> QED
      BY <3>1, <3>4, <3>5, <3>6
  <2>3. ASSUME NEW i \in A, NEW j \in A, i < j PROVE FALSE
    <3>1. i - 1 \in Nat /\ j - 1 \in Nat /\ (i - 1) + 1 <= j - 1
          /\ (i - 1) * s = a /\ (j - 1) * s = a
      BY <2>2, <2>3
    <3>2. s * ((i - 1) + 1) <= s * (j - 1) /\ (j - 1) * s = s * (j - 1)
      BY <1>5, <3>1, ProductAtMost
    <3>3. s * ((i - 1) + 1) = (i - 1) * s + s
      BY <1>5, <3>1
    <3> QED
      BY <1>5, <3>1, <3>2, <3>3
  <2>4. \A i, j \in A : i = j
    BY <1>1, <2>3
  <2>5. CASE A = {}
    BY <1>4, <2>5, FS_EmptySet
  <2>6. CASE A # {}
    <3>1. PICK j \in A : TRUE
      BY <2>6
    <3>2. A = {j}
      BY <2>4, <3>1
    <3> HIDE DEF A
    <3>3. Cardinality(A) = 1
      BY <3>2, FS_Singleton
    <3> QED
      BY <1>4, <3>3 DEF A
  <2> QED
    BY <2>5, <2>6
<1>7. CASE count > total
  <2> DEFINE turn == IF b >= a THEN b - a ELSE b - a + total
             C == A \ {a + 1}
             f == [j \in C |-> j - total + turn]
  <2>1. s = 1 /\ turn \in 0 .. total - 1
    BY <1>7, IntervalFacts
  <2>2. \A j \in 1 .. count : /\ j \in A <=> (j - 1) % total = a
                              /\ j \in B <=> (j - 1) % total = b
    <3>1. \A j \in 1 .. count : (j - 1) * s = j - 1
      BY <2>1
    <3> QED
      BY <1>1, <3>1
  <2>3. ASSUME NEW j \in C PROVE j - total + turn \in B
    <3>1. j \in 1 .. count /\ j \in A /\ j # a + 1
      BY <1>1, <2>3
    <3> DEFINE q == (j - 1) \div total
    <3>2. /\ j - 1 \in Nat /\ q \in Nat /\ total * q \in Nat
          /\ j - 1 = total * q + a
      <4>1. j - 1 \in Nat /\ (j - 1) % total = a
        BY <2>2, <3>1
      <4> QED
        BY <4>1, DivMod
    <3> HIDE DEF q
    <3>3. q # 0
      <4>1. q = 0 => total * q = 0
        OBVIOUS
      <4> QED
        BY <3>1, <3>2, <4>1
    <3>4. PICK p \in Nat : q = p + 1
      <4>1. q - 1 \in Nat /\ q = (q - 1) + 1
        BY <3>2, <3>3
      <4> QED
        BY <4>1
    <3>5. total * q = total * p + total /\ total * p \in Nat
      BY <3>4
    <3> DEFINE m == j - total + turn
    <3>6. m \in 1 .. count /\ (m - 1 = total * p + b \/ m - 1 = total * q + b)
      BY <2>1, <3>1, <3>2, <3>5
    <3>7. (total * p + b) % total = b /\ (total * q + b) % total = b
      BY <3>2, DivModUnique
    <3> HIDE DEF m, B
    <3>8. m \in B
      BY <2>2, <3>6, <3>7
    <3> QED
      BY <3>8 DEF m
  <2>4. f \in Injection(C, B)
    <3>1. f \in [C -> B]
      BY <2>3
    <3>2. \A i, j \in C : f[i] = f[j] => i = j
      BY <1>1, <2>1
    <3> HIDE DEF f
    <3> QED
      BY <3>1, <3>2 DEF Injection, IsInjective
  <2> HIDE DEF f
  <2>5. Cardinality(C) <= Cardinality(B)
    BY <1>3, <2>4, FS_Injection
  <2>6. Cardinality(A) <= Cardinality(C) + 1 /\ Cardinality(C) \in Nat
    <3> HIDE DEF A
    <3>1. /\ IsFiniteSet(C)
          /\ Cardinality(C) = IF a + 1 \in A THEN Cardinality(A) - 1 ELSE Cardinality(A)
      BY <1>3, FS_RemoveElement
    <3>2. Cardinality(C) \in Nat
      BY <3>1, FS_CardinalityType
    <3> HIDE DEF C
    <3> QED
      BY <1>4, <3>1, <3>2
  <2> HIDE DEF A, B, C
  <2>7. Cardinality(A) <= Cardinality(B) + 1
    BY <1>4, <2>5, <2>6
  <2> QED
    BY <2>7 DEF A, B
<1> QED
  BY <1>6, <1>7

-------------------------------------------------------------------------------
(***************************************************************************)
(* The inductive invariant: the minimum is a lower bound of every block    *)
(* that the first pass could read so far, and so of every sampled block    *)
(* when the second pass begins, in both programs; and the blocks handed on *)
(* are the sampled ones in order.                                          *)
(***************************************************************************)
Fixed == \E c \in Cases : input = c.input /\ raster = c.raster

Met(number) == number \in missed \/ \A v \in raster[number] : minimum <= v

Scanning ==
  pc = "minimum" =>
    /\ blocks = <<>>
    /\ ~ Traps => /\ k \in 0 .. Len(Scanned)
                  /\ \A j \in 1 .. k : Met(Scanned[j])

HandingOn ==
  pc \in {"blocks", "done"} =>
    /\ input.side > 0
    /\ pc = "done" => ~ SamplingTraps /\ k = input.count
    /\ ~ SamplingTraps =>
         /\ \A j \in 1 .. input.count : Met(Sampled[j])
         /\ k \in 0 .. input.count /\ Len(blocks) = k
         /\ \A j \in 1 .. k : blocks[j].number = Sampled[j]

IInv == TypeOK /\ Fixed /\ k \in Nat /\ Scanning /\ HandingOn /\ ShiftedWhenTheRangeFits

\* What the case that was picked says of the raster.
LEMMA Layout ==
  ASSUME Fixed
  PROVE  /\ input \in [program : {"comp", "pipeline"}, width : Nat \ {0},
                       height : Nat \ {0}, side : Nat, count : Nat, failures : Nat]
         /\ \A n \in DOMAIN raster : raster[n] \in (SUBSET Word) \ {{}}
         /\ input.side > 0 => /\ TotalBlocks \in Nat
                              /\ DOMAIN raster = 0 .. TotalBlocks - 1
<1>1. PICK c \in Cases : input = c.input /\ raster = c.raster
  BY DEF Fixed
<1>2. /\ input \in [program : {"comp", "pipeline"}, width : Nat \ {0},
                    height : Nat \ {0}, side : Nat, count : Nat, failures : Nat]
      /\ \A n \in DOMAIN raster : raster[n] \in (SUBSET Word) \ {{}}
      /\ input.side > 0 => DOMAIN raster = 0 .. TotalBlocks - 1
  BY <1>1, RasterAssumption DEF TotalBlocks, BlocksInWidth, BlocksInHeight
<1>3. ASSUME input.side > 0 PROVE TotalBlocks \in Nat
  <2>1. BlocksInWidth \in Nat /\ BlocksInHeight \in Nat
    <3>1. input.width \in Nat /\ input.height \in Nat /\ input.side \in Nat \ {0}
      BY <1>2, <1>3
    <3> QED
      BY <3>1, DivMod DEF BlocksInWidth, BlocksInHeight
  <2> QED
    BY <2>1 DEF TotalBlocks
<1> QED
  BY <1>2, <1>3

\* The blocks of the second pass are blocks of the raster.
LEMMA SampledInRaster ==
  ASSUME Fixed, input.side > 0, ~ SamplingTraps
  PROVE  /\ input.count \in Nat \ {0} /\ TotalBlocks \in Nat \ {0}
         /\ Len(Sampled) = input.count
         /\ \A j \in 1 .. input.count : Sampled[j] \in DOMAIN raster
<1>1. /\ input.count \in Nat \ {0} /\ TotalBlocks \in Nat \ {0}
      /\ DOMAIN raster = 0 .. TotalBlocks - 1
  BY Layout DEF SamplingTraps
<1> QED
  BY <1>1, SampledFacts DEF Sampled

\* So are those of the first.
LEMMA ScannedInRaster ==
  ASSUME Fixed, pc = "minimum", ~ Traps
  PROVE  /\ input.side > 0
         /\ Len(Scanned) \in Nat
         /\ \A j \in 1 .. Len(Scanned) : Scanned[j] \in DOMAIN raster
<1>1. /\ input.side \in Nat /\ input.side # 0 /\ input.program \in {"comp", "pipeline"}
      /\ input.program = "pipeline" => ~ SamplingTraps
  BY Layout DEF Traps
<1>2. TotalBlocks \in Nat /\ DOMAIN raster = 0 .. TotalBlocks - 1
  BY <1>1, Layout
<1>3. CASE input.program = "comp"
  <2>1. Scanned = [j \in 1 .. TotalBlocks |-> j - 1]
    BY <1>3 DEF Scanned
  <2>2. Len(Scanned) = TotalBlocks
    BY <1>2, <2>1
  <2> QED
    BY <1>1, <1>2, <2>1, <2>2
<1>4. CASE input.program = "pipeline"
  <2>1. Scanned = Sampled
    BY <1>4 DEF Scanned
  <2> QED
    BY <1>1, <1>4, <2>1, SampledInRaster
<1> QED
  BY <1>1, <1>3, <1>4

\* The minimum is a word, no larger than before nor than any value read.
LEMMA NewMinimum ==
  ASSUME TypeOK, NEW S \in (SUBSET Word) \ {{}}
  PROVE  /\ Min({minimum} \cup S) \in Word
         /\ Min({minimum} \cup S) <= minimum
         /\ \A v \in S : Min({minimum} \cup S) <= v
<1>1. {minimum} \cup S \in SUBSET Word /\ {minimum} \cup S # {}
  BY DEF TypeOK
<1> QED
  BY <1>1, LeastWord

LEMMA ZeroIsAWord == {0} \in (SUBSET Word) \ {{}}
  BY HalfAssumption DEF Word

LEMMA InitIInv == Init => IInv
<1> SUFFICES ASSUME Init PROVE IInv
  OBVIOUS
<1>1. Half - 1 \in Word
  BY HalfAssumption DEF Word
<1>2. TypeOK
  BY <1>1 DEF Init, TypeOK
<1>3. Scanning /\ k \in Nat
  <2>1. ~ Traps => 0 \in 0 .. Len(Scanned)
    BY ScannedInRaster DEF Init, Fixed
  <2> QED
    BY <2>1 DEF Init, Scanning
<1> QED
  BY <1>2, <1>3 DEF Init, IInv, Fixed, HandingOn, ShiftedWhenTheRangeFits

(***************************************************************************)
(* One block of the first pass, read or not.                               *)
(***************************************************************************)
LEMMA ScanStep ==
  ASSUME IInv, ScanBlock \/ ScanFails
  PROVE  IInv'
<1> DEFINE number == Scanned[k + 1]
<1>1. /\ pc = "minimum" /\ ~ Traps /\ k < Len(Scanned) /\ k' = k + 1
      /\ UNCHANGED <<input, raster, pc, blocks>> /\ Fixed
  BY DEF IInv, ScanBlock, ScanFails, ComputeMinForBlock
<1>2. /\ Len(Scanned) \in Nat /\ k \in Nat
      /\ \A j \in 1 .. Len(Scanned) : Scanned[j] \in DOMAIN raster
  BY <1>1, ScannedInRaster DEF IInv
<1>3. number \in DOMAIN raster /\ raster[number] \in (SUBSET Word) \ {{}}
  BY <1>1, <1>2, Layout
<1>4. /\ minimum \in Word /\ minimum' \in Word /\ minimum' <= minimum
      /\ missed' \subseteq DOMAIN raster /\ missed \subseteq missed'
      /\ number \in missed' \/ \A v \in raster[number] : minimum' <= v
  <2>1. minimum \in Word /\ missed \subseteq DOMAIN raster
    BY DEF IInv, TypeOK
  <2>2. CASE ScanBlock
    <3>1. minimum' = Min({minimum} \cup raster[number]) /\ missed' = missed
      BY <2>2 DEF ScanBlock, ComputeMinForBlock
    <3> QED
      BY <1>3, <2>1, <3>1, NewMinimum DEF IInv
  <2>3. CASE ScanFails
    <3>1. minimum' = Min({minimum} \cup {0}) /\ missed' = missed \cup {number}
      BY <2>3 DEF ScanFails, ComputeMinForBlock
    <3> QED
      BY <1>3, <2>1, <3>1, NewMinimum, ZeroIsAWord DEF IInv
  <2> QED
    BY <2>2, <2>3
<1>5. Scanned' = Scanned /\ (Traps' <=> Traps)
  BY <1>1 DEF Scanned, Sampled, Traps, SamplingTraps, TotalBlocks, BlocksInWidth,
              BlocksInHeight
<1>6. \A n \in DOMAIN raster : Met(n) => Met(n)'
  <2> SUFFICES ASSUME NEW n \in DOMAIN raster, Met(n), n \notin missed',
                      NEW v \in raster[n]
               PROVE  minimum' <= v
    BY <1>1 DEF Met
  <2>1. minimum <= v /\ v \in Word
    BY <1>1, <1>4, Layout DEF Met
  <2> QED
    BY <1>4, <2>1, HalfAssumption DEF Word
<1>7. \A j \in 1 .. k + 1 : Met(Scanned[j])'
  <2> SUFFICES ASSUME NEW j \in 1 .. k + 1 PROVE Met(Scanned[j])'
    OBVIOUS
  <2>1. CASE j = k + 1
    BY <1>1, <1>4, <1>5, <2>1 DEF Met
  <2>2. CASE j # k + 1
    <3>1. j \in 1 .. k /\ j \in 1 .. Len(Scanned)
      BY <1>1, <1>2, <2>2
    <3>2. Met(Scanned[j])
      BY <1>1, <3>1 DEF IInv, Scanning
    <3> DEFINE n == Scanned[j]
    <3>3. n' = n /\ n \in DOMAIN raster
      BY <1>2, <1>5, <3>1
    <3>4. Met(n)'
      BY <1>6, <3>2, <3>3
    <3> QED
      BY <3>4
  <2> QED
    BY <2>1, <2>2
<1>8. Scanning' /\ k' \in Nat
  <2>1. k + 1 \in 0 .. Len(Scanned)
    BY <1>1, <1>2
  <2>2. blocks' = <<>>
    BY <1>1 DEF IInv, Scanning
  <2> QED
    BY <1>1, <1>2, <1>5, <1>7, <2>1, <2>2 DEF Scanning
<1>9. TypeOK'
  BY <1>1, <1>4 DEF IInv, TypeOK
<1>10. Fixed' /\ HandingOn' /\ ShiftedWhenTheRangeFits'
  <2>1. blocks' = <<>>
    BY <1>1 DEF IInv, Scanning
  <2> QED
    BY <1>1, <2>1 DEF Fixed, HandingOn, ShiftedWhenTheRangeFits
<1> QED
  BY <1>8, <1>9, <1>10 DEF IInv

(***************************************************************************)
(* The end of the first pass: every sampled block was met by it.           *)
(***************************************************************************)
LEMMA EndScanStep ==
  ASSUME IInv, EndScan
  PROVE  IInv'
<1>1. /\ pc = "minimum" /\ ~ Traps /\ k = Len(Scanned) /\ pc' = "blocks" /\ k' = 0
      /\ UNCHANGED <<input, raster, minimum, missed, blocks>> /\ Fixed
      /\ blocks = <<>> /\ \A j \in 1 .. k : Met(Scanned[j])
  BY DEF IInv, EndScan, Scanning
<1>2. input.side > 0
  BY <1>1, ScannedInRaster
<1>3. ASSUME ~ SamplingTraps, NEW j \in 1 .. input.count PROVE Met(Sampled[j])
  <2>1. /\ TotalBlocks \in Nat \ {0} /\ Len(Sampled) = input.count
        /\ Sampled[j] \in 0 .. TotalBlocks - 1
        /\ input.program \in {"comp", "pipeline"}
    BY <1>1, <1>2, <1>3, SampledInRaster, Layout
  <2>2. CASE input.program = "pipeline"
    <3>1. Scanned = Sampled
      BY <2>2 DEF Scanned
    <3> QED
      BY <1>1, <2>1, <3>1
  <2>3. CASE input.program = "comp"
    <3> DEFINE n == Sampled[j]
    <3>1. Scanned = [m \in 1 .. TotalBlocks |-> m - 1]
      BY <2>3 DEF Scanned
    <3>2. Len(Scanned) = TotalBlocks
      BY <2>1, <3>1
    <3>3. n + 1 \in 1 .. TotalBlocks /\ n = (n + 1) - 1
      BY <2>1
    <3> HIDE DEF n
    <3>4. Scanned[n + 1] = n /\ Met(Scanned[n + 1])
      BY <1>1, <3>1, <3>2, <3>3
    <3>5. Met(n)
      BY <3>4
    <3> QED
      BY <3>5 DEF n
  <2> QED
    BY <2>1, <2>2, <2>3
<1>4. /\ \A n : Met(n)' <=> Met(n)
      /\ SamplingTraps' <=> SamplingTraps
      /\ Sampled' = Sampled
  BY <1>1 DEF Met, Sampled, SamplingTraps, TotalBlocks, BlocksInWidth, BlocksInHeight
<1>5. HandingOn'
  <2>1. ~ SamplingTraps => input.count \in Nat
    BY <1>1, Layout
  <2>2. \A j \in 1 .. input.count : ~ SamplingTraps => Met(Sampled[j])'
    <3> SUFFICES ASSUME ~ SamplingTraps, NEW j \in 1 .. input.count
                 PROVE  Met(Sampled[j])'
      OBVIOUS
    <3>1. Met(Sampled[j])
      BY <1>3
    <3> QED
      BY <1>1, <1>4, <3>1 DEF Met
  <2> QED
    BY <1>1, <1>2, <1>4, <2>1, <2>2 DEF HandingOn
<1> QED
  BY <1>1, <1>5 DEF IInv, TypeOK, Fixed, Scanning, ShiftedWhenTheRangeFits

(***************************************************************************)
(* A block that is handed on, read or not.                                 *)
(***************************************************************************)
LEMMA HandOnStep ==
  ASSUME IInv, ReadBlock \/ ReadFailsUnnoticed
  PROVE  IInv'
<1> DEFINE number == Sampled[k + 1]
<1>1. /\ pc = "blocks" /\ ~ Traps /\ k < Len(Sampled) /\ k' = k + 1
      /\ UNCHANGED <<input, raster, pc, minimum, missed>> /\ Fixed
      /\ input.side > 0
  BY DEF IInv, ReadBlock, ReadFailsUnnoticed, HandOn, HandingOn
<1>2. ~ SamplingTraps
  BY <1>1 DEF Traps
<1>3. /\ input.count \in Nat \ {0} /\ Len(Sampled) = input.count
      /\ \A j \in 1 .. input.count : Sampled[j] \in DOMAIN raster /\ Met(Sampled[j])
      /\ k \in 0 .. input.count /\ Len(blocks) = k
      /\ \A j \in 1 .. k : blocks[j].number = Sampled[j]
  BY <1>1, <1>2, SampledInRaster DEF IInv, HandingOn
<1>4. number \in DOMAIN raster /\ raster[number] \in (SUBSET Word) \ {{}} /\ Met(number)
  BY <1>1, <1>3, Layout
<1>5. minimum \in Word
  BY DEF IInv, TypeOK
<1>6. PICK entry \in [number : DOMAIN raster, values : (SUBSET Word) \ {{}}, read : BOOLEAN] :
        /\ blocks' = Append(blocks, entry)
        /\ entry.number = number
        /\ entry.read => entry.values = Shifted(raster[number])
  <2>1. CASE ReadBlock
    <3> DEFINE entry == [number |-> number, values |-> Shifted(raster[number]), read |-> TRUE]
    <3>1. Shifted(raster[number]) \in (SUBSET Word) \ {{}}
      BY <1>4, <1>5, ShiftedFacts
    <3>2. entry \in [number : DOMAIN raster, values : (SUBSET Word) \ {{}}, read : BOOLEAN]
      BY <1>4, <3>1
    <3>3. blocks' = Append(blocks, entry)
      BY <2>1 DEF ReadBlock, HandOn
    <3>4. entry.number = number /\ entry.values = Shifted(raster[number])
      OBVIOUS
    <3> HIDE DEF entry
    <3> QED
      BY <3>2, <3>3, <3>4
  <2>2. CASE ReadFailsUnnoticed
    <3> DEFINE entry == [number |-> number, values |-> Shifted({0}), read |-> FALSE]
    <3>1. Shifted({0}) \in (SUBSET Word) \ {{}}
      BY <1>5, ShiftedFacts, ZeroIsAWord
    <3>2. entry \in [number : DOMAIN raster, values : (SUBSET Word) \ {{}}, read : BOOLEAN]
      BY <1>4, <3>1
    <3>3. blocks' = Append(blocks, entry)
      BY <2>2 DEF ReadFailsUnnoticed, HandOn
    <3>4. entry.number = number /\ ~ entry.read
      OBVIOUS
    <3> HIDE DEF entry
    <3> QED
      BY <3>2, <3>3, <3>4
  <2> QED
    BY <2>1, <2>2
<1> HIDE DEF number
<1>7. blocks \in Seq([number : DOMAIN raster, values : (SUBSET Word) \ {{}}, read : BOOLEAN])
  BY DEF IInv, TypeOK
<1>8. /\ Len(blocks') = k + 1
      /\ \A j \in 1 .. k : blocks'[j] = blocks[j]
      /\ blocks'[k + 1] = entry
      /\ blocks' \in Seq([number : DOMAIN raster, values : (SUBSET Word) \ {{}}, read : BOOLEAN])
  BY <1>3, <1>6, <1>7
<1>9. TypeOK'
  BY <1>1, <1>8 DEF IInv, TypeOK
<1>10. HandingOn'
  <2>1. /\ \A n : Met(n)' <=> Met(n)
        /\ SamplingTraps' <=> SamplingTraps
        /\ Sampled' = Sampled
    BY <1>1 DEF Met, Sampled, SamplingTraps, TotalBlocks, BlocksInWidth, BlocksInHeight
  <2>2. \A j \in 1 .. input.count : Met(Sampled[j])'
    BY <1>1, <1>3, <2>1 DEF Met
  <2>3. \A j \in 1 .. k + 1 : blocks'[j].number = Sampled[j]
    <3> SUFFICES ASSUME NEW j \in 1 .. k + 1 PROVE blocks'[j].number = Sampled[j]
      OBVIOUS
    <3>1. j \in 1 .. k \/ j = k + 1
      BY <1>3
    <3> QED
      BY <1>3, <1>6, <1>8, <3>1 DEF number
  <2>4. k + 1 \in 0 .. input.count
    BY <1>1, <1>3
  <2> QED
    BY <1>1, <1>2, <1>8, <2>1, <2>2, <2>3, <2>4 DEF HandingOn
<1>11. ShiftedWhenTheRangeFits'
  <2> SUFFICES ASSUME NEW j \in 1 .. Len(blocks'), blocks'[j].read,
                      blocks'[j].number \notin missed
               PROVE  (\A v \in blocks'[j].values : v >= 0)
                        <=> (\A v \in raster[blocks'[j].number] :
                               minimum < 0 => v - minimum < Half)
    BY <1>1 DEF ShiftedWhenTheRangeFits
  <2>1. CASE j \in 1 .. k
    <3>1. blocks'[j] = blocks[j] /\ j \in 1 .. Len(blocks)
      BY <1>3, <1>8, <2>1
    <3> QED
      BY <3>1 DEF IInv, ShiftedWhenTheRangeFits
  <2>2. CASE j = k + 1
    <3>1. entry.read /\ entry.number = number /\ number \notin missed
          /\ entry.values = Shifted(raster[number])
      BY <1>6, <1>8, <2>2
    <3>2. \A v \in raster[number] : minimum <= v
      BY <1>4, <3>1 DEF Met
    <3>3. (\A w \in Shifted(raster[number]) : w >= 0)
            <=> (\A v \in raster[number] : minimum < 0 => v - minimum < Half)
      BY <1>4, <1>5, <3>2, ShiftedFacts
    <3> QED
      BY <1>8, <2>2, <3>1, <3>3
  <2> QED
    BY <1>3, <1>8, <2>1, <2>2
<1>12. Fixed' /\ Scanning' /\ k' \in Nat
  BY <1>1, <1>3 DEF Fixed, Scanning
<1> QED
  BY <1>9, <1>10, <1>11, <1>12 DEF IInv

\* The steps that end a pass or the program and hand nothing on.
LEMMA EndStep ==
  ASSUME IInv, Trap \/ ReadFails \/ EndBlocks \/ UNCHANGED vars
  PROVE  IInv'
<1>1. UNCHANGED <<input, raster, k, minimum, missed, blocks>>
  BY DEF Trap, ReadFails, EndBlocks, vars
<1>2. TypeOK' /\ Fixed' /\ k' \in Nat /\ ShiftedWhenTheRangeFits'
  <2>1. pc' \in {"minimum", "blocks", "done", "failed", "trapped"}
    BY DEF IInv, TypeOK, Trap, ReadFails, EndBlocks, vars
  <2> QED
    BY <1>1, <2>1 DEF IInv, TypeOK, Fixed, ShiftedWhenTheRangeFits
<1>3. /\ \A n : Met(n)' <=> Met(n)
      /\ SamplingTraps' <=> SamplingTraps
      /\ Sampled' = Sampled /\ Scanned' = Scanned
  BY <1>1 DEF Met, Scanned, Sampled, SamplingTraps, TotalBlocks, BlocksInWidth,
              BlocksInHeight
<1>4. CASE Trap \/ ReadFails
  BY <1>2, <1>4 DEF IInv, Trap, ReadFails, Scanning, HandingOn
<1>5. CASE EndBlocks
  <2>1. pc = "blocks" /\ pc' = "done" /\ ~ Traps /\ k = Len(Sampled) /\ input.side > 0
    BY <1>5 DEF IInv, EndBlocks, HandingOn
  <2>2. ~ SamplingTraps
    BY <2>1 DEF Traps
  <2>3. k = input.count
    BY <2>1, <2>2, SampledInRaster DEF IInv
  <2>4. \A j \in 1 .. input.count : Met(Sampled[j])'
    BY <1>1, <1>3, <2>1, <2>2 DEF IInv, HandingOn, Met
  <2>5. /\ k \in 0 .. input.count /\ Len(blocks) = k
        /\ \A j \in 1 .. k : blocks[j].number = Sampled[j]
    BY <2>1, <2>2 DEF IInv, HandingOn
  <2> QED
    BY <1>1, <1>2, <1>3, <2>1, <2>2, <2>3, <2>4, <2>5 DEF IInv, Scanning, HandingOn
<1>6. CASE UNCHANGED vars
  <2>1. pc' = pc /\ (Traps' <=> Traps)
    BY <1>1, <1>3, <1>6 DEF vars, Traps
  <2>2. Scanning'
    <3>1. pc = "minimum" /\ ~ Traps => \A j \in 1 .. k : Met(Scanned[j])'
      BY <1>1, <1>3 DEF IInv, Scanning, Met
    <3> QED
      BY <1>1, <1>3, <2>1, <3>1 DEF IInv, Scanning
  <2>3. HandingOn'
    <3>1. pc \in {"blocks", "done"} /\ ~ SamplingTraps =>
            \A j \in 1 .. input.count : Met(Sampled[j])'
      BY <1>1, <1>3 DEF IInv, HandingOn, Met
    <3> QED
      BY <1>1, <1>3, <2>1, <3>1 DEF IInv, HandingOn
  <2> QED
    BY <1>2, <2>2, <2>3 DEF IInv
<1> QED
  BY <1>4, <1>5, <1>6

\* Every step of the two passes preserves the inductive invariant.
LEMMA NextIInv == IInv /\ [Next]_vars => IInv'
<1> SUFFICES ASSUME IInv, [Next]_vars PROVE IInv'
  OBVIOUS
<1>1. CASE ScanBlock \/ ScanFails
  BY <1>1, ScanStep
<1>2. CASE EndScan
  BY <1>2, EndScanStep
<1>3. CASE ReadBlock \/ ReadFailsUnnoticed
  BY <1>3, HandOnStep
<1>4. CASE Trap \/ ReadFails \/ EndBlocks \/ UNCHANGED vars
  BY <1>4, EndStep
<1> QED
  BY <1>1, <1>2, <1>3, <1>4 DEF Next, Stopped

LEMMA InvariantHolds == Spec => []IInv
  BY InitIInv, NextIInv, PTL DEF Spec

(***************************************************************************)
(* Type correctness: the minimum and what is handed on are words, and only *)
(* blocks of the raster are ever read.                                     *)
(***************************************************************************)
THEOREM TypeCorrect == Spec => []TypeOK
<1>1. IInv => TypeOK
  BY DEF IInv
<1> QED
  BY <1>1, InvariantHolds, PTL

(***************************************************************************)
(* For every raster, in both programs: the values handed on of a block     *)
(* that both passes could read are not negative exactly when none is 2^31  *)
(* or more above the minimum.                                              *)
(***************************************************************************)
THEOREM ShiftSound == Spec => []ShiftedWhenTheRangeFits
<1>1. IInv => ShiftedWhenTheRangeFits
  BY DEF IInv
<1> QED
  BY <1>1, InvariantHolds, PTL

(***************************************************************************)
(* For every size of raster and block and every --numblocks, the sampled   *)
(* blocks lie in the raster, are as many as asked, and no block is sampled *)
(* more than once more than another.                                       *)
(***************************************************************************)
THEOREM SamplingSound == Spec => []SamplesWholeBlocksEvenly
<1>1. IInv => SamplesWholeBlocksEvenly
  <2> SUFFICES ASSUME IInv, pc = "done" PROVE
         /\ Len(blocks) = input.count
         /\ \A j \in 1 .. Len(blocks) :
              LET offset == BlockOffset(blocks[j].number, BlocksInWidth, input.side)
              IN  /\ offset.x + input.side <= input.width
                  /\ offset.y + input.side <= input.height
         /\ \A a, b \in DOMAIN raster : Visits(a) <= Visits(b) + 1
    BY DEF SamplesWholeBlocksEvenly
  <2>1. /\ Fixed /\ input.side > 0 /\ ~ SamplingTraps /\ Len(blocks) = input.count
        /\ \A j \in 1 .. input.count : blocks[j].number = Sampled[j]
    BY DEF IInv, HandingOn
  <2>2. /\ input.count \in Nat \ {0} /\ TotalBlocks \in Nat \ {0}
        /\ \A j \in 1 .. input.count : Sampled[j] \in DOMAIN raster
    BY <2>1, SampledInRaster
  <2>3. /\ DOMAIN raster = 0 .. TotalBlocks - 1
        /\ input.width \in Nat /\ input.height \in Nat /\ input.side \in Nat \ {0}
    BY <2>1, Layout
  <2>4. ASSUME NEW j \in 1 .. Len(blocks)
        PROVE  LET offset == BlockOffset(blocks[j].number, BlocksInWidth, input.side)
               IN  /\ offset.x + input.side <= input.width
                   /\ offset.y + input.side <= input.height
    <3>1. blocks[j].number \in 0 .. (input.width \div input.side)
                                      * (input.height \div input.side) - 1
      BY <2>1, <2>2, <2>3 DEF TotalBlocks, BlocksInWidth, BlocksInHeight
    <3> QED
      BY <2>3, <3>1, OffsetInside DEF BlocksInWidth
  <2>5. \A n : Visits(n) = Cardinality(SamplesOf(TotalBlocks, input.count, n))
    <3>1. ASSUME NEW n
          PROVE  {j \in 1 .. Len(blocks) : blocks[j].number = n}
                   = SamplesOf(TotalBlocks, input.count, n)
      BY <2>1 DEF SamplesOf, Sampled
    <3> QED
      BY <3>1 DEF Visits
  <2>6. \A a, b \in DOMAIN raster : Visits(a) <= Visits(b) + 1
    BY <2>2, <2>3, <2>5, SamplesEvenly
  <2> QED
    BY <2>1, <2>4, <2>6
<1> QED
  BY <1>1, InvariantHolds, PTL
=============================================================================

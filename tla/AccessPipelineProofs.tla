------------------------- MODULE AccessPipelineProofs -------------------------
(***************************************************************************)
(* AccessPipeline for every raster, combination, order of access, number   *)
(* of blocks and of repetitions, every word width and whatever a padded    *)
(* codec leaves in its slots.                                              *)
(***************************************************************************)
EXTENDS AccessPipeline, TLAPS, SequenceTheorems, FiniteSetTheorems,
        FunctionTheorems, WellFoundedInduction

(***************************************************************************)
(* Facts about the integers.                                               *)
(***************************************************************************)
LEMMA DivMod ==
  ASSUME NEW n \in Nat, NEW d \in Nat \ {0}
  PROVE  /\ n \div d \in Nat /\ n % d \in 0 .. d - 1
         /\ d * (n \div d) \in Nat
         /\ n = d * (n \div d) + (n % d)
OBVIOUS

LEMMA ProductAtMost ==
  ASSUME NEW x \in Nat, NEW y \in Nat, NEW z \in Nat, y <= z
  PROVE  x * y \in Nat /\ x * y <= x * z /\ y * x = x * y
OBVIOUS

\* A quotient is no greater than its dividend, and less than a factor that
\* makes a greater product.
LEMMA QuotientAtMost ==
  ASSUME NEW n \in Nat, NEW d \in Nat \ {0}
  PROVE  n \div d \in 0 .. n
<1> DEFINE q == n \div d
<1>1. q \in Nat /\ d * q \in Nat /\ d * q <= n
  BY DivMod
<1> HIDE DEF q
<1>2. q * 1 <= q * d /\ q * d = d * q
  BY <1>1, ProductAtMost
<1> QED
  BY <1>1, <1>2 DEF q

LEMMA QuotientBelow ==
  ASSUME NEW n \in Nat, NEW d \in Nat \ {0}, NEW m \in Nat, n < d * m
  PROVE  n \div d < m
<1> DEFINE q == n \div d
<1>1. q \in Nat /\ d * q \in Nat /\ d * q <= n
  BY DivMod
<1> HIDE DEF q
<1>2. ~ (m <= q)
  <2> SUFFICES ASSUME m <= q PROVE FALSE
    OBVIOUS
  <2>1. d * m <= d * q
    BY <1>1, ProductAtMost
  <2>2. d * m \in Nat
    OBVIOUS
  <2> QED
    BY <1>1, <2>1, <2>2
<1> QED
  BY <1>1, <1>2 DEF q

-------------------------------------------------------------------------------
(***************************************************************************)
(* Words.                                                                  *)
(***************************************************************************)
LEMMA SmallWords == /\ Half \in Nat /\ Half >= 2 /\ 0 \in Word /\ 1 \in Word
                    /\ Classes \in Nat /\ Classes >= 2 /\ Classes - 1 \in Word
                    /\ Word \subseteq Int
  BY HalfAssumption, ClassesAssumption DEF Word

LEMMA WrapIsAWord ==
  ASSUME NEW x \in -2 * Half .. 2 * Half
  PROVE  Wrap(x) \in -Half .. Half /\ (x < 2 * Half => Wrap(x) \in Word)
  BY HalfAssumption DEF Word, Wrap

LEMMA WrapOfTwo ==
  ASSUME NEW x \in Word, NEW y \in Word
  PROVE  Wrap(x + y) \in Word /\ Wrap(x - y) \in Word /\ Wrap(-x) \in Word
  BY HalfAssumption DEF Word, Wrap

LEMMA TruncDivFacts ==
  ASSUME NEW w \in Word, NEW d \in Int, d # 0
  PROVE  /\ TruncDiv(w, d) \in -Half .. Half
         /\ d > 0 => TruncDiv(w, d) \in Word
<1> DEFINE m == IF w < 0 THEN -w ELSE w
           e == IF d < 0 THEN -d ELSE d
           q == m \div e
<1>1. m \in 0 .. Half /\ e \in Nat \ {0} /\ (w >= 0 => m < Half)
  BY HalfAssumption DEF Word
<1>2. TruncDiv(w, d) = IF (w < 0) = (d < 0) THEN q ELSE -q
  BY DEF TruncDiv
<1> HIDE DEF e
<1>3. q \in 0 .. m
  BY <1>1, QuotientAtMost, SmallWords
<1> HIDE DEF q
<1>4. Half \in Nat /\ w \in Int
  BY SmallWords
<1>5. TruncDiv(w, d) \in -Half .. Half
  BY <1>1, <1>2, <1>3, <1>4
<1>6. ASSUME d > 0 PROVE TruncDiv(w, d) \in Word
  <2>1. CASE w < 0
    BY <1>1, <1>2, <1>3, <1>4, <1>6, <2>1 DEF Word
  <2>2. CASE ~ (w < 0)
    BY <1>1, <1>2, <1>3, <1>4, <1>6, <2>2 DEF Word
  <2> QED
    BY <2>1, <2>2
<1> QED
  BY <1>5, <1>6

\* A nonempty set of words has a minimum and a maximum.
LEMMA LeastWord ==
  ASSUME NEW S \in SUBSET Word, S # {}
  PROVE  Min(S) \in S /\ \A v \in S : Min(S) <= v
<1> DEFINE T == {v + Half : v \in S}
<1>1. T \in SUBSET Nat /\ T # {}
  <2>1. \A v \in S : v + Half \in Nat
    BY HalfAssumption DEF Word
  <2> QED
    BY <2>1
<1>2. PICK m \in T : \A n \in T : <<n, m>> \notin OpToRel(<, Nat)
  <2> HIDE DEF T
  <2> QED
    BY <1>1, WFMin, NatLessThanWellFounded
<1>3. m \in Nat /\ \A n \in T : n \in Nat /\ ~ (n < m)
  BY <1>1, <1>2 DEF OpToRel
<1>4. PICK x \in S : m = x + Half
  BY <1>2
<1>5. ASSUME NEW v \in S PROVE x <= v
  <2>1. v + Half \in T /\ v \in Int /\ x \in Int /\ Half \in Nat
    BY HalfAssumption DEF Word
  <2> HIDE DEF T
  <2>2. ~ (v + Half < x + Half)
    BY <1>3, <1>4, <2>1
  <2> QED
    BY <2>1, <2>2
<1> QED
  BY <1>5 DEF Min

LEMMA GreatestWord ==
  ASSUME NEW S \in SUBSET Word, S # {}
  PROVE  Max(S) \in S
<1> DEFINE T == {Half - v : v \in S}
<1>1. T \in SUBSET Nat /\ T # {}
  <2>1. \A v \in S : Half - v \in Nat
    BY HalfAssumption DEF Word
  <2> QED
    BY <2>1
<1>2. PICK m \in T : \A n \in T : <<n, m>> \notin OpToRel(<, Nat)
  <2> HIDE DEF T
  <2> QED
    BY <1>1, WFMin, NatLessThanWellFounded
<1>3. m \in Nat /\ \A n \in T : n \in Nat /\ ~ (n < m)
  BY <1>1, <1>2 DEF OpToRel
<1>4. PICK x \in S : m = Half - x
  BY <1>2
<1>5. ASSUME NEW v \in S PROVE x >= v
  <2>1. Half - v \in T /\ v \in Int /\ x \in Int /\ Half \in Nat
    BY HalfAssumption DEF Word
  <2> HIDE DEF T
  <2>2. ~ (Half - v < Half - x)
    BY <1>3, <1>4, <2>1
  <2> QED
    BY <2>1, <2>2
<1> QED
  BY <1>5 DEF Max

-------------------------------------------------------------------------------
(***************************************************************************)
(* The transformations of vectors of n words.                              *)
(***************************************************************************)
Vectors(n) == [1 .. n -> Word]

LEMMA VectorFacts ==
  ASSUME NEW n \in Nat, NEW data \in Vectors(n)
  PROVE  /\ data \in Seq(Word) /\ Len(data) = n /\ DOMAIN data = 1 .. n
         /\ \A p \in 1 .. n : data[p] \in Word
         /\ ToSet(data) \in SUBSET Word
         /\ n # 0 => ToSet(data) # {}
<1>1. \A p \in 1 .. n : data[p] \in Word
  BY DEF Vectors
<1>2. data \in Seq(Word) /\ Len(data) = n /\ DOMAIN data = 1 .. n
  BY DEF Vectors
<1> QED
  BY <1>1, <1>2 DEF ToSet

LEMMA SameVector ==
  ASSUME NEW n, NEW s \in Vectors(n), NEW t \in Vectors(n), \A p \in 1 .. n : s[p] = t[p]
  PROVE  s = t
<1>1. s = [p \in 1 .. n |-> s[p]] /\ t = [p \in 1 .. n |-> t[p]]
  BY DEF Vectors
<1> QED
  BY <1>1, Zenon

LEMMA ThresholdType ==
  ASSUME NEW n \in Nat, NEW data \in Vectors(n)
  PROVE  Threshold(data) \in Vectors(n)
  BY VectorFacts, SmallWords DEF Threshold, Vectors

LEMMA SmoothedType ==
  ASSUME NEW n \in Nat, n >= 2, NEW data \in Vectors(n)
  PROVE  Smoothed(data) \in Vectors(n)
<1>1. \A x, y \in Word : Wrap(x + y) \in Word
  BY WrapOfTwo
<1>2. \A w \in Word : TruncDiv(w, 2) \in Word /\ TruncDiv(w, 3) \in Word
  BY TruncDivFacts
<1>3. Len(data) = n /\ \A p \in 1 .. n : data[p] \in Word
  BY VectorFacts
<1> DEFINE at(p) == IF p = 1 THEN TruncDiv(Wrap(data[1] + data[2]), 2)
                    ELSE IF p = n THEN TruncDiv(Wrap(data[n - 1] + data[n]), 2)
                    ELSE TruncDiv(Wrap(Wrap(data[p - 1] + data[p]) + data[p + 1]), 3)
<1>4. Smoothed(data) = [p \in 1 .. n |-> at(p)]
  BY <1>3 DEF Smoothed
<1>5. ASSUME NEW p \in 1 .. n PROVE at(p) \in Word
  <2>1. CASE p = 1
    BY <1>1, <1>2, <1>3, <2>1
  <2>2. CASE p # 1 /\ p = n
    BY <1>1, <1>2, <1>3, <2>2
  <2>3. CASE p # 1 /\ p # n
    <3>1. p - 1 \in 1 .. n /\ p + 1 \in 1 .. n
      BY <2>3
    <3>2. Wrap(Wrap(data[p - 1] + data[p]) + data[p + 1]) \in Word
      BY <1>1, <1>3, <3>1
    <3> QED
      BY <1>2, <2>3, <3>2
  <2> QED
    BY <2>1, <2>2, <2>3
<1> HIDE DEF at
<1> QED
  BY <1>4, <1>5 DEF Vectors

LEMMA SmoothAndShiftType ==
  ASSUME NEW n \in Nat, NEW data \in Vectors(n)
  PROVE  SmoothAndShift(data) \in Vectors(n)
<1>1. Len(data) = n
  BY VectorFacts
<1>2. CASE n < 2
  BY <1>1, <1>2 DEF SmoothAndShift
<1>3. CASE n >= 2
  <2> DEFINE smoothed == Smoothed(data)
             least    == Min(ToSet(smoothed))
  <2>1. smoothed \in Vectors(n)
    BY <1>3, SmoothedType
  <2>2. SmoothAndShift(data)
          = [p \in 1 .. n |-> IF least < 0 THEN Wrap(smoothed[p] + Wrap(-least))
                              ELSE smoothed[p]]
    BY <1>1, <1>3 DEF SmoothAndShift
  <2> HIDE DEF smoothed
  <2>3. least \in Word
    BY <1>3, <2>1, VectorFacts, LeastWord
  <2> HIDE DEF least
  <2>4. \A p \in 1 .. n : smoothed[p] \in Word /\ Wrap(smoothed[p] + Wrap(-least)) \in Word
    BY <2>1, <2>3, VectorFacts, WrapOfTwo
  <2> QED
    BY <2>2, <2>4 DEF Vectors
<1> QED
  BY <1>2, <1>3

\* The classes a classification gives, whatever the vector.
ClassesOf(n) == [1 .. n -> 0 .. Classes - 1]

LEMMA ByIndexClasses ==
  ASSUME NEW n \in Nat, NEW data \in Vectors(n)
  PROVE  IndexBasedClassification(data) \in ClassesOf(n)
<1> DEFINE per == ItemsPerClass(n)
<1>1. IndexBasedClassification(data)
        = [p \in 1 .. n |-> IF p > per * Classes THEN Classes - 1 ELSE (p - 1) \div per]
  BY VectorFacts DEF IndexBasedClassification
<1>2. per \in Nat
  <2>1. Classes \in Nat \ {0}
    BY SmallWords
  <2> QED
    BY <2>1, DivMod DEF ItemsPerClass
<1> HIDE DEF per
<1>4. ASSUME NEW p \in 1 .. n, ~ (p > per * Classes)
      PROVE (p - 1) \div per \in 0 .. Classes - 1
  <2>0. per # 0
    <3>1. 0 * Classes = 0
      BY SmallWords
    <3> QED
      BY <1>4, <3>1
  <2>1. p - 1 \in Nat /\ per \in Nat \ {0} /\ per * Classes \in Nat
    BY <1>2, <2>0, SmallWords
  <2>2. (p - 1) \div per < Classes
    BY <1>4, <2>1, SmallWords, QuotientBelow
  <2>3. (p - 1) \div per \in Nat
    BY <2>1, DivMod
  <2> QED
    BY <2>2, <2>3, SmallWords
<1>5. Classes - 1 \in 0 .. Classes - 1
  BY SmallWords
<1> QED
  BY <1>1, <1>4, <1>5 DEF ClassesOf

LEMMA ByValueType ==
  ASSUME NEW n \in Nat, NEW data \in Vectors(n)
  PROVE  ValueBasedClassification(data) \in Vectors(n)
<1> DEFINE least == Min(ToSet(data))
           range == Wrap(Max(ToSet(data)) - least)
           binSize == TruncDiv(range, Classes - 1)
           class(p) == TruncDiv(Wrap(data[p] - least), binSize)
           at(p) == IF binSize = 0 THEN 0
                    ELSE IF class(p) < Classes - 1 THEN class(p) ELSE Classes - 1
<1>1. ValueBasedClassification(data) = [p \in 1 .. n |-> at(p)]
  BY VectorFacts DEF ValueBasedClassification, BinSize, Least
<1>2. ASSUME NEW p \in 1 .. n PROVE at(p) \in Word
  <2>1. ToSet(data) \in SUBSET Word /\ ToSet(data) # {} /\ data[p] \in Word
    BY VectorFacts
  <2>2. least \in Word /\ Max(ToSet(data)) \in Word
    BY <2>1, LeastWord, GreatestWord
  <2>3. range \in Word /\ Wrap(data[p] - least) \in Word
    BY <2>1, <2>2, WrapOfTwo
  <2> HIDE DEF least, range
  <2>4. binSize \in Word
    BY <2>3, TruncDivFacts, SmallWords
  <2> HIDE DEF binSize
  <2>5. CASE binSize = 0
    BY <2>5, SmallWords
  <2>6. CASE binSize # 0
    <3>1. class(p) \in -Half .. Half
      BY <2>3, <2>4, <2>6, TruncDivFacts, SmallWords
    <3> HIDE DEF class
    <3> QED
      BY <2>6, <3>1, ClassesAssumption, HalfAssumption DEF Word
  <2> QED
    BY <2>5, <2>6
<1> HIDE DEF at
<1> QED
  BY <1>1, <1>2 DEF Vectors

LEMMA ValueShiftType ==
  ASSUME NEW n \in Nat, NEW data \in Vectors(n)
  PROVE  ValueShift(data) \in Vectors(n)
  BY VectorFacts, ShiftAssumption, WrapOfTwo DEF ValueShift, Vectors

LEMMA TransformedType ==
  ASSUME NEW n \in Nat, NEW data \in Vectors(n), NEW t \in Mutating \cup {"none"}
  PROVE  Transformed(t, data) \in Vectors(n)
<1>1. \A f \in ClassesOf(n) : f \in Vectors(n)
  BY ClassesAssumption, HalfAssumption DEF ClassesOf, Vectors, Word
<1>2. IndexBasedClassification(data) \in Vectors(n)
  BY <1>1, ByIndexClasses
<1> QED
  BY <1>2, ThresholdType, SmoothAndShiftType, ByValueType, ValueShiftType
     DEF Transformed, Mutating

(***************************************************************************)
(* The vectors that trap have fewer values than classes, or values that    *)
(* span half the word.                                                     *)
(***************************************************************************)
LEMMA FewerThanClasses ==
  ASSUME NEW n \in Nat
  PROVE  ItemsPerClass(n) = 0 <=> n < Classes
<1>1. Classes \in Nat \ {0}
  BY SmallWords
<1>2. n < Classes => n \div Classes = 0
  <2> SUFFICES ASSUME n < Classes PROVE n \div Classes = 0
    OBVIOUS
  <2>1. n < Classes * 1
    BY <1>1
  <2>2. n \div Classes < 1 /\ n \div Classes \in Nat
    BY <1>1, <2>1, QuotientBelow, DivMod
  <2> QED
    BY <2>2
<1>3. n \div Classes = 0 => n < Classes
  <2>1. n = Classes * (n \div Classes) + (n % Classes) /\ n % Classes \in 0 .. Classes - 1
    BY <1>1, DivMod
  <2>2. Classes * 0 = 0
    BY <1>1
  <2> QED
    BY <1>1, <2>1, <2>2
<1> QED
  BY <1>2, <1>3 DEF ItemsPerClass

Within(values) == \A v, w \in values : v - w < Half

\* The bin size of such values, and their distance to the least.
LEMMA WithinFacts ==
  ASSUME NEW n \in Nat \ {0}, NEW data \in Vectors(n), Within(ToSet(data))
  PROVE  /\ BinSize(data) \in Nat
         /\ \A v \in ToSet(data) : Wrap(v - Least(data)) \in Nat
<1> DEFINE values == ToSet(data)
<1>1. values \in SUBSET Word /\ values # {}
  BY VectorFacts
<1>2. Within(values)
  OBVIOUS
<1> HIDE DEF values
<1>3. /\ Min(values) \in values /\ Max(values) \in values
      /\ \A v \in values : Min(values) <= v
  BY <1>1, LeastWord, GreatestWord
<1>4. ASSUME NEW v \in values PROVE Wrap(v - Min(values)) \in 0 .. Half - 1
  <2>1. v \in Word /\ Min(values) \in Word /\ Min(values) <= v /\ v - Min(values) < Half
    BY <1>1, <1>2, <1>3 DEF Within
  <2> QED
    BY <2>1, HalfAssumption DEF Word, Wrap
<1>5. TruncDiv(Wrap(Max(values) - Min(values)), Classes - 1) \in Nat
  <2> DEFINE range == Wrap(Max(values) - Min(values))
  <2>1. range \in Nat
    BY <1>3, <1>4
  <2> HIDE DEF range
  <2>2. TruncDiv(range, Classes - 1) = range \div (Classes - 1)
    BY <2>1, SmallWords DEF TruncDiv
  <2>3. Classes - 1 \in Nat \ {0}
    BY SmallWords
  <2>4. range \div (Classes - 1) \in Nat
    BY <2>1, <2>3, DivMod
  <2> QED
    BY <2>2, <2>4 DEF range
<1>6. BinSize(data) = TruncDiv(Wrap(Max(values) - Min(values)), Classes - 1)
      /\ Least(data) = Min(values)
  BY DEF BinSize, Least, values
<1> QED
  BY <1>4, <1>5, <1>6 DEF values

LEMMA TrapsMean ==
  ASSUME NEW n \in Nat \ {0}, NEW data \in Vectors(n), NEW t, Traps(t, data)
  PROVE  \/ ByIndex(t) /\ n < Classes
         \/ ByValue(t) /\ ~ Within(ToSet(data))
<1>1. Len(data) = n
  BY VectorFacts
<1>2. ASSUME t = "IndexBasedClassification", ItemsPerClass(Len(data)) = 0
      PROVE ByIndex(t) /\ n < Classes
  BY <1>1, <1>2, FewerThanClasses DEF ByIndex
<1>3. ASSUME t = "ValueBasedClassification", BinSize(data) = -1
      PROVE ByValue(t) /\ ~ Within(ToSet(data))
  <2>1. ~ (-1 \in Nat)
    OBVIOUS
  <2> QED
    BY <1>3, <2>1, WithinFacts DEF ByValue
<1> QED
  BY <1>2, <1>3 DEF Traps

\* A classification by index that went through had a value for every class.
LEMMA EnoughForClasses ==
  ASSUME NEW n \in Nat \ {0}, NEW data \in Vectors(n), NEW t, ~ Traps(t, data)
  PROVE  ByIndex(t) => Classes <= n
<1>1. Len(data) = n /\ data # <<>>
  BY VectorFacts
<1>2. ItemsPerClass(n) # 0 => Classes <= n
  BY FewerThanClasses, SmallWords
<1> QED
  BY <1>1, <1>2 DEF Traps, ByIndex

(***************************************************************************)
(* The transformations that do not wrap keep the values within half the    *)
(* word.                                                                   *)
(***************************************************************************)
Wrapping == {"SmoothAndShift", "ValueShift"}

LEMMA ClassesWithin ==
  ASSUME NEW n \in Nat, NEW f \in ClassesOf(n)
  PROVE  Within(ToSet(f))
<1>1. \A v \in ToSet(f) : v \in 0 .. Classes - 1
  BY DEF ToSet, ClassesOf
<1> HIDE DEF ToSet
<1>2. Half \in Nat /\ Classes \in Nat /\ Classes <= Half
  BY HalfAssumption, ClassesAssumption
<1>3. \A v, w \in 0 .. Classes - 1 : v - w < Half
  BY <1>2
<1> QED
  BY <1>1, <1>3 DEF Within

LEMMA ByValueClasses ==
  ASSUME NEW n \in Nat \ {0}, NEW data \in Vectors(n), Within(ToSet(data))
  PROVE  ValueBasedClassification(data) \in ClassesOf(n)
<1> DEFINE bin == BinSize(data)
           distance(p) == Wrap(data[p] - Least(data))
           at(p) == IF bin = 0 THEN 0
                    ELSE IF TruncDiv(distance(p), bin) < Classes - 1
                         THEN TruncDiv(distance(p), bin) ELSE Classes - 1
<1>1. ValueBasedClassification(data) = [p \in 1 .. n |-> at(p)]
  BY VectorFacts DEF ValueBasedClassification
<1>2. ASSUME NEW p \in 1 .. n PROVE at(p) \in 0 .. Classes - 1
  <2>1. bin \in Nat /\ distance(p) \in Nat
    <3>1. data[p] \in ToSet(data)
      BY VectorFacts DEF ToSet
    <3> QED
      BY <3>1, WithinFacts
  <2>2. Classes \in Nat /\ Classes >= 2
    BY SmallWords
  <2> HIDE DEF bin, distance
  <2>3. CASE bin = 0
    BY <2>2, <2>3
  <2>4. CASE bin # 0
    <3>1. TruncDiv(distance(p), bin) = distance(p) \div bin
      BY <2>1 DEF TruncDiv
    <3>2. distance(p) \div bin \in Nat
      BY <2>1, <2>4, DivMod
    <3> HIDE DEF at
    <3> DEFINE class == TruncDiv(distance(p), bin)
    <3>3. class \in Nat
      BY <3>1, <3>2
    <3>4. at(p) = IF class < Classes - 1 THEN class ELSE Classes - 1
      BY <2>4 DEF at
    <3> HIDE DEF class
    <3> QED
      BY <2>2, <3>3, <3>4
  <2> QED
    BY <2>3, <2>4
<1> HIDE DEF at
<1> QED
  BY <1>1, <1>2 DEF ClassesOf

LEMMA TransformedWithin ==
  ASSUME NEW n \in Nat \ {0}, NEW data \in Vectors(n), Within(ToSet(data)),
         NEW t \in (Mutating \cup {"none"}) \ Wrapping
  PROVE  Within(ToSet(Transformed(t, data)))
<1>1. CASE t = "none"
  BY <1>1 DEF Transformed
<1>2. CASE t = "Threshold"
  <2>1. Threshold(data) \in ClassesOf(n)
    BY VectorFacts, SmallWords DEF Threshold, ClassesOf
  <2>2. Transformed(t, data) = Threshold(data)
    BY <1>2 DEF Transformed
  <2> QED
    BY <2>1, <2>2, ClassesWithin
<1>3. CASE t = "IndexBasedClassification"
  <2>1. Transformed(t, data) = IndexBasedClassification(data)
    BY <1>3 DEF Transformed
  <2> QED
    BY <2>1, ByIndexClasses, ClassesWithin
<1>4. CASE t = "ValueBasedClassification"
  <2>1. Transformed(t, data) = ValueBasedClassification(data)
    BY <1>4 DEF Transformed
  <2> QED
    BY <2>1, ByValueClasses, ClassesWithin
<1> QED
  BY <1>1, <1>2, <1>3, <1>4 DEF Mutating, Wrapping

-------------------------------------------------------------------------------
(***************************************************************************)
(* The orderings of a block of side n.                                     *)
(***************************************************************************)
LEMMA PositionInBlock ==
  ASSUME NEW n \in Nat, NEW x \in 0 .. n - 1, NEW y \in 0 .. n - 1
  PROVE  x + y * n + 1 \in 1 .. n * n /\ y * n + x + 1 \in 1 .. n * n
<1>1. y \in Nat /\ y + 1 \in Nat /\ y + 1 <= n
  OBVIOUS
<1>2. n * (y + 1) <= n * n
  BY <1>1, ProductAtMost
<1>3. n * (y + 1) = y * n + n /\ y * n \in Nat /\ n * n \in Nat
  BY <1>1
<1> QED
  BY <1>2, <1>3

LEMMA ZigzagValues ==
  ASSUME NEW n \in Nat, NEW S, NEW data \in [1 .. n * n -> S]
  PROVE  RemapToZigzagOrder(data, n) \in [1 .. n * n -> S]
<1> DEFINE row(d) == (d - 1) \div n
           col(d) == (d - 1) % n
           at(d) == (IF row(d) % 2 = 0 THEN col(d) ELSE n - 1 - col(d)) + row(d) * n + 1
<1>1. RemapToZigzagOrder(data, n) = [d \in 1 .. n * n |-> data[at(d)]]
  BY DEF RemapToZigzagOrder
<1>2. ASSUME NEW d \in 1 .. n * n PROVE at(d) \in 1 .. n * n
  <2>1. n \in Nat \ {0}
    <3>1. n = 0 => n * n = 0
      OBVIOUS
    <3> QED
      BY <3>1
  <2>2. d - 1 \in Nat /\ n * n \in Nat /\ d - 1 < n * n
    OBVIOUS
  <2>3. row(d) \in 0 .. n - 1
    <3>1. (d - 1) \div n \in Nat
      BY <2>1, <2>2, DivMod
    <3>2. (d - 1) \div n < n
      BY <2>1, <2>2, QuotientBelow
    <3> QED
      BY <2>1, <3>1, <3>2
  <2>4. col(d) \in 0 .. n - 1
    BY <2>1, <2>2, DivMod
  <2>5. n - 1 - col(d) \in 0 .. n - 1
    BY <2>4
  <2> HIDE DEF row, col
  <2>6. CASE row(d) % 2 = 0
    BY <2>3, <2>4, <2>6, PositionInBlock
  <2>7. CASE row(d) % 2 # 0
    BY <2>3, <2>5, <2>7, PositionInBlock
  <2> QED
    BY <2>6, <2>7
<1> HIDE DEF at
<1>3. \A d \in 1 .. n * n : data[at(d)] \in S
  BY <1>2
<1> QED
  BY <1>1, <1>3

LEMMA MortonValues ==
  ASSUME NEW n \in Nat, NEW S, 0 \in S, NEW data \in [1 .. n * n -> S]
  PROVE  RemapToMortonOrder(data, n) \in [1 .. n * n -> S]
<1> DEFINE spread == Spread(n)
           Sources(d) == {s \in (0 .. n - 1) \X (0 .. n - 1) :
                            MortonCode(spread, s[1], s[2]) = d - 1}
           one(d) == CHOOSE s \in Sources(d) : TRUE
           at(d) == IF Sources(d) = {} THEN 0
                    ELSE data[one(d)[2] * n + one(d)[1] + 1]
<1>1. RemapToMortonOrder(data, n) = [d \in 1 .. n * n |-> at(d)]
  BY DEF RemapToMortonOrder
<1>2. ASSUME NEW d \in 1 .. n * n PROVE at(d) \in S
  <2>1. CASE Sources(d) = {}
    BY <2>1
  <2>2. CASE Sources(d) # {}
    <3>1. one(d) \in Sources(d)
      BY <2>2
    <3>2. one(d) \in (0 .. n - 1) \X (0 .. n - 1)
      BY <3>1
    <3> HIDE DEF one, Sources
    <3>3. one(d)[1] \in 0 .. n - 1 /\ one(d)[2] \in 0 .. n - 1
      BY <3>2
    <3>4. one(d)[2] * n + one(d)[1] + 1 \in 1 .. n * n
      BY <3>3, PositionInBlock
    <3> QED
      BY <2>2, <3>4
  <2> QED
    BY <2>1, <2>2
<1> HIDE DEF at
<1> QED
  BY <1>1, <1>2

\* An ordered block has values of the block, and zeros.
LEMMA OrderedValues ==
  ASSUME NEW n \in Nat, NEW S, 0 \in S, NEW data \in [1 .. n * n -> S], NEW o \in Orderings
  PROVE  ApplyOrdering(data, o, n) \in [1 .. n * n -> S]
  BY ZigzagValues, MortonValues DEF ApplyOrdering, Orderings

LEMMA OrderedType ==
  ASSUME NEW n \in Nat, NEW data \in Vectors(n * n), NEW o \in Orderings
  PROVE  ApplyOrdering(data, o, n) \in Vectors(n * n)
  BY OrderedValues, SmallWords DEF Vectors

-------------------------------------------------------------------------------
(***************************************************************************)
(* Loops.  A set that holds 0 and, with a number, the next one holds them  *)
(* all: else there would be a least one it lacks.                          *)
(***************************************************************************)
LEMMA LeastElement ==
  ASSUME NEW S \in SUBSET Nat, S # {}
  PROVE  \E m \in S : \A k \in S : m <= k
<1>1. PICK m \in S : \A k \in S : <<k, m>> \notin OpToRel(<, Nat)
  BY WFMin, NatLessThanWellFounded
<1>2. \A k \in S : ~ (k < m)
  BY <1>1 DEF OpToRel
<1> QED
  BY <1>2

LEMMA HoldsThroughout ==
  ASSUME NEW n \in Nat, NEW S, 0 \in S, \A k \in 1 .. n : k - 1 \in S => k \in S
  PROVE  \A k \in 0 .. n : k \in S
<1> DEFINE left == {k \in 0 .. n : k \notin S}
<1> SUFFICES ASSUME left # {} PROVE FALSE
  OBVIOUS
<1>1. left \in SUBSET Nat
  OBVIOUS
<1>2. PICK m \in left : \A k \in left : m <= k
  <2> HIDE DEF left
  <2> QED
    BY <1>1, LeastElement
<1>3. m \in 0 .. n /\ m \notin S /\ m # 0
  OBVIOUS
<1>4. m - 1 \in left
  BY <1>3
<1> QED
  BY <1>2, <1>3, <1>4

(***************************************************************************)
(* What a loop computes exists: a solution for the first k rounds extends  *)
(* to one for k + 1.                                                       *)
(***************************************************************************)
Computes(f, n, D, first, step) ==
  /\ f \in [0 .. n -> D]
  /\ f[0] = first
  /\ \A k \in 1 .. n : f[k] = step[k][f[k - 1]]

LEMMA LoopComputes ==
  ASSUME NEW n \in Nat, NEW D, NEW first \in D, NEW step \in [1 .. n -> [D -> D]]
  PROVE  \E f : Computes(f, n, D, first, step)
<1> DEFINE Solves(f, m) == Computes(f, m, D, first, step)
           solved == {m \in 0 .. n : \E f : Solves(f, m)}
<1> USE DEF Computes
<1>1. 0 \in solved
  <2>1. Solves([k \in 0 .. 0 |-> first], 0)
    OBVIOUS
  <2> HIDE DEF Solves
  <2> QED
    BY <2>1
<1>2. ASSUME NEW m \in 1 .. n, m - 1 \in solved PROVE m \in solved
  <2>1. PICK f : Solves(f, m - 1)
    BY <1>2
  <2> DEFINE g == [k \in 0 .. m |-> IF k = m THEN step[m][f[m - 1]] ELSE f[k]]
  <2>2. f[m - 1] \in D /\ step[m][f[m - 1]] \in D
    BY <2>1
  <2>3. g \in [0 .. m -> D] /\ g[0] = first
    BY <2>1, <2>2
  <2>4. ASSUME NEW k \in 1 .. m PROVE g[k] = step[k][g[k - 1]]
    <3>1. g[k - 1] = f[k - 1]
      OBVIOUS
    <3>2. CASE k = m
      BY <3>1, <3>2
    <3>3. CASE k # m
      <4>1. k \in 1 .. m - 1 /\ g[k] = f[k]
        BY <3>3
      <4> QED
        BY <2>1, <3>1, <4>1
    <3> QED
      BY <3>2, <3>3
  <2>5. Solves(g, m)
    BY <2>3, <2>4
  <2> HIDE DEF Solves, g
  <2> QED
    BY <2>5
<1>3. n \in solved
  <2> HIDE DEF solved
  <2>1. \A k \in 1 .. n : k - 1 \in solved => k \in solved
    BY <1>2
  <2>2. \A k \in 0 .. n : k \in solved
    BY <1>1, <2>1, HoldsThroughout
  <2> QED
    BY <2>2
<1> QED
  BY <1>3

-------------------------------------------------------------------------------
(***************************************************************************)
(* Sums: f[k] is the sum of the first k values, exactly or wrapped.        *)
(***************************************************************************)
Sums(f, data, n) == /\ f \in [0 .. n -> Int]
                    /\ f[0] = 0
                    /\ \A k \in 1 .. n : f[k] = f[k - 1] + data[k]

WrapSums(f, data, n) == /\ f \in [0 .. n -> Word]
                        /\ f[0] = 0
                        /\ \A k \in 1 .. n : f[k] = Wrap(f[k - 1] + data[k])

LEMMA SumIs ==
  ASSUME NEW n \in Nat, NEW data \in [1 .. n -> Int]
  PROVE  \E f : Sums(f, data, n) /\ SumOf(data) = f[n]
<1> DEFINE D == Int
           first == 0
           step == [k \in 1 .. n |-> [x \in D |-> x + data[k]]]
<1>1. first \in D /\ step \in [1 .. n -> [D -> D]]
  OBVIOUS
<1>2. \A k \in 1 .. n : \A x \in D : step[k][x] = x + data[k]
  OBVIOUS
<1> HIDE DEF step, D, first
<1>3. PICK f : Computes(f, n, D, first, step)
  BY <1>1, LoopComputes
<1>4. Sums(f, data, n)
  <2>1. f \in [0 .. n -> D] /\ f[0] = first /\ \A k \in 1 .. n : f[k] = step[k][f[k - 1]]
    BY <1>3 DEF Computes
  <2>2. \A k \in 1 .. n : f[k - 1] \in D
    BY <2>1
  <2> QED
    BY <1>2, <2>1, <2>2 DEF Sums, D, first
<1> DEFINE Round(g) == [k \in 0 .. n |-> IF k = 0 THEN 0 ELSE g[k - 1] + data[k]]
           sum == CHOOSE g : g = Round(g)
<1>5. SumOf(data) = sum[n]
  <2>1. Len(data) = n
    OBVIOUS
  <2> QED
    BY <2>1 DEF SumOf
<1>6. f = Round(f)
  <2>1. f = [k \in 0 .. n |-> f[k]]
    BY <1>4 DEF Sums
  <2>2. \A k \in 0 .. n : f[k] = IF k = 0 THEN 0 ELSE f[k - 1] + data[k]
    BY <1>4 DEF Sums
  <2> QED
    BY <2>1, <2>2, Zenon
<1>7. sum = Round(sum)
  BY <1>6
<1> HIDE DEF sum
<1>8. \A k \in 0 .. n : sum[k] = IF k = 0 THEN 0 ELSE sum[k - 1] + data[k]
  <2>1. \A k \in 0 .. n : sum[k] = Round(sum)[k]
    BY <1>7
  <2> QED
    BY <2>1
<1> HIDE DEF Round
<1>9. sum[n] = f[n]
  <2> DEFINE agree == {k \in 0 .. n : sum[k] = f[k]}
  <2>1. 0 \in agree
    BY <1>4, <1>8 DEF Sums
  <2>2. ASSUME NEW k \in 1 .. n, k - 1 \in agree PROVE k \in agree
    <3>1. k \in 0 .. n /\ k # 0 /\ sum[k - 1] = f[k - 1]
      BY <2>2
    <3>2. sum[k] = sum[k - 1] + data[k] /\ f[k] = f[k - 1] + data[k]
      BY <1>4, <1>8, <3>1 DEF Sums
    <3> QED
      BY <3>1, <3>2
  <2> HIDE DEF agree
  <2>3. \A k \in 0 .. n : k \in agree
    BY <2>1, <2>2, HoldsThroughout
  <2> QED
    BY <2>3 DEF agree
<1> QED
  BY <1>4, <1>5, <1>9

LEMMA WrapSumIs ==
  ASSUME NEW n \in Nat, NEW data \in Vectors(n)
  PROVE  \E f : WrapSums(f, data, n) /\ WrapSum(data) = f[n]
<1> DEFINE D == Word
           first == 0
           step == [k \in 1 .. n |-> [x \in D |-> Wrap(x + data[k])]]
<1>1. first \in D /\ step \in [1 .. n -> [D -> D]]
  BY SmallWords, WrapOfTwo, VectorFacts
<1>2. \A k \in 1 .. n : \A x \in D : step[k][x] = Wrap(x + data[k])
  OBVIOUS
<1> HIDE DEF step, D, first
<1>3. PICK f : Computes(f, n, D, first, step)
  BY <1>1, LoopComputes
<1>4. WrapSums(f, data, n)
  <2>1. f \in [0 .. n -> D] /\ f[0] = first /\ \A k \in 1 .. n : f[k] = step[k][f[k - 1]]
    BY <1>3 DEF Computes
  <2>2. \A k \in 1 .. n : f[k - 1] \in D
    BY <2>1
  <2> QED
    BY <1>2, <2>1, <2>2 DEF WrapSums, D, first
<1> DEFINE Round(g) == [k \in 0 .. n |-> IF k = 0 THEN 0 ELSE Wrap(g[k - 1] + data[k])]
           sum == CHOOSE g : g = Round(g)
<1>5. WrapSum(data) = sum[n]
  BY VectorFacts DEF WrapSum
<1>6. f = Round(f)
  <2>1. f = [k \in 0 .. n |-> f[k]]
    BY <1>4 DEF WrapSums
  <2>2. \A k \in 0 .. n : f[k] = IF k = 0 THEN 0 ELSE Wrap(f[k - 1] + data[k])
    BY <1>4 DEF WrapSums
  <2> QED
    BY <2>1, <2>2, Zenon
<1>7. sum = Round(sum)
  BY <1>6
<1> HIDE DEF sum
<1>8. \A k \in 0 .. n : sum[k] = IF k = 0 THEN 0 ELSE Wrap(sum[k - 1] + data[k])
  <2>1. \A k \in 0 .. n : sum[k] = Round(sum)[k]
    BY <1>7
  <2> QED
    BY <2>1
<1> HIDE DEF Round
<1>9. sum[n] = f[n]
  <2> DEFINE agree == {k \in 0 .. n : sum[k] = f[k]}
  <2>1. 0 \in agree
    BY <1>4, <1>8 DEF WrapSums
  <2>2. ASSUME NEW k \in 1 .. n, k - 1 \in agree PROVE k \in agree
    <3>1. k \in 0 .. n /\ k # 0 /\ sum[k - 1] = f[k - 1]
      BY <2>2
    <3>2. sum[k] = Wrap(sum[k - 1] + data[k]) /\ f[k] = Wrap(f[k - 1] + data[k])
      BY <1>4, <1>8, <3>1 DEF WrapSums
    <3> QED
      BY <3>1, <3>2
  <2> HIDE DEF agree
  <2>3. \A k \in 0 .. n : k \in agree
    BY <2>1, <2>2, HoldsThroughout
  <2> QED
    BY <2>3 DEF agree
<1> QED
  BY <1>4, <1>5, <1>9

(***************************************************************************)
(* Congruence modulo the word.                                             *)
(***************************************************************************)
Multiples == {k * (2 * Half) : k \in Int}

LEMMA MultiplesFacts ==
  /\ Multiples \subseteq Int
  /\ 0 \in Multiples /\ 2 * Half \in Multiples /\ -(2 * Half) \in Multiples
  /\ \A x, y \in Multiples : x + y \in Multiples /\ x - y \in Multiples
  /\ \A x \in Multiples : x % (2 * Half) = 0
<1> DEFINE m == 2 * Half
<1>1. m \in Nat \ {0}
  BY HalfAssumption
<1> HIDE DEF m
<1>2. Multiples = {k * m : k \in Int}
  BY DEF Multiples, m
<1>3. \A k \in Int : k * m \in Int
  BY <1>1
<1>4. 0 = 0 * m /\ m = 1 * m /\ -m = (-1) * m
  BY <1>1
<1>5. \A j, k \in Int : /\ j * m + k * m = (j + k) * m
                         /\ j * m - k * m = (j - k) * m
  BY <1>1
<1>6. \A x, y \in Multiples : x + y \in Multiples /\ x - y \in Multiples
  <2> TAKE x, y \in Multiples
  <2>1. PICK j \in Int : x = j * m
    BY <1>2
  <2>2. PICK k \in Int : y = k * m
    BY <1>2
  <2>3. x + y = (j + k) * m /\ x - y = (j - k) * m /\ j + k \in Int /\ j - k \in Int
    BY <1>5, <2>1, <2>2
  <2> QED
    BY <1>2, <2>3
<1>7. \A k \in Int : (k * m) % m = 0
  BY <1>1
<1>8. 0 \in Int /\ 1 \in Int /\ -1 \in Int
  OBVIOUS
<1>9. 0 \in Multiples /\ m \in Multiples /\ -m \in Multiples
  BY <1>2, <1>4, <1>8
<1>10. Multiples \subseteq Int /\ \A x \in Multiples : x % m = 0
  BY <1>2, <1>3, <1>7
<1> QED
  BY <1>6, <1>9, <1>10 DEF m

LEMMA SumsStep ==
  ASSUME NEW n \in Nat, NEW data, NEW f, Sums(f, data, n), NEW k \in 1 .. n
  PROVE  f[k - 1] \in Int /\ f[k] \in Int /\ f[k] = f[k - 1] + data[k]
BY DEF Sums

\* The same with the two numbers named.
LEMMA SumsNext ==
  ASSUME NEW n \in Nat, NEW data, NEW f, Sums(f, data, n)
  PROVE  \A j, k \in 0 .. n : k = j + 1 => f[k] = f[j] + data[k]
<1> TAKE j, k \in 0 .. n
<1> HAVE k = j + 1
<1>1. k \in 1 .. n /\ k - 1 = j
  OBVIOUS
<1>2. f[k] = f[k - 1] + data[k]
  BY <1>1, SumsStep
<1> QED
  BY <1>1, <1>2

LEMMA SumsType ==
  ASSUME NEW n \in Nat, NEW data, NEW f, Sums(f, data, n), NEW k \in 0 .. n
  PROVE  f[k] \in Int
BY DEF Sums

LEMMA IntVectors ==
  ASSUME NEW n \in Nat, NEW data \in Vectors(n)
  PROVE  data \in [1 .. n -> Int] /\ \A p \in 1 .. n : data[p] \in Word /\ data[p] \in Int
BY SmallWords DEF Vectors

LEMMA WrapCongruent ==
  ASSUME NEW x \in -2 * Half .. 2 * Half
  PROVE  x \in Int /\ Wrap(x) - x \in Multiples
<1>1. x \in Int /\ Half \in Nat
  BY HalfAssumption
<1>2. Wrap(x) - x \in {0, 2 * Half, -(2 * Half)}
  BY <1>1 DEF Wrap
<1> QED
  BY <1>1, <1>2, MultiplesFacts

LEMMA WrapSumFacts ==
  ASSUME NEW n \in Nat, NEW data \in Vectors(n)
  PROVE  /\ WrapSum(data) \in Word /\ SumOf(data) \in Int
         /\ WrapSum(data) - SumOf(data) \in Multiples
<1>1. data \in [1 .. n -> Int] /\ \A k \in 1 .. n : data[k] \in Word
  BY SmallWords DEF Vectors
<1>2. PICK f : Sums(f, data, n) /\ SumOf(data) = f[n]
  BY <1>1, SumIs
<1>3. PICK g : WrapSums(g, data, n) /\ WrapSum(data) = g[n]
  BY WrapSumIs
<1> DEFINE alike == {k \in 0 .. n : g[k] - f[k] \in Multiples}
<1>4. 0 \in alike
  BY <1>2, <1>3, MultiplesFacts DEF Sums, WrapSums
<1>5. ASSUME NEW k \in 1 .. n, k - 1 \in alike PROVE k \in alike
  <2> DEFINE x == g[k - 1] + data[k]
  <2>1. /\ g[k] = Wrap(x) /\ g[k - 1] \in Word /\ data[k] \in Word
        /\ f[k] = f[k - 1] + data[k] /\ f[k - 1] \in Int
        /\ g[k - 1] - f[k - 1] \in Multiples
    BY <1>1, <1>2, <1>3, <1>5 DEF Sums, WrapSums
  <2>2. x \in -2 * Half .. 2 * Half /\ x - f[k] = g[k - 1] - f[k - 1]
    BY <2>1, HalfAssumption DEF Word
  <2>3. x \in Int /\ Wrap(x) - x \in Multiples
    BY <2>2, WrapCongruent
  <2>4. Wrap(x) \in Int /\ f[k] \in Int
    <3>1. g[k] \in Int
      <4>1. k \in 0 .. n /\ g[k] \in Word
        BY <1>3 DEF WrapSums
      <4> QED
        BY <4>1, SmallWords
    <3>2. f[k] \in Int
      BY <1>2 DEF Sums
    <3> QED
      BY <2>1, <3>1, <3>2
  <2> HIDE DEF x
  <2>5. (Wrap(x) - x) + (x - f[k]) \in Multiples
    BY <2>1, <2>2, <2>3, MultiplesFacts
  <2>6. (Wrap(x) - x) + (x - f[k]) = g[k] - f[k]
    BY <2>1, <2>3, <2>4
  <2> QED
    BY <2>5, <2>6
<1> HIDE DEF alike
<1>6. \A k \in 0 .. n : k \in alike
  BY <1>4, <1>5, HoldsThroughout
<1>7. g[n] \in Word /\ f[n] \in Int
  BY <1>2, <1>3 DEF Sums, WrapSums
<1> QED
  BY <1>2, <1>3, <1>6, <1>7 DEF alike

(***************************************************************************)
(* What a fused codec leaves in the two slots after a block: the sum of    *)
(* its values without sign, of which the low word is the sum of the block. *)
(***************************************************************************)
LEMMA FusedSlots ==
  ASSUME NEW n \in Nat, n < Half, NEW data \in Vectors(n)
  PROVE  LET sum == SumOf([p \in 1 .. n |-> ToUnsigned(data[p])])
         IN  /\ ToSigned(sum % (2 * Half)) \in Word
             /\ sum \div (2 * Half) \in Word
             /\ ToSigned(sum % (2 * Half)) - SumOf(data) \in Multiples
<1> DEFINE m == 2 * Half
           u == [p \in 1 .. n |-> ToUnsigned(data[p])]
<1>1. data \in [1 .. n -> Int] /\ \A k \in 1 .. n : data[k] \in Word
  BY SmallWords DEF Vectors
<1>2. \A k \in 1 .. n : u[k] \in 0 .. m - 1 /\ u[k] - data[k] \in {0, m}
  BY <1>1, HalfAssumption DEF ToUnsigned, Word
<1>3. u \in [1 .. n -> Int]
  BY <1>2
<1>4. m \in Nat \ {0} /\ m = 2 * Half
  BY HalfAssumption
<1> HIDE DEF u, m
<1>5. PICK f : Sums(f, data, n) /\ SumOf(data) = f[n]
  BY <1>1, SumIs
<1>6. PICK g : Sums(g, u, n) /\ SumOf(u) = g[n]
  BY <1>3, SumIs
<1> DEFINE alike == {k \in 0 .. n : /\ g[k] - f[k] \in Multiples
                                    /\ g[k] >= 0 /\ g[k] <= m * k}
<1>7. 0 \in alike
  <2>1. f[0] = 0 /\ g[0] = 0 /\ m * 0 = 0
    BY <1>4, <1>5, <1>6 DEF Sums
  <2> QED
    BY <2>1, MultiplesFacts
<1>8. ASSUME NEW k \in 1 .. n, k - 1 \in alike PROVE k \in alike
  <2>1. /\ g[k] = g[k - 1] + u[k] /\ g[k - 1] \in Int /\ u[k] \in 0 .. m - 1
        /\ f[k] = f[k - 1] + data[k] /\ f[k - 1] \in Int /\ data[k] \in Int
        /\ g[k - 1] - f[k - 1] \in Multiples /\ u[k] - data[k] \in {0, m}
    BY <1>1, <1>2, <1>5, <1>6, <1>8 DEF Sums
  <2>2. u[k] - data[k] \in Multiples
    BY <1>4, <2>1, MultiplesFacts
  <2>3. (g[k - 1] - f[k - 1]) + (u[k] - data[k]) \in Multiples
    BY <2>1, <2>2, MultiplesFacts
  <2>4. g[k] - f[k] = (g[k - 1] - f[k - 1]) + (u[k] - data[k])
    BY <1>4, <2>1
  <2>5. m * k = m * (k - 1) + m /\ m * (k - 1) \in Nat /\ m * k \in Nat
    BY <1>4
  <2>6. g[k - 1] >= 0 /\ g[k - 1] <= m * (k - 1)
    BY <1>8
  <2>7. g[k] >= 0 /\ g[k] <= m * k
    BY <1>4, <2>1, <2>5, <2>6
  <2> QED
    BY <2>3, <2>4, <2>7
<1> HIDE DEF alike
<1>9. \A k \in 0 .. n : k \in alike
  BY <1>7, <1>8, HoldsThroughout
<1> DEFINE sum == g[n]
           low == sum % m
           high == sum \div m
<1>10. sum \in Nat /\ f[n] \in Int /\ sum <= m * n /\ sum - f[n] \in Multiples
  BY <1>5, <1>6, <1>9 DEF Sums, alike
<1> HIDE DEF sum
<1>11. /\ low \in 0 .. m - 1 /\ high \in Nat /\ m * high \in Nat
       /\ sum = m * high + low
  BY <1>4, <1>10, DivMod
<1>12. high < n + 1
  <2>1. n + 1 \in Nat /\ m * (n + 1) = m * n + m /\ m * n \in Nat
    BY <1>4
  <2>2. sum < m * (n + 1)
    BY <1>4, <1>10, <2>1
  <2> QED
    BY <1>4, <1>10, <2>1, <2>2, QuotientBelow
<1> HIDE DEF high, low
<1>13. high \in Word
  BY <1>11, <1>12, HalfAssumption DEF Word
<1>14. ToSigned(low) \in Word /\ ToSigned(low) - low \in {0, -m}
  BY <1>4, <1>11, HalfAssumption DEF ToSigned, Word
<1>15. ToSigned(low) - f[n] \in Multiples
  <2>1. ToSigned(low) - low \in Multiples /\ ToSigned(low) \in Int
    BY <1>4, <1>14, MultiplesFacts, SmallWords
  <2>2. m * high = high * (2 * Half)
    BY <1>4, <1>11
  <2>3. m * high \in Multiples
    BY <1>11, <2>2 DEF Multiples
  <2>4. ((ToSigned(low) - low) - m * high) + (sum - f[n]) \in Multiples
    BY <1>10, <2>1, <2>3, MultiplesFacts
  <2>5. ((ToSigned(low) - low) - m * high) + (sum - f[n]) = ToSigned(low) - f[n]
    BY <1>10, <1>11, <2>1
  <2> QED
    BY <2>4, <2>5
<1> QED
  BY <1>5, <1>6, <1>13, <1>14, <1>15 DEF u, m, sum, low, high

(***************************************************************************)
(* LinearSumSimd of a vector that starts with a block: the lanes take its  *)
(* values four by four, the tail those after the last quad.                *)
(***************************************************************************)
LEMMA LanesFacts ==
  ASSUME N \in Nat, NEW m \in Nat, N <= m, NEW data \in Vectors(m),
         NEW f, Sums(f, data, N)
  PROVE  /\ Lanes(data) \in Vectors(4)
         /\ WrapSum(Lanes(data)) \in Word
         /\ WrapSum(Lanes(data)) - f[4 * (N \div 4)] \in Multiples
<1> DEFINE quads == N \div 4
           lane(l) == [q \in 1 .. quads |-> data[4 * (q - 1) + l]]
<1>1. quads \in Nat /\ 4 * quads \in 0 .. N
  BY DivMod
<1> HIDE DEF quads
<1>2. ASSUME NEW l \in 1 .. 4, NEW q \in 1 .. quads
      PROVE  4 * (q - 1) + l \in 1 .. N /\ data[4 * (q - 1) + l] \in Word
  <2>1. 4 * (q - 1) + l \in 1 .. N
    BY <1>1
  <2> QED
    BY <2>1 DEF Vectors
<1>3. \A l \in 1 .. 4 : lane(l) \in Vectors(quads) /\ lane(l) \in [1 .. quads -> Int]
  BY <1>2, SmallWords DEF Vectors
<1>4. \A l \in 1 .. 4 : \A q \in 1 .. quads : lane(l)[q] = data[4 * (q - 1) + l]
  OBVIOUS
<1>5. Lanes(data) = [l \in 1 .. 4 |-> WrapSum(lane(l))]
  BY DEF Lanes, quads
<1> HIDE DEF lane
<1>6. \A l \in 1 .. 4 : /\ WrapSum(lane(l)) \in Word /\ SumOf(lane(l)) \in Int
                        /\ WrapSum(lane(l)) - SumOf(lane(l)) \in Multiples
  BY <1>1, <1>3, WrapSumFacts
<1>7. Lanes(data) \in Vectors(4) /\ \A l \in 1 .. 4 : Lanes(data)[l] = WrapSum(lane(l))
  BY <1>5, <1>6 DEF Vectors
<1>8. \A l \in 1 .. 4 : \E g : Sums(g, lane(l), quads) /\ SumOf(lane(l)) = g[quads]
  BY <1>1, <1>3, SumIs
<1>9. PICK a : Sums(a, lane(1), quads) /\ SumOf(lane(1)) = a[quads]
  BY <1>8
<1>10. PICK b : Sums(b, lane(2), quads) /\ SumOf(lane(2)) = b[quads]
  BY <1>8
<1>11. PICK c : Sums(c, lane(3), quads) /\ SumOf(lane(3)) = c[quads]
  BY <1>8
<1>12. PICK d : Sums(d, lane(4), quads) /\ SumOf(lane(4)) = d[quads]
  BY <1>8
<1> DEFINE split == {q \in 0 .. quads : f[4 * q] = a[q] + b[q] + c[q] + d[q]}
<1>13. 0 \in split
  BY <1>1, <1>9, <1>10, <1>11, <1>12 DEF Sums
<1>14. ASSUME NEW q \in 1 .. quads, q - 1 \in split PROVE q \in split
  <2> DEFINE p == 4 * (q - 1)
  <2>1. p \in Nat /\ p + 4 = 4 * q /\ p + 4 <= N
    BY <1>1
  <2>2. f[p] = a[q - 1] + b[q - 1] + c[q - 1] + d[q - 1]
    BY <1>14
  <2>3. /\ a[q] = a[q - 1] + data[p + 1] /\ b[q] = b[q - 1] + data[p + 2]
        /\ c[q] = c[q - 1] + data[p + 3] /\ d[q] = d[q - 1] + data[p + 4]
    BY <1>4, <1>9, <1>10, <1>11, <1>12 DEF Sums
  <2>4. /\ a[q - 1] \in Int /\ b[q - 1] \in Int /\ c[q - 1] \in Int /\ d[q - 1] \in Int
    BY <1>1, <1>9, <1>10, <1>11, <1>12, SumsStep
  <2> HIDE DEF p
  <2>5. /\ p + 1 \in 1 .. N /\ p + 2 \in 1 .. N /\ p + 3 \in 1 .. N /\ p + 4 \in 1 .. N
        /\ p + 1 - 1 = p /\ p + 2 - 1 = p + 1 /\ p + 3 - 1 = p + 2 /\ p + 4 - 1 = p + 3
    BY <2>1
  <2>6. /\ f[p + 1] = f[p] + data[p + 1] /\ f[p + 2] = f[p + 1] + data[p + 2]
        /\ f[p + 3] = f[p + 2] + data[p + 3] /\ f[p + 4] = f[p + 3] + data[p + 4]
    <3>1. /\ p \in 0 .. N /\ p + 1 \in 0 .. N /\ p + 2 \in 0 .. N
          /\ p + 3 \in 0 .. N /\ p + 4 \in 0 .. N
          /\ p + 2 = (p + 1) + 1 /\ p + 3 = (p + 2) + 1 /\ p + 4 = (p + 3) + 1
      BY <2>1, <2>5
    <3> DEFINE b1 == p + 1
               b2 == p + 2
               b3 == p + 3
               b4 == p + 4
    <3>2. /\ p \in 0 .. N /\ b1 \in 0 .. N /\ b2 \in 0 .. N /\ b3 \in 0 .. N /\ b4 \in 0 .. N
          /\ b1 = p + 1 /\ b2 = b1 + 1 /\ b3 = b2 + 1 /\ b4 = b3 + 1
      BY <3>1
    <3> HIDE DEF b1, b2, b3, b4
    <3>3. /\ f[b1] = f[p] + data[b1] /\ f[b2] = f[b1] + data[b2]
          /\ f[b3] = f[b2] + data[b3] /\ f[b4] = f[b3] + data[b4]
      BY <3>2, SumsNext
    <3> QED
      BY <3>3 DEF b1, b2, b3, b4
  <2>7. /\ data[p + 1] \in Int /\ data[p + 2] \in Int
        /\ data[p + 3] \in Int /\ data[p + 4] \in Int
    <3>1. \A k \in 1 .. m : data[k] \in Int
      BY IntVectors
    <3> QED
      BY <2>5, <3>1
  <2>8. f[p + 4] = a[q] + b[q] + c[q] + d[q]
    BY <2>2, <2>3, <2>4, <2>6, <2>7
  <2> QED
    BY <2>1, <2>8
<1> HIDE DEF split
<1>15. \A q \in 0 .. quads : q \in split
  BY <1>1, <1>13, <1>14, HoldsThroughout
<1>16. f[4 * quads] = SumOf(lane(1)) + SumOf(lane(2)) + SumOf(lane(3)) + SumOf(lane(4))
  BY <1>1, <1>9, <1>10, <1>11, <1>12, <1>15 DEF split
<1> DEFINE w == Lanes(data)
<1>17. w \in [1 .. 4 -> Int] /\ w \in Vectors(4)
       /\ 1 \in 1 .. 4 /\ 2 \in 1 .. 4 /\ 3 \in 1 .. 4 /\ 4 \in 1 .. 4
  <2>1. w \in Vectors(4) /\ 4 \in Nat
    BY <1>7
  <2> HIDE DEF w
  <2>2. w \in [1 .. 4 -> Int]
    BY <2>1, IntVectors
  <2> QED
    BY <2>1, <2>2
<1>18. \A l \in 1 .. 4 : w[l] \in Int /\ SumOf(lane(l)) \in Int
                         /\ w[l] - SumOf(lane(l)) \in Multiples
  BY <1>6, <1>7, SmallWords
<1> HIDE DEF w
<1>19. SumOf(w) = w[1] + w[2] + w[3] + w[4]
  <2>1. PICK g : Sums(g, w, 4) /\ SumOf(w) = g[4]
    BY <1>17, SumIs
  <2>2. g[0] = 0 /\ g[1] = g[0] + w[1] /\ g[2] = g[1] + w[2] /\ g[3] = g[2] + w[3]
        /\ g[4] = g[3] + w[4]
    BY <2>1 DEF Sums
  <2> QED
    BY <1>17, <2>1, <2>2
<1>20. WrapSum(w) \in Word /\ SumOf(w) \in Int /\ WrapSum(w) - SumOf(w) \in Multiples
  BY <1>17, WrapSumFacts
<1> DEFINE x(l) == w[l] - SumOf(lane(l))
<1>21. x(1) \in Multiples /\ x(2) \in Multiples /\ x(3) \in Multiples /\ x(4) \in Multiples
  BY <1>17, <1>18
<1>22. (WrapSum(w) - SumOf(w)) + (((x(1) + x(2)) + x(3)) + x(4)) \in Multiples
  <2> HIDE DEF x
  <2>1. ((x(1) + x(2)) + x(3)) + x(4) \in Multiples
    BY <1>21, MultiplesFacts
  <2> QED
    BY <1>20, <2>1, MultiplesFacts
<1>23. (WrapSum(w) - SumOf(w)) + (((x(1) + x(2)) + x(3)) + x(4))
         = WrapSum(w) - f[4 * quads]
  <2>1. WrapSum(w) \in Int
    BY <1>20, SmallWords
  <2> DEFINE s(l) == SumOf(lane(l))
             t == WrapSum(w)
             u == SumOf(w)
             z == f[4 * quads]
  <2>2. /\ s(1) \in Int /\ s(2) \in Int /\ s(3) \in Int /\ s(4) \in Int
        /\ w[1] \in Int /\ w[2] \in Int /\ w[3] \in Int /\ w[4] \in Int
    BY <1>17, <1>18
  <2>3. z = s(1) + s(2) + s(3) + s(4) /\ u = w[1] + w[2] + w[3] + w[4]
        /\ t \in Int
    BY <1>16, <1>19, <2>1
  <2>4. x(1) = w[1] - s(1) /\ x(2) = w[2] - s(2) /\ x(3) = w[3] - s(3)
        /\ x(4) = w[4] - s(4)
    OBVIOUS
  <2> HIDE DEF s, t, u, z, x
  <2>5. (t - u) + (((x(1) + x(2)) + x(3)) + x(4)) = t - z
    BY <2>2, <2>3, <2>4
  <2> QED
    BY <2>5 DEF t, u, z
<1> QED
  BY <1>7, <1>20, <1>22, <1>23 DEF w, quads

LEMMA SimdSumFacts ==
  ASSUME N \in Nat, NEW m \in Nat, N <= m, NEW data \in Vectors(m),
         NEW block \in Vectors(N), \A p \in 1 .. N : data[p] = block[p]
  PROVE  SimdSum(data) \in Word /\ SimdSum(data) - SumOf(block) \in Multiples
<1>1. block \in [1 .. N -> Int] /\ \A p \in 1 .. N : block[p] \in Word
  BY SmallWords DEF Vectors
<1>2. PICK f : Sums(f, block, N) /\ SumOf(block) = f[N]
  BY <1>1, SumIs
<1>3. Sums(f, data, N)
  BY <1>2 DEF Sums
<1> DEFINE before == 4 * (N \div 4)
           rest == SubSeq(data, before + 1, N)
           head == WrapSum(Lanes(data))
           both == <<head>> \o rest
           left == N - before
<1>4. before \in 0 .. N
  BY DivMod
<1>5. head \in Word /\ head - f[before] \in Multiples
  BY <1>3, LanesFacts
<1>6. SimdSum(data) = WrapSum(both)
  BY DEF SimdSum
<1> HIDE DEF before, head
<1>7. left \in Nat
  BY <1>4
<1>8. rest \in Seq(Word) /\ Len(rest) = left
      /\ \A j \in 1 .. left : rest[j] = data[before + j]
  <2>1. before + 1 \in Int /\ N \in Int
    BY <1>4
  <2>2. \A p \in before + 1 .. N : data[p] \in Word
    BY <1>1, <1>4
  <2>3. /\ rest \in Seq(Word) /\ Len(rest) = IF before + 1 <= N THEN N - (before + 1) + 1 ELSE 0
        /\ \A j \in 1 .. N - (before + 1) + 1 : rest[j] = data[before + 1 + j - 1]
    BY <2>1, <2>2, SubSeqProperties
  <2> HIDE DEF rest
  <2> QED
    BY <1>4, <2>3
<1> HIDE DEF rest
<1>9. <<head>> \in Seq(Word) /\ Len(<<head>>) = 1 /\ <<head>>[1] = head
  BY <1>5
<1>10. both \in Seq(Word) /\ Len(both) = left + 1 /\ both[1] = head
       /\ \A j \in 1 .. left : both[j + 1] = data[before + j]
  <2> DEFINE one == <<head>>
  <2> HIDE DEF one
  <2>1. one \in Seq(Word) /\ Len(one) = 1 /\ one[1] = head
    BY <1>9 DEF one
  <2>2. /\ one \o rest \in Seq(Word) /\ Len(one \o rest) = Len(one) + Len(rest)
        /\ \A p \in 1 .. Len(one) + Len(rest) :
             (one \o rest)[p] = IF p <= Len(one) THEN one[p] ELSE rest[p - Len(one)]
    BY <1>8, <2>1, ConcatProperties
  <2>3. both = one \o rest
    BY DEF one
  <2> HIDE DEF both
  <2> QED
    BY <1>7, <1>8, <2>1, <2>2, <2>3
<1> HIDE DEF both
<1>11. both \in Vectors(left + 1) /\ both \in [1 .. left + 1 -> Int]
  <2>1. both \in Vectors(left + 1)
    BY <1>7, <1>10 DEF Vectors
  <2> QED
    BY <1>7, <2>1, IntVectors
<1>12. PICK g : Sums(g, both, left + 1) /\ SumOf(both) = g[left + 1]
  BY <1>7, <1>11, SumIs
<1> DEFINE follows == {j \in 0 .. left : g[j + 1] = head + f[before + j] - f[before]}
<1>13. 0 \in follows
  <2>1. g[0 + 1] = g[0] + both[1] /\ g[0] = 0
    BY <1>7, <1>12 DEF Sums
  <2>2. before + 0 = before /\ f[before] \in Int /\ head \in Int
    BY <1>2, <1>4, <1>5, SmallWords DEF Sums
  <2> QED
    BY <1>7, <1>10, <2>1, <2>2
<1>14. ASSUME NEW j \in 1 .. left, j - 1 \in follows PROVE j \in follows
  <2>1. before + j \in 1 .. N /\ before + j - 1 = before + (j - 1) /\ (j - 1) + 1 = j
    BY <1>4, <1>7
  <2>2. g[j] = head + f[before + (j - 1)] - f[before]
    BY <1>14, <2>1
  <2>3. f[before + j] = f[before + (j - 1)] + data[before + j]
    <3> DEFINE x == before + j
               y == before + (j - 1)
    <3>1. x \in 0 .. N /\ y \in 0 .. N /\ x = y + 1
      BY <1>4, <2>1
    <3> HIDE DEF x, y
    <3>2. f[x] = f[y] + data[x]
      BY <1>3, <3>1, SumsNext
    <3> QED
      BY <3>2 DEF x, y
  <2>4. g[j + 1] = g[j] + both[j + 1] /\ both[j + 1] = data[before + j]
    <3>1. j + 1 \in 1 .. left + 1 /\ (j + 1) - 1 = j
      BY <1>7
    <3> QED
      BY <1>10, <1>12, <3>1 DEF Sums
  <2>5. f[before] \in Int /\ f[before + (j - 1)] \in Int /\ head \in Int
        /\ data[before + j] \in Int
    <3>1. before \in 0 .. N /\ before + (j - 1) \in 0 .. N
      BY <1>4, <2>1
    <3> QED
      BY <1>1, <1>2, <1>5, <2>1, <3>1, SmallWords DEF Sums
  <2> QED
    BY <2>2, <2>3, <2>4, <2>5
<1> HIDE DEF follows
<1>15. \A j \in 0 .. left : j \in follows
  BY <1>7, <1>13, <1>14, HoldsThroughout
<1>16. SumOf(both) = head + f[N] - f[before]
  <2>1. left \in follows /\ before + left = N
    BY <1>4, <1>7, <1>15
  <2> QED
    BY <1>12, <2>1 DEF follows
<1>17. WrapSum(both) \in Word /\ SumOf(both) \in Int /\ WrapSum(both) - SumOf(both) \in Multiples
  BY <1>7, <1>11, WrapSumFacts
<1>18. (WrapSum(both) - SumOf(both)) + (head - f[before]) \in Multiples
  BY <1>5, <1>17, MultiplesFacts
<1>19. (WrapSum(both) - SumOf(both)) + (head - f[before]) = WrapSum(both) - f[N]
  <2>1. f[N] \in Int /\ f[before] \in Int /\ head \in Int /\ WrapSum(both) \in Int
    <3>1. N \in 0 .. N
      OBVIOUS
    <3> QED
      BY <1>2, <1>4, <1>5, <1>17, <3>1, SmallWords, SumsType
  <2> QED
    BY <1>16, <1>17, <2>1
<1> QED
  BY <1>2, <1>6, <1>17, <1>18, <1>19

-------------------------------------------------------------------------------
(***************************************************************************)
(* The input of a combination, and the blocks prepared from it.            *)
(***************************************************************************)
Fixed == /\ setting \in Settings /\ raster \in Rasters[setting.side]
         /\ order \in Orders
         /\ \A k \in BlockNumbers : overrun[k] = Keep \/ overrun[k] \in Word

LEMMA SettingFacts ==
  ASSUME Fixed
  PROVE  /\ setting.side \in Nat \ {0} /\ N \in Nat \ {0} /\ N < Half
         /\ N = setting.side * setting.side
         /\ setting.ordering \in Orderings
         /\ setting.initial \in Mutating \cup {"none"}
         /\ setting.access \in Mutating \cup ReadOnly
         /\ setting.base \in Kinds /\ setting.again \in Kinds
         /\ \A k \in BlockNumbers : raster[k] \in Vectors(N)
<1>1. /\ setting.side \in DOMAIN Rasters
      /\ setting.ordering \in Orderings
      /\ setting.initial \in Mutating \cup {"none"}
      /\ setting.access \in Mutating \cup ReadOnly
      /\ setting.base \in Kinds /\ setting.again \in Kinds
  BY SettingsAssumption DEF Fixed
<1>2. /\ setting.side \in Nat \ {0} /\ setting.side * setting.side < Half
      /\ Rasters[setting.side] \subseteq
           [BlockNumbers -> [1 .. setting.side * setting.side -> Word]]
  BY <1>1, RasterAssumption
<1>3. \A n \in Nat \ {0} : n * n \in Nat \ {0}
  OBVIOUS
<1>4. N \in Nat \ {0} /\ N = setting.side * setting.side
  BY <1>2, <1>3 DEF N
<1>5. raster \in [BlockNumbers -> [1 .. N -> Word]]
  BY <1>2, <1>4 DEF Fixed
<1> QED
  BY <1>1, <1>2, <1>4, <1>5 DEF Vectors

LEMMA OverflowFacts ==
  /\ \A kind : Overflow(kind) \in Nat
  /\ Overflow("fused") = 2
  /\ Overflow("padded") = PadSlots /\ PadSlots \in Nat \ {0}
  /\ \A kind : kind # "fused" /\ kind # "padded" => Overflow(kind) = 0
BY BoundsAssumption DEF Overflow

Extent == N + Overflow(setting.base)

LEMMA ExtentFacts ==
  ASSUME Fixed
  PROVE  Extent \in Nat /\ N <= Extent /\ (Overflow(setting.base) = 0 => Extent = N)
<1>1. N \in Nat /\ Overflow(setting.base) \in Nat
  BY SettingFacts, OverflowFacts
<1> QED
  BY <1>1 DEF Extent

LEMMA PreparedType ==
  ASSUME Fixed, NEW min \in Word, NEW block \in Vectors(N)
  PROVE  /\ ShiftedBy(min, block) \in Vectors(N)
         /\ OrderedBy(min, block) \in Vectors(N)
         /\ PreparedWith(min, block) \in Vectors(N)
<1> DEFINE shift == IF min < 0 THEN Wrap(-min) ELSE 0
           shifted == ShiftedBy(min, block)
           ordered == OrderedBy(min, block)
<1>1. shift \in Word
  BY WrapOfTwo, SmallWords
<1>2. shifted = [p \in 1 .. N |-> Wrap(block[p] + shift)]
  BY DEF ShiftedBy
<1> HIDE DEF shift
<1>3. N \in Nat /\ setting.side \in Nat /\ N = setting.side * setting.side
      /\ setting.ordering \in Orderings /\ setting.initial \in Mutating \cup {"none"}
  BY SettingFacts
<1>4. \A p \in 1 .. N : Wrap(block[p] + shift) \in Word
  BY <1>1, <1>3, VectorFacts, WrapOfTwo
<1>5. shifted \in Vectors(N)
  BY <1>2, <1>4 DEF Vectors
<1> HIDE DEF shifted
<1>6. ordered \in Vectors(N)
  BY <1>3, <1>5, OrderedType DEF OrderedBy, shifted
<1> HIDE DEF ordered
<1>7. Transformed(setting.initial, ordered) \in Vectors(N)
  BY <1>3, <1>6, TransformedType
<1>8. PreparedWith(min, block) = Transformed(setting.initial, ordered)
  BY DEF PreparedWith, ordered
<1> QED
  BY <1>5, <1>6, <1>7, <1>8 DEF shifted, ordered

(***************************************************************************)
(* The values of a raster that spans less than half the word still do when *)
(* its minimum is subtracted from them and the block is ordered.           *)
(***************************************************************************)
LEMMA RasterFacts ==
  ASSUME Fixed
  PROVE  /\ RasterValues \in SUBSET Word
         /\ \A k \in BlockNumbers : raster[k] \in [1 .. N -> RasterValues]
<1>1. \A k \in BlockNumbers : raster[k] \in Vectors(N) /\ N \in Nat
  BY SettingFacts
<1>2. \A k \in BlockNumbers : ToSet(raster[k]) \in SUBSET Word
  BY <1>1, VectorFacts
<1>3. ASSUME NEW k \in BlockNumbers PROVE raster[k] \in [1 .. N -> ToSet(raster[k])]
  BY <1>1, <1>3 DEF Vectors, ToSet
<1>4. \A k \in BlockNumbers : ToSet(raster[k]) \subseteq RasterValues
  BY DEF RasterValues
<1>5. \A v \in RasterValues : \E k \in BlockNumbers : v \in ToSet(raster[k])
  BY DEF RasterValues
<1> HIDE DEF RasterValues
<1>6. ASSUME NEW k \in BlockNumbers PROVE raster[k] \in [1 .. N -> RasterValues]
  BY <1>3, <1>4, <1>6
<1> QED
  BY <1>2, <1>5, <1>6

LEMMA PreparedWithin ==
  ASSUME Fixed, Narrow, NEW min \in Word, min < 0 => min \in RasterValues,
         NEW block \in [1 .. N -> RasterValues \cup {0}]
  PROVE  /\ Within(ToSet(OrderedBy(min, block)))
         /\ setting.initial \notin Wrapping => Within(ToSet(PreparedWith(min, block)))
<1> DEFINE V == RasterValues \cup {0}
           m == IF min < 0 THEN min ELSE 0
           shift == IF min < 0 THEN Wrap(-min) ELSE 0
           S == {v - m : v \in V}
           ordered == OrderedBy(min, block)
<1>1. V \in SUBSET Word /\ 0 \in V /\ m \in V
  BY RasterFacts, SmallWords
<1>2. \A v, w \in V : v - w < Half
  BY DEF Narrow
<1>3. block \in [1 .. N -> V] /\ block \in Vectors(N)
  BY <1>1 DEF Vectors
<1> HIDE DEF V
<1>4. ASSUME NEW v \in V PROVE Wrap(v + shift) = v - m
  <2>1. v \in Word /\ v - m < Half /\ m - v < Half /\ 0 - m < Half
    BY <1>1, <1>2
  <2>2. CASE min < 0
    <3>1. shift = -min
      BY <2>1, <2>2, HalfAssumption DEF Wrap, Word
    <3> QED
      BY <2>1, <2>2, <3>1, HalfAssumption DEF Wrap, Word
  <2>3. CASE ~ (min < 0)
    BY <2>1, <2>3, HalfAssumption DEF Wrap, Word
  <2> QED
    BY <2>2, <2>3
<1>5. ShiftedBy(min, block) \in [1 .. N -> S] /\ 0 \in S
  <2>1. ShiftedBy(min, block) = [p \in 1 .. N |-> Wrap(block[p] + shift)]
    BY DEF ShiftedBy
  <2>2. ASSUME NEW p \in 1 .. N PROVE Wrap(block[p] + shift) \in S
    BY <1>3, <1>4, <2>2
  <2>3. m - m = 0
    BY <1>1, SmallWords
  <2>4. m - m \in S
    BY <1>1
  <2> HIDE DEF S, shift
  <2> QED
    BY <2>1, <2>2, <2>3, <2>4
<1>6. Within(S)
  <2>1. ASSUME NEW v \in V, NEW w \in V PROVE (v - m) - (w - m) < Half
    <3>1. v \in Int /\ w \in Int /\ m \in Int /\ v - w < Half
      BY <1>1, <1>2, SmallWords
    <3> QED
      BY <3>1
  <2> QED
    BY <2>1 DEF Within
<1>7. ordered \in [1 .. N -> S]
  <2>1. setting.side \in Nat /\ N = setting.side * setting.side
        /\ setting.ordering \in Orderings
    BY SettingFacts
  <2> HIDE DEF S
  <2> QED
    BY <1>5, <2>1, OrderedValues DEF OrderedBy
<1>8. Within(ToSet(ordered)) /\ ordered \in Vectors(N)
  <2>1. ToSet(ordered) \subseteq S
    <3> HIDE DEF S, ordered
    <3> QED
      BY <1>7 DEF ToSet
  <2> HIDE DEF S, ordered
  <2>2. Within(ToSet(ordered))
    BY <1>6, <2>1 DEF Within
  <2> QED
    BY <1>3, <2>2, PreparedType DEF ordered
<1>9. PreparedWith(min, block) = Transformed(setting.initial, ordered)
  BY DEF PreparedWith
<1> HIDE DEF ordered
<1>10. setting.initial \notin Wrapping =>
         Within(ToSet(Transformed(setting.initial, ordered)))
  BY <1>8, SettingFacts, TransformedWithin
<1> QED
  BY <1>8, <1>9, <1>10 DEF ordered

(***************************************************************************)
(* The two kinds of access.                                                *)
(***************************************************************************)
LEMMA AccessFacts ==
  /\ \A t : ~ (t \in Mutating /\ t \in ReadOnly)
  /\ \A t \in ReadOnly : ~ ByIndex(t) /\ ~ ByValue(t)
BY DEF Mutating, ReadOnly, ByIndex, ByValue

LEMMA AfterAccessType ==
  ASSUME Fixed, NEW data \in Vectors(N)
  PROVE  AfterAccess(data) \in Vectors(N)
<1>1. N \in Nat
  BY SettingFacts
<1> QED
  BY <1>1, TransformedType DEF AfterAccess

(***************************************************************************)
(* What a decode leaves in the shared buffer.                              *)
(***************************************************************************)
LEMMA DecodedFacts ==
  ASSUME Fixed, NEW cell, cell.kind = setting.base, setting.base # "direct",
         cell.data \in Vectors(N), NEW buf \in Vectors(Extent), NEW fill,
         fill = Keep \/ fill \in Word
  PROVE  LET after == Decoded(cell, buf, fill)
         IN  /\ after \in Vectors(Extent)
             /\ \A p \in 1 .. N : after[p] = cell.data[p]
             /\ setting.base = "fused" =>
                  after[N + 1] - SumOf(cell.data) \in Multiples
<1> DEFINE after == Decoded(cell, buf, fill)
           slots == SubSeq(buf, N + 1, Len(buf))
           sum == SumOf([p \in 1 .. N |-> ToUnsigned(cell.data[p])])
           filled == [s \in DOMAIN slots |-> IF fill = Keep THEN slots[s] ELSE fill]
           sums == <<ToSigned(sum % (2 * Half)), sum \div (2 * Half)>>
           over == Overflow(setting.base)
<1>1. N \in Nat /\ over \in Nat /\ Extent = N + over /\ N < Half /\ setting.base \in Kinds
  BY SettingFacts, OverflowFacts DEF Extent
<1> DEFINE data == cell.data
<1>2. data \in Seq(Word) /\ Len(data) = N /\ data \in Vectors(N)
  BY <1>1, VectorFacts
<1> HIDE DEF data
<1>3. slots \in Seq(Word) /\ Len(slots) = over
  <2>1. Len(buf) = N + over /\ \A p \in N + 1 .. N + over : buf[p] \in Word
    BY <1>1, VectorFacts
  <2> DEFINE lo == N + 1
             hi == N + over
  <2>2. lo \in Int /\ hi \in Int /\ slots = SubSeq(buf, lo, hi)
        /\ (IF lo <= hi THEN hi - lo + 1 ELSE 0) = over
    BY <1>1, <2>1
  <2>3. \A p \in lo .. hi : buf[p] \in Word
    BY <2>1
  <2> HIDE DEF lo, hi, slots, over
  <2>4. /\ SubSeq(buf, lo, hi) \in Seq(Word)
        /\ Len(SubSeq(buf, lo, hi)) = IF lo <= hi THEN hi - lo + 1 ELSE 0
    BY <2>2, <2>3, SubSeqProperties
  <2> QED
    BY <2>2, <2>4
<1> HIDE DEF slots, over
<1>4. filled \in Seq(Word) /\ Len(filled) = over
  <2>1. DOMAIN slots = 1 .. over /\ \A s \in 1 .. over : slots[s] \in Word
    BY <1>1, <1>3
  <2>2. \A s \in 1 .. over : (IF fill = Keep THEN slots[s] ELSE fill) \in Word
    BY <2>1
  <2>3. filled \in [1 .. over -> Word]
    BY <2>1, <2>2
  <2> HIDE DEF filled
  <2> QED
    BY <1>1, <2>3
<1> HIDE DEF filled
<1>5. /\ sums[1] \in Word /\ sums[2] \in Word
      /\ sums[1] - SumOf(data) \in Multiples
  <2>1. /\ ToSigned(sum % (2 * Half)) \in Word /\ sum \div (2 * Half) \in Word
        /\ ToSigned(sum % (2 * Half)) - SumOf(data) \in Multiples
    BY <1>1, <1>2, FusedSlots DEF data
  <2> HIDE DEF sum
  <2> QED
    BY <2>1
<1>6. sums \in Seq(Word) /\ Len(sums) = 2
  <2> DEFINE a == ToSigned(sum % (2 * Half))
             b == sum \div (2 * Half)
  <2>1. a \in Word /\ b \in Word
    BY <1>5
  <2> HIDE DEF a, b
  <2>2. <<a, b>> \in Seq(Word) /\ Len(<<a, b>>) = 2
    BY <2>1
  <2> QED
    BY <2>2 DEF a, b
<1> HIDE DEF sums, sum
<1>7. ASSUME NEW tail \in Seq(Word), Len(tail) = over, after = data \o tail
      PROVE  /\ after \in Vectors(Extent)
             /\ \A p \in 1 .. N : after[p] = data[p]
             /\ over # 0 => after[N + 1] = tail[1]
  <2>1. /\ data \o tail \in Seq(Word) /\ Len(data \o tail) = Len(data) + Len(tail)
        /\ \A p \in 1 .. Len(data) + Len(tail) :
             (data \o tail)[p] = IF p <= Len(data) THEN data[p] ELSE tail[p - Len(data)]
    BY <1>2, <1>7, ConcatProperties
  <2> HIDE DEF after
  <2>2. after \in Seq(Word) /\ Len(after) = N + over
        /\ \A p \in 1 .. N + over : after[p] = IF p <= N THEN data[p] ELSE tail[p - N]
    BY <1>2, <1>7, <2>1
  <2>3. after \in Vectors(Extent)
    BY <1>1, <2>2 DEF Vectors
  <2>4. over # 0 => N + 1 \in 1 .. N + over /\ ~ (N + 1 <= N) /\ N + 1 - N = 1
    BY <1>1
  <2> QED
    BY <1>1, <2>2, <2>3, <2>4
<1>8. CASE setting.base \in {"plain", "cascade", "dict"}
  <2>1. after = data \o slots
    BY <1>8 DEF Decoded, data, slots
  <2> HIDE DEF after
  <2> QED
    BY <1>3, <1>7, <1>8, <2>1 DEF after, data
<1>9. CASE setting.base = "padded"
  <2>1. after = data \o filled
    BY <1>9 DEF Decoded, data, filled, slots
  <2> HIDE DEF after
  <2> QED
    BY <1>4, <1>7, <1>9, <2>1 DEF after, data
<1>10. CASE setting.base = "fused"
  <2>1. after = data \o sums
    BY <1>10 DEF Decoded, data, sums, sum
  <2>2. over = 2
    BY <1>10, OverflowFacts DEF over
  <2> HIDE DEF after
  <2>3. sums \in Seq(Word) /\ Len(sums) = over /\ over # 0
    BY <1>6, <2>2
  <2>4. /\ after \in Vectors(Extent) /\ \A p \in 1 .. N : after[p] = data[p]
        /\ after[N + 1] = sums[1]
    BY <1>7, <2>1, <2>3
  <2> QED
    BY <1>5, <2>4 DEF after, data
<1> QED
  BY <1>1, <1>8, <1>9, <1>10 DEF Kinds

-------------------------------------------------------------------------------
(***************************************************************************)
(* The inductive invariant.  A minimum below zero was found in the raster. *)
(* While the blocks of a repetition are visited:                           *)
(*   Placed  the grid holds one block per cell, the shared buffer has room *)
(*           for a block and the slots of the base codec, and `direct'     *)
(*           says what the base codec is;                                  *)
(*   Cells   the blocks visited are transformed, once, the others as they  *)
(*           were split, except the one that is about to be encoded again; *)
(*   Handed  the vector the lambda works on starts with the block, and in  *)
(*           a fused codec's slot is its sum;                              *)
(*   Roomy   a classification by index that was applied had its values.    *)
(***************************************************************************)
Loaded == {"visit", "transform", "reencode", "done"}

Grids == [BlockNumbers -> [kind : Kinds, data : Vectors(N)]]

Counting ==
  /\ pc \in Stages => rep <= NumReps
  /\ pc \in {"scan", "transform", "reencode"} => i <= NumBlocks
  /\ pc = "done" => i = NumBlocks + 1

Placed ==
  pc \in Loaded =>
    /\ grid \in Grids /\ decbuf \in Vectors(Extent)
    /\ direct = (setting.base = "direct")
    /\ ~ OrderingThrows(setting.ordering, setting.side)
    /\ ByIndex(setting.initial) => Classes <= N

AtHead(k) ==
  /\ k \notin Reached \/ setting.access \in ReadOnly =>
       grid[k] = [kind |-> setting.base, data |-> Prepared(k)]
  /\ k \in Reached /\ setting.access \in Mutating =>
       /\ grid[k].kind = setting.again
       /\ Overflow(setting.base) = 0 =>
            grid[k].data = Transformed(setting.access, Prepared(k))

Cells ==
  pc \in Loaded =>
    \A k \in BlockNumbers : AtHead(k) \/ (pc = "reencode" /\ k = Visited)

Handed ==
  /\ pc = "transform" =>
       /\ \A p \in 1 .. N : Buf[p] = Prepared(Visited)[p]
       /\ setting.base = "fused" =>
            Buf[N + 1] - SumOf(Prepared(Visited)) \in Multiples
  /\ pc = "reencode" =>
       /\ setting.access \in Mutating
       /\ Overflow(setting.base) = 0 =>
            Buf = Transformed(setting.access, Prepared(Visited))

Roomy ==
  pc \in Loaded /\ ByIndex(setting.access) /\ (i > 1 \/ pc = "reencode") =>
    Classes <= Extent

TrappedFor ==
  \/ N < Classes /\ (ByIndex(setting.initial) \/ ByIndex(setting.access))
  \/ ByValue(setting.initial) /\ ~ Narrow
  \/ ByValue(setting.access)
     /\ \/ ~ Narrow
        \/ Overflow(setting.base) > 0
        \/ setting.initial \in {"SmoothAndShift", "ValueShift"}

TrappedForAReason == pc = "trapped" => TrappedFor

MinimumFound == known.min < 0 => known.min \in RasterValues

IInv == TypeOK /\ Fixed /\ Counting /\ MinimumFound /\ Placed /\ Cells /\ Handed
        /\ Roomy /\ TrappedForAReason

LEMMA InitIInv == Init => IInv
<1> SUFFICES ASSUME Init PROVE IInv
  OBVIOUS
<1> USE DEF Init
<1>1. Fixed
  <2>1. ASSUME NEW k \in BlockNumbers PROVE overrun[k] = Keep \/ overrun[k] \in Word
    <3>1. CASE setting.base = "padded"
      BY <3>1, SlotsAssumption
    <3>2. CASE setting.base # "padded"
      BY <3>2
    <3> QED
      BY <3>1, <3>2
  <2> QED
    BY <2>1 DEF Fixed
<1>2. Half - 1 \in Word /\ 0 \in Word
  BY HalfAssumption DEF Word
<1>3. NumReps \in Nat \ {0} /\ NumBlocks \in Nat \ {0}
  BY BoundsAssumption
<1>4. TypeOK
  <2>1. known \in [min : Word, initial : SUBSET Word, access : SUBSET Word]
    BY <1>2
  <2>2. rep \in 1 .. NumReps + 1 /\ i \in 1 .. NumBlocks + 1
    BY <1>3
  <2>3. grid = <<>> /\ decbuf = <<>> /\ direct \in BOOLEAN /\ sink \in Word
        /\ pc \in Stages \cup Ends
    BY <1>2 DEF Stages
  <2> QED
    BY <1>1, <2>1, <2>2, <2>3 DEF TypeOK, Fixed
<1>5. Counting /\ Placed /\ Cells /\ Handed /\ Roomy /\ TrappedForAReason
  BY <1>3 DEF Counting, Placed, Cells, Handed, Roomy, TrappedForAReason, Loaded
<1>6. MinimumFound
  <2>1. ~ (known.min < 0)
    BY HalfAssumption
  <2> QED
    BY <2>1 DEF MinimumFound
<1> QED
  BY <1>1, <1>4, <1>5, <1>6 DEF IInv

\* The input stays what it is, and the blocks prepared from it.
LEMMA SameInput ==
  ASSUME input' = input, Fixed
  PROVE  /\ Fixed' /\ setting' = setting /\ raster' = raster /\ order' = order
         /\ overrun' = overrun
         /\ N' = N /\ Extent' = Extent /\ Grids' = Grids
         /\ \A kind : Overflow(kind)' = Overflow(kind)
         /\ \A min, block : PreparedWith(min, block)' = PreparedWith(min, block)
         /\ \A min, block : ShiftedBy(min, block)' = ShiftedBy(min, block)
         /\ RasterValues' = RasterValues
         /\ TrappedFor' = TrappedFor
<1>1. setting' = setting /\ raster' = raster /\ order' = order /\ overrun' = overrun
  BY DEF input
<1>2. Fixed' /\ N' = N
  BY <1>1 DEF Fixed, N
<1>3. \A kind : Overflow(kind)' = Overflow(kind)
  BY DEF Overflow
<1>4. Extent' = Extent /\ Grids' = Grids
  BY <1>1, <1>2, <1>3 DEF Extent, Grids
<1>5. \A min, block : ShiftedBy(min, block)' = ShiftedBy(min, block)
  BY <1>1, <1>2 DEF ShiftedBy
<1>6. \A min, block : PreparedWith(min, block)' = PreparedWith(min, block)
  BY <1>1, <1>5 DEF PreparedWith, OrderedBy
<1>7. RasterValues' = RasterValues
  BY <1>1 DEF RasterValues
<1>8. TrappedFor' = TrappedFor
  BY <1>1, <1>2, <1>3, <1>7 DEF TrappedFor, Narrow
<1> QED
  BY <1>1, <1>2, <1>3, <1>4, <1>5, <1>6, <1>7, <1>8

(***************************************************************************)
(* The order of access visits no block twice.                              *)
(***************************************************************************)
LEMMA VisitedFacts ==
  ASSUME Fixed, i \in 1 .. NumBlocks
  PROVE  Visited \in BlockNumbers /\ Visited \notin Reached
<1>1. NumBlocks \in Nat /\ i \in BlockNumbers
  BY BoundsAssumption DEF BlockNumbers
<1>2. /\ order \in [BlockNumbers -> BlockNumbers]
      /\ \A j, k \in BlockNumbers : order[j] = order[k] => j = k
  BY DEF Fixed, Orders
<1>3. \A j \in 1 .. i - 1 : j \in BlockNumbers /\ j # i
  BY <1>1 DEF BlockNumbers
<1> QED
  BY <1>1, <1>2, <1>3 DEF Visited, Reached

LEMMA ReachedGrows ==
  ASSUME Fixed, i \in 1 .. NumBlocks, i' = i + 1, order' = order
  PROVE  Reached' = Reached \cup {Visited}
<1>1. NumBlocks \in Nat
  BY BoundsAssumption
<1>2. \A j : j \in 1 .. i' - 1 <=> j \in 1 .. i - 1 \/ j = i
  BY <1>1
<1> QED
  BY <1>2 DEF Reached, Visited

(***************************************************************************)
(* The vector the lambda works on.                                         *)
(***************************************************************************)
LEMMA BufType ==
  ASSUME IInv, pc \in {"transform", "reencode"}
  PROVE  Buf \in Vectors(Extent) /\ Len(Buf) = Extent
<1>1. /\ Fixed /\ grid \in Grids /\ decbuf \in Vectors(Extent)
      /\ direct = (setting.base = "direct")
      /\ i \in 1 .. NumBlocks
  BY DEF IInv, TypeOK, Placed, Loaded, Counting
<1>2. Visited \in BlockNumbers
  BY <1>1, VisitedFacts
<1>3. grid[Visited].data \in Vectors(N)
  BY <1>1, <1>2 DEF Grids
<1>4. direct => Extent = N
  BY <1>1, OverflowFacts, ExtentFacts
<1>5. Buf \in Vectors(Extent)
  BY <1>1, <1>3, <1>4 DEF Buf, Cell
<1> QED
  BY <1>1, <1>5, ExtentFacts, VectorFacts

-------------------------------------------------------------------------------
(***************************************************************************)
(* The steps that only stop, and those of the pass before the split.       *)
(***************************************************************************)
LEMMA StopStep ==
  ASSUME IInv, UNCHANGED <<input, found, rep, i, grid, decbuf, direct, sink, firstGrid>>,
         pc' \in Ends \ {"done"}, TrappedForAReason'
  PROVE  IInv'
<1>1. /\ Fixed' /\ setting' = setting /\ raster' = raster /\ N' = N
      /\ RasterValues' = RasterValues
      /\ \A kind : Overflow(kind)' = Overflow(kind)
  BY SameInput DEF IInv
<1>2. TypeOK'
  BY <1>1 DEF IInv, TypeOK, found
<1>3. Counting' /\ Placed' /\ Cells' /\ Handed' /\ Roomy'
  BY DEF Counting, Placed, Cells, Handed, Roomy, Loaded, Stages, Ends
<1>4. MinimumFound'
  BY <1>1 DEF IInv, MinimumFound, found
<1> QED
  BY <1>1, <1>2, <1>3, <1>4 DEF IInv

(***************************************************************************)
(* What the scan finds in a block, and the minimum with it.                *)
(***************************************************************************)
LEMMA ContentsFacts ==
  ASSUME Fixed, i \in 1 .. NumBlocks, NEW block \in Contents
  PROVE  /\ block = raster[i] \/ block = Zeros(N)
         /\ block \in Vectors(N) /\ ToSet(block) \in SUBSET Word /\ ToSet(block) # {}
         /\ block \in [1 .. N -> RasterValues \cup {0}]
<1>1. block = raster[i] \/ block = Zeros(N)
  BY DEF Contents
<1>2. i \in BlockNumbers /\ N \in Nat \ {0}
  BY SettingFacts DEF BlockNumbers
<1>3. raster[i] \in Vectors(N) /\ raster[i] \in [1 .. N -> RasterValues]
  BY <1>2, SettingFacts, RasterFacts
<1>4. Zeros(N) \in Vectors(N) /\ Zeros(N) \in [1 .. N -> {0}]
  BY <1>2, SmallWords DEF Zeros, Vectors
<1>5. block \in Vectors(N)
  BY <1>1, <1>3, <1>4
<1>6. block \in [1 .. N -> RasterValues \cup {0}]
  BY <1>1, <1>3, <1>4
<1> QED
  BY <1>1, <1>2, <1>5, <1>6, VectorFacts

LEMMA MinimumFacts ==
  ASSUME IInv, i \in 1 .. NumBlocks, NEW block \in Contents
  PROVE  /\ MinWith(block) \in Word
         /\ MinWith(block) < 0 => MinWith(block) \in RasterValues
<1> DEFINE S == {known.min} \cup ToSet(block)
<1>1. known.min \in Word /\ Fixed /\ (known.min < 0 => known.min \in RasterValues)
  BY DEF IInv, TypeOK, MinimumFound
<1>2. /\ ToSet(block) \in SUBSET Word
      /\ \A v \in ToSet(block) : v \in RasterValues \cup {0}
  <2>1. block \in [1 .. N -> RasterValues \cup {0}]
    BY <1>1, ContentsFacts
  <2> QED
    BY <1>1, <2>1, ContentsFacts DEF ToSet
<1>3. S \in SUBSET Word /\ S # {}
  BY <1>1, <1>2
<1>4. MinWith(block) \in S
  <2> HIDE DEF S
  <2>1. Min(S) \in S
    BY <1>3, LeastWord
  <2> QED
    BY <2>1 DEF MinWith, S
<1>5. ~ (0 < 0)
  OBVIOUS
<1> QED
  BY <1>1, <1>2, <1>3, <1>4, <1>5

(***************************************************************************)
(* The trap of a transformation: of the initial one, on an ordered block,  *)
(* and of the access transformation, on a prepared one.                    *)
(***************************************************************************)
LEMMA InitialTraps ==
  ASSUME Fixed, NEW min \in Word, min < 0 => min \in RasterValues,
         NEW block \in [1 .. N -> RasterValues \cup {0}], block \in Vectors(N),
         Traps(setting.initial, OrderedBy(min, block))
  PROVE  TrappedFor
<1>1. N \in Nat \ {0} /\ OrderedBy(min, block) \in Vectors(N)
  BY SettingFacts, PreparedType
<1>2. \/ ByIndex(setting.initial) /\ N < Classes
      \/ ByValue(setting.initial) /\ ~ Within(ToSet(OrderedBy(min, block)))
  BY <1>1, TrapsMean
<1>3. Narrow => Within(ToSet(OrderedBy(min, block)))
  BY PreparedWithin
<1> QED
  BY <1>2, <1>3 DEF TrappedFor

LEMMA AccessTraps ==
  ASSUME Fixed, NEW min \in Word, min < 0 => min \in RasterValues,
         NEW block \in [1 .. N -> RasterValues \cup {0}], block \in Vectors(N),
         Traps(setting.access, PreparedWith(min, block))
  PROVE  TrappedFor
<1>1. N \in Nat \ {0} /\ PreparedWith(min, block) \in Vectors(N)
  BY SettingFacts, PreparedType
<1>2. \/ ByIndex(setting.access) /\ N < Classes
      \/ ByValue(setting.access) /\ ~ Within(ToSet(PreparedWith(min, block)))
  BY <1>1, TrapsMean
<1>3. Narrow /\ setting.initial \notin Wrapping => Within(ToSet(PreparedWith(min, block)))
  BY PreparedWithin
<1> QED
  BY <1>2, <1>3 DEF TrappedFor, Wrapping

LEMMA BlockOfRaster ==
  ASSUME IInv, NEW k \in BlockNumbers
  PROVE  /\ Fixed /\ known.min \in Word /\ (known.min < 0 => known.min \in RasterValues)
         /\ raster[k] \in Vectors(N)
         /\ raster[k] \in [1 .. N -> RasterValues \cup {0}]
<1>1. Fixed /\ known.min \in Word /\ (known.min < 0 => known.min \in RasterValues)
  BY DEF IInv, TypeOK, MinimumFound
<1>2. raster[k] \in Vectors(N) /\ raster[k] \in [1 .. N -> RasterValues]
  BY <1>1, SettingFacts, RasterFacts
<1> QED
  BY <1>1, <1>2

LEMMA BufTraps ==
  ASSUME IInv, MutateTraps
  PROVE  TrappedFor
<1>1. /\ pc = "transform" /\ Traps(setting.access, Buf)
      /\ Fixed /\ i \in 1 .. NumBlocks
      /\ \A p \in 1 .. N : Buf[p] = Prepared(Visited)[p]
  BY DEF MutateTraps, IInv, TypeOK, Counting, Handed
<1>2. /\ Buf \in Vectors(Extent) /\ Visited \in BlockNumbers
      /\ N \in Nat \ {0} /\ Extent \in Nat /\ N <= Extent /\ Classes \in Nat
      /\ Overflow(setting.base) \in Nat
  BY <1>1, BufType, VisitedFacts, SettingFacts, ExtentFacts, OverflowFacts, SmallWords
<1>3. \/ ByIndex(setting.access) /\ Extent < Classes
      \/ ByValue(setting.access)
  BY <1>1, <1>2, TrapsMean
<1>4. CASE ByIndex(setting.access) /\ Extent < Classes
  BY <1>2, <1>4 DEF TrappedFor
<1>5. CASE ByValue(setting.access) /\ Overflow(setting.base) > 0
  BY <1>5 DEF TrappedFor
<1>6. CASE Overflow(setting.base) = 0
  <2>1. Prepared(Visited) \in Vectors(N)
    BY <1>2, BlockOfRaster, PreparedType DEF Prepared
  <2>2. Buf \in Vectors(N)
    BY <1>1, <1>2, <1>6, ExtentFacts
  <2>3. Buf = Prepared(Visited)
    BY <1>1, <2>1, <2>2, SameVector
  <2>4. Traps(setting.access, PreparedWith(known.min, raster[Visited]))
    BY <1>1, <2>3 DEF Prepared
  <2>5. /\ known.min \in Word /\ (known.min < 0 => known.min \in RasterValues)
        /\ raster[Visited] \in Vectors(N)
        /\ raster[Visited] \in [1 .. N -> RasterValues \cup {0}]
    BY <1>2, BlockOfRaster
  <2> QED
    BY <1>1, <2>4, <2>5, AccessTraps
<1> QED
  BY <1>2, <1>3, <1>4, <1>5, <1>6

\* The stop of the pass, given the block it meets.
ScanStop == pc = "scan" /\ \E block \in Contents : ScanStops(block)

LEMMA ScanStopTraps ==
  ASSUME IInv, ScanStop, pc' = "trapped"
  PROVE  TrappedFor
<1>1. PICK block \in Contents : ScanStops(block)
  BY DEF ScanStop
<1>2. ScanTraps(block) /\ Fixed /\ i \in 1 .. NumBlocks
  BY <1>1 DEF ScanStop, ScanStops, IInv, TypeOK, Counting
<1>3. /\ MinWith(block) \in Word
      /\ MinWith(block) < 0 => MinWith(block) \in RasterValues
      /\ block \in [1 .. N -> RasterValues \cup {0}] /\ block \in Vectors(N)
  BY <1>2, MinimumFacts, ContentsFacts
<1> QED
  BY <1>2, <1>3, InitialTraps, AccessTraps DEF ScanTraps

LEMMA StopSteps ==
  ASSUME IInv,
         ScanStop \/ SplitThrows \/ SplitTraps \/ SplitUnread \/ MutateTraps \/ ReencodeThrows
  PROVE  IInv'
<1>1. /\ Fixed
      /\ UNCHANGED <<input, found, rep, i, grid, decbuf, direct, sink, firstGrid>>
  BY DEF IInv, ScanStop, ScanStops, SplitThrows, SplitTraps, SplitUnread, MutateTraps,
         ReencodeThrows
<1>2. TrappedFor' = TrappedFor
  BY <1>1, SameInput
<1>3. pc' \in Ends \ {"done"}
  BY DEF ScanStop, ScanStops, SplitThrows, SplitTraps, SplitUnread, MutateTraps,
         ReencodeThrows, Ends
<1>4. TrappedForAReason'
  <2>1. CASE pc' = "trapped" /\ ScanStop
    BY <1>2, <2>1, ScanStopTraps DEF TrappedForAReason
  <2>2. CASE SplitTraps
    <3>1. PICK k \in BlockNumbers : BlockTraps(k)
      BY <2>2 DEF SplitTraps
    <3> QED
      BY <1>2, <3>1, BlockOfRaster, InitialTraps DEF TrappedForAReason, BlockTraps
  <2>3. CASE MutateTraps
    BY <1>2, <2>3, BufTraps DEF TrappedForAReason
  <2>4. CASE pc' # "trapped"
    BY <2>4 DEF TrappedForAReason
  <2> QED
    BY <2>1, <2>2, <2>3, <2>4 DEF SplitThrows, SplitUnread, ReencodeThrows
<1> QED
  BY <1>1, <1>3, <1>4, StopStep

LEMMA CollectedType ==
  ASSUME Fixed, known \in [min : Word, initial : SUBSET Word, access : SUBSET Word],
         NEW block \in Vectors(N), MinWith(block) \in Word
  PROVE  Collected(block) \in [min : Word, initial : SUBSET Word, access : SUBSET Word]
<1> DEFINE scanned == PreparedWith(MinWith(block), block)
<1>1. scanned \in Vectors(N)
  BY PreparedType
<1>2. Collected(block) = [min |-> MinWith(block), initial |-> known.initial \cup ToSet(scanned),
                          access |-> known.access \cup ToSet(AfterAccess(scanned))]
  BY DEF Collected
<1> HIDE DEF scanned
<1>3. AfterAccess(scanned) \in Vectors(N) /\ N \in Nat
  BY <1>1, AfterAccessType, SettingFacts
<1>4. ToSet(scanned) \in SUBSET Word /\ ToSet(AfterAccess(scanned)) \in SUBSET Word
  BY <1>1, <1>3, VectorFacts
<1> QED
  BY <1>2, <1>4

LEMMA ScanStep ==
  ASSUME IInv, NEW block \in Contents, Scan(block)
  PROVE  IInv'
<1>1. /\ pc = "scan" /\ i' = i + 1
      /\ missed' = IF block = raster[i] THEN missed ELSE missed \cup {i}
      /\ pc' = IF i = NumBlocks THEN "split" ELSE "scan"
      /\ UNCHANGED <<input, rep, grid, decbuf, direct, sink, firstGrid>>
  BY DEF Scan
<1>2. /\ Fixed /\ i \in 1 .. NumBlocks /\ rep <= NumReps /\ NumBlocks \in Nat
      /\ known \in [min : Word, initial : SUBSET Word, access : SUBSET Word]
      /\ missed \subseteq BlockNumbers
  BY <1>1, BoundsAssumption DEF IInv, TypeOK, Counting, Stages
<1>3. /\ Fixed' /\ setting' = setting /\ raster' = raster /\ N' = N
      /\ RasterValues' = RasterValues
      /\ \A kind : Overflow(kind)' = Overflow(kind)
  BY <1>1, <1>2, SameInput
<1>4. /\ known' \in [min : Word, initial : SUBSET Word, access : SUBSET Word]
      /\ MinimumFound'
  <2>1. /\ MinWith(block) \in Word
        /\ MinWith(block) < 0 => MinWith(block) \in RasterValues
        /\ block \in Vectors(N)
    BY <1>2, MinimumFacts, ContentsFacts
  <2>2. known' = IF Collects THEN Collected(block) ELSE [known EXCEPT !.min = MinWith(block)]
    BY DEF Scan
  <2>3. Collected(block) \in [min : Word, initial : SUBSET Word, access : SUBSET Word]
    BY <1>2, <2>1, CollectedType
  <2>4. Collected(block).min = MinWith(block)
    BY DEF Collected
  <2>5. known' \in [min : Word, initial : SUBSET Word, access : SUBSET Word]
    BY <1>2, <2>1, <2>2, <2>3
  <2>6. known'.min = MinWith(block)
    BY <1>2, <2>2, <2>4
  <2> QED
    BY <1>3, <2>1, <2>5, <2>6 DEF MinimumFound
<1>5. TypeOK'
  <2>1. i' \in 1 .. NumBlocks + 1 /\ pc' \in Stages
    BY <1>1, <1>2 DEF Stages
  <2>2. missed' \subseteq BlockNumbers
    BY <1>1, <1>2 DEF BlockNumbers
  <2> QED
    BY <1>1, <1>3, <1>4, <2>1, <2>2 DEF IInv, TypeOK
<1>6. Counting'
  BY <1>1, <1>2 DEF Counting
<1>7. Placed' /\ Cells' /\ Handed' /\ Roomy' /\ TrappedForAReason'
  BY <1>1 DEF Placed, Cells, Handed, Roomy, TrappedForAReason, Loaded
<1> QED
  BY <1>3, <1>4, <1>5, <1>6, <1>7 DEF IInv

-------------------------------------------------------------------------------
(***************************************************************************)
(* The split and the visits.                                               *)
(***************************************************************************)
LEMMA SameMinimum ==
  ASSUME IInv, input' = input, found' = found
  PROVE  MinimumFound'
<1>1. RasterValues' = RasterValues /\ known' = known
  BY SameInput DEF IInv, found
<1> QED
  BY <1>1 DEF IInv, MinimumFound

LEMMA SplitStep ==
  ASSUME IInv, Split
  PROVE  IInv'
<1>1. /\ pc = "split" /\ pc' = "visit" /\ i' = 1
      /\ ~ OrderingThrows(setting.ordering, setting.side) /\ AllEncoded(BlockNumbers)
      /\ grid' = [k \in BlockNumbers |-> [kind |-> setting.base, data |-> Prepared(k)]]
      /\ direct' = (setting.base = "direct")
      /\ decbuf' = Zeros(Extent)
      /\ UNCHANGED <<input, found, rep, sink, firstGrid>>
  BY DEF Split, SplitReturns, Extent
<1>2. /\ Fixed /\ rep <= NumReps /\ NumBlocks \in Nat \ {0}
      /\ known.min \in Word
  BY <1>1, BoundsAssumption DEF IInv, TypeOK, found, Counting, Stages
<1>3. /\ Fixed' /\ setting' = setting /\ raster' = raster /\ order' = order
      /\ N' = N /\ Extent' = Extent /\ Grids' = Grids
      /\ \A kind : Overflow(kind)' = Overflow(kind)
      /\ \A min, block : PreparedWith(min, block)' = PreparedWith(min, block)
  BY <1>1, <1>2, SameInput
<1>4. \A k \in BlockNumbers : Prepared(k) \in Vectors(N) /\ Prepared(k)' = Prepared(k)
  <2>1. \A k \in BlockNumbers : Prepared(k) \in Vectors(N)
    BY <1>2, BlockOfRaster, PreparedType DEF Prepared
  <2>2. \A k : Prepared(k)' = Prepared(k)
    BY <1>1, <1>3 DEF Prepared, found
  <2> QED
    BY <2>1, <2>2
<1>5. grid' \in Grids
  BY <1>1, <1>2, <1>4, SettingFacts DEF Grids
<1>6. decbuf' \in Vectors(Extent)
  BY <1>1, SmallWords DEF Zeros, Vectors
<1>7. TypeOK'
  <2>1. i' \in 1 .. NumBlocks + 1 /\ pc' \in Stages /\ direct' \in BOOLEAN
    BY <1>1, <1>2 DEF Stages
  <2>2. (grid \in Grids)' /\ (decbuf \in Vectors(Extent))'
    BY <1>3, <1>5, <1>6
  <2> QED
    BY <1>1, <1>3, <2>1, <2>2 DEF IInv, TypeOK, found, Grids, Vectors, Extent
<1>8. Counting' /\ Placed'
  <2>1. 1 \in BlockNumbers
    BY <1>2 DEF BlockNumbers
  <2>2. ~ Traps(setting.initial, OrderedBy(known.min, raster[1]))
    BY <1>1, <2>1 DEF AllEncoded, BlockTraps
  <2>3. OrderedBy(known.min, raster[1]) \in Vectors(N) /\ N \in Nat \ {0}
    BY <1>2, <2>1, BlockOfRaster, PreparedType, SettingFacts
  <2>4. ByIndex(setting.initial) => Classes <= N
    BY <2>2, <2>3, EnoughForClasses
  <2> QED
    BY <1>1, <1>2, <1>3, <1>5, <1>6, <2>4 DEF Counting, Placed, ByIndex
<1>9. Cells'
  <2>1. Reached' = {}
    BY <1>1 DEF Reached
  <2>2. ASSUME NEW k \in BlockNumbers PROVE AtHead(k)'
    <3>1. grid'[k] = [kind |-> setting.base, data |-> Prepared(k)] /\ Prepared(k)' = Prepared(k)
      BY <1>1, <1>4
    <3> QED
      BY <1>3, <2>1, <3>1 DEF AtHead
  <2> QED
    BY <2>2 DEF Cells
<1>10. Handed' /\ Roomy' /\ TrappedForAReason'
  BY <1>1 DEF Handed, Roomy, TrappedForAReason
<1> QED
  BY <1>1, <1>3, <1>7, <1>8, <1>9, <1>10, SameMinimum DEF IInv

\* What holds whenever a block is visited.
LEMMA VisitFacts ==
  ASSUME IInv, pc \in Loaded, i <= NumBlocks
  PROVE  /\ Fixed /\ i \in 1 .. NumBlocks /\ NumBlocks \in Nat
         /\ Visited \in BlockNumbers /\ Visited \notin Reached
         /\ grid \in Grids /\ grid[Visited].data \in Vectors(N)
         /\ decbuf \in Vectors(Extent)
         /\ direct = (setting.base = "direct")
         /\ \A k \in BlockNumbers : Prepared(k) \in Vectors(N)
         /\ pc # "reencode" =>
              grid[Visited] = [kind |-> setting.base, data |-> Prepared(Visited)]
<1>1. /\ Fixed /\ i \in 1 .. NumBlocks /\ grid \in Grids
      /\ decbuf \in Vectors(Extent) /\ direct = (setting.base = "direct")
  BY DEF IInv, TypeOK, found, Placed
<1>2. Visited \in BlockNumbers /\ Visited \notin Reached
  BY <1>1, VisitedFacts
<1>3. \A k \in BlockNumbers : Prepared(k) \in Vectors(N)
  BY BlockOfRaster, PreparedType DEF Prepared
<1>4. pc # "reencode" =>
        grid[Visited] = [kind |-> setting.base, data |-> Prepared(Visited)]
  BY <1>2 DEF IInv, Cells, AtHead
<1>5. grid[Visited].data \in Vectors(N)
  BY <1>1, <1>2 DEF Grids
<1> QED
  BY <1>1, <1>2, <1>3, <1>4, <1>5, BoundsAssumption

LEMMA DecodeStep ==
  ASSUME IInv, Decode
  PROVE  IInv'
<1>1. /\ pc = "visit" /\ pc' = "transform" /\ i <= NumBlocks
      /\ decbuf' = IF direct THEN decbuf ELSE Decoded(Cell, decbuf, overrun[Visited])
      /\ UNCHANGED <<input, found, rep, i, grid, direct, sink, firstGrid>>
  BY DEF Decode
<1>2. /\ Fixed /\ i \in 1 .. NumBlocks /\ NumBlocks \in Nat
      /\ Visited \in BlockNumbers /\ Visited \notin Reached
      /\ grid \in Grids /\ decbuf \in Vectors(Extent)
      /\ direct = (setting.base = "direct")
      /\ Prepared(Visited) \in Vectors(N)
      /\ grid[Visited] = [kind |-> setting.base, data |-> Prepared(Visited)]
  BY <1>1, VisitFacts DEF Loaded
<1>3. /\ Fixed' /\ setting' = setting /\ raster' = raster /\ order' = order
      /\ N' = N /\ Extent' = Extent /\ Grids' = Grids
      /\ \A kind : Overflow(kind)' = Overflow(kind)
      /\ \A min, block : PreparedWith(min, block)' = PreparedWith(min, block)
  BY <1>1, <1>2, SameInput
<1>4. /\ \A k : Prepared(k)' = Prepared(k)
      /\ Visited' = Visited /\ Reached' = Reached
  BY <1>1, <1>3 DEF Prepared, found, Visited, Reached
<1>5. ASSUME ~ direct
      PROVE  /\ decbuf' \in Vectors(Extent)
             /\ \A p \in 1 .. N : decbuf'[p] = Prepared(Visited)[p]
             /\ setting.base = "fused" =>
                  decbuf'[N + 1] - SumOf(Prepared(Visited)) \in Multiples
  <2>1. Cell.kind = setting.base /\ Cell.data = Prepared(Visited)
    BY <1>2 DEF Cell
  <2>2. overrun[Visited] = Keep \/ overrun[Visited] \in Word
    BY <1>2 DEF Fixed
  <2> DEFINE cell == Cell
             fill == overrun[Visited]
             block == Prepared(Visited)
             after == Decoded(cell, decbuf, fill)
  <2>3. /\ cell.kind = setting.base /\ setting.base # "direct" /\ cell.data = block
        /\ cell.data \in Vectors(N)
        /\ fill = Keep \/ fill \in Word
        /\ decbuf' = after
    BY <1>1, <1>2, <1>5, <2>1, <2>2
  <2> HIDE DEF cell, fill, block
  <2>4. /\ after \in Vectors(Extent)
        /\ \A p \in 1 .. N : after[p] = cell.data[p]
        /\ setting.base = "fused" => after[N + 1] - SumOf(cell.data) \in Multiples
    BY <1>2, <2>3, DecodedFacts
  <2> HIDE DEF after
  <2> QED
    BY <2>3, <2>4 DEF block
<1>6. decbuf' \in Vectors(Extent)
  BY <1>1, <1>2, <1>5
<1>7. TypeOK'
  <2>1. pc' \in Stages
    BY <1>1 DEF Stages
  <2>2. (decbuf \in Vectors(Extent))'
    BY <1>3, <1>6
  <2> QED
    BY <1>1, <1>3, <2>1, <2>2 DEF IInv, TypeOK, found, Vectors, Extent
<1>8. Counting' /\ Placed'
  BY <1>1, <1>2, <1>3, <1>6 DEF IInv, Counting, Placed, Loaded, Stages
<1>9. Cells'
  <2>1. \A k \in BlockNumbers : AtHead(k)
    BY <1>1 DEF IInv, Cells, Loaded
  <2>2. \A k \in BlockNumbers : AtHead(k)'
    BY <1>1, <1>3, <1>4, <2>1 DEF AtHead
  <2> QED
    BY <2>2 DEF Cells
<1>10. Handed'
  <2>1. Buf' = IF direct THEN grid[Visited].data ELSE decbuf'
    BY <1>1, <1>4 DEF Buf, Cell
  <2>2. \A p \in 1 .. N : Buf'[p] = Prepared(Visited)[p]
    BY <1>2, <1>5, <2>1
  <2>3. setting.base = "fused" => Buf'[N + 1] - SumOf(Prepared(Visited)) \in Multiples
    BY <1>2, <1>5, <2>1
  <2>4. Prepared(Visited)' = Prepared(Visited)
    BY <1>3, <1>4, <1>1 DEF Prepared, found
  <2> QED
    BY <1>1, <1>3, <2>2, <2>3, <2>4 DEF Handed
<1>11. Roomy' /\ TrappedForAReason'
  BY <1>1, <1>3 DEF IInv, Roomy, TrappedForAReason, Loaded
<1> QED
  BY <1>1, <1>3, <1>7, <1>8, <1>9, <1>10, <1>11, SameMinimum DEF IInv

LEMMA MutateStep ==
  ASSUME IInv, Mutate
  PROVE  IInv'
<1> DEFINE after == Transformed(setting.access, Buf)
<1>1. /\ pc = "transform" /\ pc' = "reencode" /\ setting.access \in Mutating
      /\ ~ Traps(setting.access, Buf)
      /\ decbuf' = IF direct THEN decbuf ELSE after
      /\ grid' = IF direct THEN [grid EXCEPT ![Visited].data = after] ELSE grid
      /\ UNCHANGED <<input, found, rep, i, direct, sink, firstGrid>>
  BY DEF Mutate
<1>2. /\ Fixed /\ i \in 1 .. NumBlocks /\ NumBlocks \in Nat
      /\ Visited \in BlockNumbers /\ Visited \notin Reached
      /\ grid \in Grids /\ decbuf \in Vectors(Extent)
      /\ direct = (setting.base = "direct")
      /\ Prepared(Visited) \in Vectors(N)
  <2>1. pc \in Loaded /\ i <= NumBlocks
    BY <1>1 DEF IInv, Counting, Loaded
  <2> QED
    BY <2>1, VisitFacts
<1>3. /\ Fixed' /\ setting' = setting /\ raster' = raster /\ order' = order
      /\ N' = N /\ Extent' = Extent /\ Grids' = Grids
      /\ \A kind : Overflow(kind)' = Overflow(kind)
      /\ \A min, block : PreparedWith(min, block)' = PreparedWith(min, block)
  BY <1>1, <1>2, SameInput
<1>4. /\ \A k : Prepared(k)' = Prepared(k)
      /\ Visited' = Visited /\ Reached' = Reached
  BY <1>1, <1>3 DEF Prepared, found, Visited, Reached
<1>5. /\ Buf \in Vectors(Extent) /\ Len(Buf) = Extent /\ Extent \in Nat
      /\ ByIndex(setting.access) => Classes <= Extent
  <2>1. Buf \in Vectors(Extent) /\ Len(Buf) = Extent
    BY <1>1, BufType
  <2>2. Extent \in Nat \ {0}
    BY <1>2, ExtentFacts, SettingFacts
  <2> QED
    BY <1>1, <2>1, <2>2, EnoughForClasses
<1>6. after \in Vectors(Extent)
  BY <1>1, <1>5, TransformedType
<1>7. direct => Extent = N
  BY <1>2, OverflowFacts, ExtentFacts
<1> HIDE DEF after
<1>8. grid' \in Grids
  <2>1. CASE direct
    <3>1. after \in Vectors(N)
      BY <1>6, <1>7, <2>1
    <3>2. grid' = [grid EXCEPT ![Visited].data = after]
      BY <1>1, <2>1
    <3> QED
      BY <1>2, <3>1, <3>2 DEF Grids
  <2>2. CASE ~ direct
    BY <1>1, <1>2, <2>2
  <2> QED
    BY <2>1, <2>2
<1>9. decbuf' \in Vectors(Extent)
  BY <1>1, <1>2, <1>6
<1>10. \A k \in BlockNumbers : k # Visited => grid'[k] = grid[k]
  BY <1>1, <1>2 DEF Grids
<1>11. TypeOK'
  <2>1. pc' \in Stages
    BY <1>1 DEF Stages
  <2>2. (decbuf \in Vectors(Extent))' /\ (grid \in Grids)'
    BY <1>3, <1>8, <1>9
  <2> QED
    BY <1>1, <1>3, <2>1, <2>2 DEF IInv, TypeOK, found, Vectors, Extent, Grids
<1>12. Counting' /\ Placed'
  BY <1>1, <1>2, <1>3, <1>8, <1>9 DEF IInv, Counting, Placed, Loaded, Stages
<1>13. Cells'
  <2>1. \A k \in BlockNumbers : AtHead(k)
    BY <1>1 DEF IInv, Cells, Loaded
  <2>2. ASSUME NEW k \in BlockNumbers, k # Visited PROVE AtHead(k)'
    <3>1. AtHead(k) /\ grid'[k] = grid[k]
      BY <1>10, <2>1, <2>2
    <3> QED
      BY <1>3, <1>4, <3>1 DEF AtHead
  <2> QED
    BY <1>1, <1>4, <2>2 DEF Cells
<1>14. Handed'
  <2>1. Buf' = after
    <3>1. CASE direct
      <4>1. grid' = [grid EXCEPT ![Visited].data = after] /\ direct'
        BY <1>1, <3>1
      <4>2. grid'[Visited].data = after
        BY <1>2, <4>1 DEF Grids
      <4> QED
        BY <1>4, <4>1, <4>2 DEF Buf, Cell
    <3>2. CASE ~ direct
      BY <1>1, <3>2 DEF Buf
    <3> QED
      BY <3>1, <3>2
  <2>2. Overflow(setting.base) = 0 => Buf = Prepared(Visited)
    <3> SUFFICES ASSUME Overflow(setting.base) = 0 PROVE Buf = Prepared(Visited)
      OBVIOUS
    <3>1. Extent = N
      BY <1>2, ExtentFacts
    <3>2. \A p \in 1 .. N : Buf[p] = Prepared(Visited)[p]
      BY <1>1 DEF IInv, Handed
    <3> QED
      BY <1>2, <1>5, <3>1, <3>2, SameVector
  <2>3. Overflow(setting.base) = 0 => after = Transformed(setting.access, Prepared(Visited))
    BY <2>2 DEF after
  <2>4. Prepared(Visited)' = Prepared(Visited)
    BY <1>1, <1>3, <1>4 DEF Prepared, found
  <2> QED
    BY <1>1, <1>3, <2>1, <2>3, <2>4 DEF Handed
<1>15. Roomy' /\ TrappedForAReason'
  BY <1>1, <1>3, <1>5 DEF IInv, Roomy, TrappedForAReason, Loaded
<1> QED
  BY <1>1, <1>3, <1>11, <1>12, <1>13, <1>14, <1>15, SameMinimum DEF IInv

LEMMA SinkType ==
  ASSUME IInv, pc = "transform",
         NEW sums \in {{SimdSum(Buf)}, FusedSums, NamedSums}, NEW sum \in sums
  PROVE  sum \in Word
<1>1. Buf \in Vectors(Extent) /\ Len(Buf) = Extent
  BY BufType
<1>2. N \in Nat /\ Extent \in Nat /\ N <= Extent /\ Fixed
  BY SettingFacts, ExtentFacts DEF IInv
<1>3. SimdSum(Buf) \in Word
  <2> DEFINE block == [p \in 1 .. N |-> Buf[p]]
  <2>1. block \in Vectors(N) /\ \A p \in 1 .. N : Buf[p] = block[p]
    BY <1>1, <1>2 DEF Vectors
  <2> HIDE DEF block
  <2> QED
    BY <1>1, <1>2, <2>1, SimdSumFacts
<1>4. FusedSums \subseteq Word
  <2>1. CASE Len(Buf) > N
    <3>1. N + 1 \in 1 .. Extent
      BY <1>1, <1>2, <2>1
    <3> QED
      BY <1>1, <2>1, <3>1 DEF FusedSums, Vectors
  <2>2. CASE ~ (Len(Buf) > N)
    BY <2>2 DEF FusedSums
  <2> QED
    BY <2>1, <2>2
<1>5. RunningSum \in Word
  BY <1>3, WrapOfTwo DEF IInv, TypeOK, RunningSum
<1> QED
  BY <1>3, <1>4, <1>5 DEF NamedSums

LEMMA ReadStep ==
  ASSUME IInv, Read
  PROVE  IInv'
<1>1. /\ pc = "transform" /\ pc' = "visit" /\ setting.access \in ReadOnly
      /\ i' = i + 1
      /\ UNCHANGED <<input, found, rep, grid, decbuf, direct, firstGrid>>
  BY DEF Read
<1>2. /\ Fixed /\ i \in 1 .. NumBlocks /\ NumBlocks \in Nat
      /\ grid \in Grids /\ decbuf \in Vectors(Extent)
      /\ direct = (setting.base = "direct")
  <2>1. pc \in Loaded /\ i <= NumBlocks
    BY <1>1 DEF IInv, Counting, Loaded
  <2> QED
    BY <2>1, VisitFacts
<1>3. /\ Fixed' /\ setting' = setting /\ raster' = raster /\ order' = order
      /\ N' = N /\ Extent' = Extent /\ Grids' = Grids
      /\ \A kind : Overflow(kind)' = Overflow(kind)
      /\ \A min, block : PreparedWith(min, block)' = PreparedWith(min, block)
  BY <1>1, <1>2, SameInput
<1>4. \A k : Prepared(k)' = Prepared(k)
  BY <1>1, <1>3 DEF Prepared, found
<1>5. sink' \in Word
  <2>1. \/ sink' = sink
        \/ sink' \in {SimdSum(Buf)}
        \/ sink' \in FusedSums
        \/ sink' \in NamedSums
    <3>1. \/ setting.access = "Scan"           /\ sink' \in {sink}
          \/ setting.access = "LinearSumSimd"  /\ sink' \in {SimdSum(Buf)}
          \/ setting.access = "LinearSumFused" /\ sink' \in FusedSums
          \/ setting.access = "LinearSum"      /\ sink' \in NamedSums
      BY <1>1 DEF Read, ReadOnly
    <3> QED
      BY <3>1
  <2> QED
    BY <1>1, <2>1, SinkType DEF IInv, TypeOK, found
<1>6. TypeOK'
  <2>1. pc' \in Stages /\ i' \in 1 .. NumBlocks + 1
    BY <1>1, <1>2 DEF Stages
  <2>2. (decbuf \in Vectors(Extent))' /\ (grid \in Grids)'
    BY <1>1, <1>2, <1>3
  <2> QED
    BY <1>1, <1>3, <1>5, <2>1, <2>2 DEF IInv, TypeOK, found, Vectors, Extent, Grids
<1>7. Counting' /\ Placed'
  BY <1>1, <1>2, <1>3 DEF IInv, Counting, Placed, Loaded, Stages
<1>8. Cells'
  <2>1. \A k \in BlockNumbers : AtHead(k)
    BY <1>1 DEF IInv, Cells, Loaded
  <2>2. setting.access \notin Mutating
    BY <1>1, AccessFacts
  <2>3. \A k \in BlockNumbers : AtHead(k)'
    BY <1>1, <1>3, <1>4, <2>1, <2>2 DEF AtHead
  <2> QED
    BY <2>3 DEF Cells
<1>9. Handed' /\ Roomy' /\ TrappedForAReason'
  BY <1>1, <1>3, AccessFacts DEF Handed, Roomy, TrappedForAReason
<1> QED
  BY <1>1, <1>3, <1>6, <1>7, <1>8, <1>9, SameMinimum DEF IInv

\* What is encoded again is the first N values of the vector.
LEMMA ToEncodeFacts ==
  ASSUME IInv, pc = "reencode"
  PROVE  /\ ToEncode \in Vectors(N)
         /\ Overflow(setting.base) = 0 =>
              ToEncode = Transformed(setting.access, Prepared(Visited))
<1>1. Buf \in Vectors(Extent)
  BY BufType
<1>2. N \in Nat /\ Extent \in Nat /\ N <= Extent /\ Fixed
  BY SettingFacts, ExtentFacts DEF IInv
<1>3. /\ ToEncode \in Seq(Word) /\ Len(ToEncode) = N
      /\ \A p \in 1 .. N : ToEncode[p] = Buf[p]
  <2>1. \A p \in 1 .. N : Buf[p] \in Word
    BY <1>1, <1>2 DEF Vectors
  <2> DEFINE one == 1
             n == N
  <2>2. one \in Int /\ n \in Int /\ \A p \in one .. n : Buf[p] \in Word
    BY <1>2, <2>1
  <2> HIDE DEF one, n
  <2>3. /\ SubSeq(Buf, one, n) \in Seq(Word)
        /\ Len(SubSeq(Buf, one, n)) = IF one <= n THEN n - one + 1 ELSE 0
        /\ \A p \in 1 .. n - one + 1 : SubSeq(Buf, one, n)[p] = Buf[one + p - 1]
    BY <2>2, SubSeqProperties
  <2> DEFINE sub == SubSeq(Buf, one, n)
  <2>4. /\ sub \in Seq(Word)
        /\ Len(sub) = IF one <= n THEN n - one + 1 ELSE 0
        /\ \A p \in 1 .. n - one + 1 : sub[p] = Buf[one + p - 1]
    BY <2>3
  <2>5. ToEncode = sub
    BY DEF ToEncode, one, n
  <2>6. one = 1 /\ n = N
    BY DEF one, n
  <2> HIDE DEF sub
  <2> QED
    BY <1>2, <2>4, <2>5, <2>6
<1>4. ToEncode \in Vectors(N)
  BY <1>2, <1>3 DEF Vectors
<1>5. ASSUME Overflow(setting.base) = 0
      PROVE  ToEncode = Transformed(setting.access, Prepared(Visited))
  <2>1. Extent = N /\ Buf = Transformed(setting.access, Prepared(Visited))
    BY <1>2, <1>5, ExtentFacts DEF IInv, Handed
  <2>2. ToEncode = Buf
    BY <1>1, <1>3, <1>4, <2>1, SameVector
  <2> QED
    BY <2>1, <2>2
<1> QED
  BY <1>4, <1>5

LEMMA ReencodeStep ==
  ASSUME IInv, Reencode
  PROVE  IInv'
<1>1. /\ pc = "reencode" /\ pc' = "visit" /\ i' = i + 1
      /\ grid' = [grid EXCEPT ![Visited] = [kind |-> setting.again, data |-> ToEncode]]
      /\ UNCHANGED <<input, found, rep, decbuf, direct, sink, firstGrid>>
  BY DEF Reencode
<1>2. /\ Fixed /\ i \in 1 .. NumBlocks /\ NumBlocks \in Nat
      /\ Visited \in BlockNumbers /\ Visited \notin Reached
      /\ grid \in Grids /\ decbuf \in Vectors(Extent)
      /\ direct = (setting.base = "direct")
  <2>1. pc \in Loaded /\ i <= NumBlocks
    BY <1>1 DEF IInv, Counting, Loaded
  <2> QED
    BY <2>1, VisitFacts
<1>3. /\ Fixed' /\ setting' = setting /\ raster' = raster /\ order' = order
      /\ N' = N /\ Extent' = Extent /\ Grids' = Grids
      /\ \A kind : Overflow(kind)' = Overflow(kind)
      /\ \A min, block : PreparedWith(min, block)' = PreparedWith(min, block)
  BY <1>1, <1>2, SameInput
<1>4. /\ \A k : Prepared(k)' = Prepared(k)
      /\ Reached' = Reached \cup {Visited}
  BY <1>1, <1>2, <1>3, ReachedGrows DEF Prepared, found
<1>5. /\ setting.access \in Mutating /\ setting.access \notin ReadOnly
      /\ ByIndex(setting.access) => Classes <= Extent
  BY <1>1, AccessFacts DEF IInv, Handed, Roomy, Loaded
<1>6. /\ ToEncode \in Vectors(N)
      /\ Overflow(setting.base) = 0 =>
           ToEncode = Transformed(setting.access, Prepared(Visited))
  BY <1>1, ToEncodeFacts
<1>7. /\ grid'[Visited] = [kind |-> setting.again, data |-> ToEncode]
      /\ \A k \in BlockNumbers : k # Visited => grid'[k] = grid[k]
  BY <1>1, <1>2 DEF Grids
<1>8. grid' \in Grids
  BY <1>1, <1>2, <1>6, SettingFacts DEF Grids
<1>9. TypeOK'
  <2>1. pc' \in Stages /\ i' \in 1 .. NumBlocks + 1
    BY <1>1, <1>2 DEF Stages
  <2>2. (decbuf \in Vectors(Extent))' /\ (grid \in Grids)'
    BY <1>1, <1>2, <1>3, <1>8
  <2> QED
    BY <1>1, <1>3, <2>1, <2>2 DEF IInv, TypeOK, found, Vectors, Extent, Grids
<1>10. Counting' /\ Placed'
  BY <1>1, <1>2, <1>3, <1>8 DEF IInv, Counting, Placed, Loaded, Stages
<1>11. Cells'
  <2>1. \A k \in BlockNumbers : k # Visited => AtHead(k)
    BY <1>1 DEF IInv, Cells, Loaded
  <2>2. ASSUME NEW k \in BlockNumbers, k # Visited PROVE AtHead(k)'
    <3>1. AtHead(k) /\ grid'[k] = grid[k] /\ (k \in Reached' <=> k \in Reached)
      BY <1>4, <1>7, <2>1, <2>2
    <3> QED
      BY <1>3, <1>4, <3>1 DEF AtHead
  <2>3. ASSUME NEW k \in BlockNumbers, k = Visited PROVE AtHead(k)'
    <3>1. k \in Reached' /\ Prepared(k)' = Prepared(k)
      BY <1>4, <2>3
    <3>2. /\ grid'[k].kind = setting.again /\ grid'[k].data = ToEncode
      BY <1>7, <2>3
    <3>3. Overflow(setting.base) = 0 =>
            ToEncode = Transformed(setting.access, Prepared(k))
      BY <1>6, <2>3
    <3> QED
      BY <1>3, <1>5, <3>1, <3>2, <3>3 DEF AtHead
  <2> QED
    BY <2>2, <2>3 DEF Cells
<1>12. Handed' /\ Roomy' /\ TrappedForAReason'
  BY <1>1, <1>3, <1>5 DEF Handed, Roomy, TrappedForAReason
<1> QED
  BY <1>1, <1>3, <1>9, <1>10, <1>11, <1>12, SameMinimum DEF IInv

LEMMA NextRepStep ==
  ASSUME IInv, NextRep
  PROVE  IInv'
<1>1. /\ pc = "visit" /\ i = NumBlocks + 1 /\ rep' = rep + 1
      /\ pc' = IF rep = NumReps THEN "done" ELSE "split"
      /\ UNCHANGED <<input, found, i, grid, decbuf, direct, sink>>
  BY DEF NextRep
<1>2. /\ Fixed /\ rep \in 1 .. NumReps /\ NumReps \in Nat /\ NumBlocks \in Nat
      /\ grid \in Grids /\ decbuf \in Vectors(Extent)
  BY <1>1, BoundsAssumption DEF IInv, TypeOK, found, Counting, Placed, Loaded, Stages
<1>3. /\ Fixed' /\ setting' = setting /\ raster' = raster /\ order' = order
      /\ N' = N /\ Extent' = Extent /\ Grids' = Grids
      /\ \A kind : Overflow(kind)' = Overflow(kind)
      /\ \A min, block : PreparedWith(min, block)' = PreparedWith(min, block)
  BY <1>1, <1>2, SameInput
<1>4. /\ \A k : Prepared(k)' = Prepared(k) /\ Reached' = Reached
  BY <1>1, <1>3 DEF Prepared, found, Reached
<1>5. TypeOK'
  <2>1. pc' \in Stages \cup Ends /\ rep' \in 1 .. NumReps + 1
    BY <1>1, <1>2 DEF Stages, Ends
  <2>2. (decbuf \in Vectors(Extent))' /\ (grid \in Grids)'
    BY <1>1, <1>2, <1>3
  <2> QED
    BY <1>1, <1>3, <2>1, <2>2 DEF IInv, TypeOK, found, Vectors, Extent, Grids
<1>6. Counting'
  BY <1>1, <1>2 DEF IInv, Counting, Stages
<1>7. Placed'
  BY <1>1, <1>2, <1>3 DEF IInv, Placed, Loaded
<1>8. Cells'
  <2>1. \A k \in BlockNumbers : AtHead(k)
    BY <1>1 DEF IInv, Cells, Loaded
  <2>2. \A k \in BlockNumbers : AtHead(k)'
    BY <1>1, <1>3, <1>4, <2>1 DEF AtHead
  <2> QED
    BY <2>2 DEF Cells
<1>9. Handed' /\ Roomy' /\ TrappedForAReason'
  BY <1>1, <1>3 DEF IInv, Handed, Roomy, TrappedForAReason, Loaded
<1> QED
  BY <1>1, <1>3, <1>5, <1>6, <1>7, <1>8, <1>9, SameMinimum DEF IInv

LEMMA StutterStep ==
  ASSUME IInv, UNCHANGED vars
  PROVE  IInv'
<1>1. /\ UNCHANGED <<input, found, rep, i, grid, decbuf, direct, sink, pc>>
      /\ Fixed
  BY DEF vars, IInv
<1>2. /\ Fixed' /\ setting' = setting /\ raster' = raster /\ order' = order
      /\ N' = N /\ Extent' = Extent /\ Grids' = Grids
      /\ \A kind : Overflow(kind)' = Overflow(kind)
      /\ \A min, block : PreparedWith(min, block)' = PreparedWith(min, block)
  BY <1>1, SameInput
<1>3. /\ \A k : Prepared(k)' = Prepared(k) /\ Reached' = Reached /\ Visited' = Visited
  BY <1>1, <1>2 DEF Prepared, found, Reached, Visited
<1>4. Buf' = Buf /\ Prepared(Visited)' = Prepared(Visited)
  BY <1>1, <1>2, <1>3 DEF Buf, Cell, Prepared
<1>5. TypeOK' /\ Counting' /\ TrappedForAReason'
  <2>1. TypeOK' /\ Counting'
    BY <1>1, <1>2 DEF IInv, TypeOK, found, Counting
  <2>2. TrappedFor' = TrappedFor
    BY <1>1, SameInput
  <2> QED
    BY <1>1, <2>1, <2>2 DEF IInv, TrappedForAReason
<1>6. Placed' /\ Roomy'
  BY <1>1, <1>2 DEF IInv, Placed, Roomy
<1>7. Cells'
  <2>1. \A k : AtHead(k)' <=> AtHead(k)
    BY <1>1, <1>2, <1>3 DEF AtHead
  <2> QED
    BY <1>1, <1>3, <2>1 DEF IInv, Cells
<1>8. Handed'
  BY <1>1, <1>2, <1>4 DEF IInv, Handed
<1> QED
  BY <1>1, <1>2, <1>5, <1>6, <1>7, <1>8, SameMinimum DEF IInv

LEMMA NextIInv == IInv /\ [Next]_vars => IInv'
<1> SUFFICES ASSUME IInv, [Next]_vars PROVE IInv'
  OBVIOUS
<1>1. ASSUME NEW block \in Contents, Scan(block) PROVE IInv'
  BY <1>1, ScanStep
<1>2. CASE ScanStop \/ SplitThrows \/ SplitTraps \/ SplitUnread \/ MutateTraps
           \/ ReencodeThrows
  BY <1>2, StopSteps
<1>3. CASE Split
  BY <1>3, SplitStep
<1>4. CASE Decode
  BY <1>4, DecodeStep
<1>5. CASE Mutate
  BY <1>5, MutateStep
<1>6. CASE Read
  BY <1>6, ReadStep
<1>7. CASE Reencode
  BY <1>7, ReencodeStep
<1>8. CASE NextRep
  BY <1>8, NextRepStep
<1>9. CASE UNCHANGED vars
  BY <1>9, StutterStep
<1> QED
  BY <1>1, <1>2, <1>3, <1>4, <1>5, <1>6, <1>7, <1>8, <1>9 DEF Next, Step, Over, ScanStop

LEMMA InvariantHolds == Spec => []IInv
<1>1. Init => IInv
  BY InitIInv
<1>2. IInv /\ [Next]_vars => IInv'
  BY NextIInv
<1> QED
  BY <1>1, <1>2, PTL DEF Spec

-------------------------------------------------------------------------------
(***************************************************************************)
(* TypeOK: whatever is read, transformed, encoded, trapped or thrown, the  *)
(* variables stay in their types; every codec of the grid holds exactly    *)
(* one block of words, and the shared buffer keeps the room for a block    *)
(* and the slots of the base codec.                                        *)
(***************************************************************************)
THEOREM TypeCorrect == Spec => []TypeOK
<1>1. IInv => TypeOK
  BY DEF IInv
<1> QED
  BY <1>1, InvariantHolds, PTL

(***************************************************************************)
(* CodecIsTheOneAsked: what BenchmarkAccess asks of codecs[0] before it    *)
(* replaces codecs holds for every codec it decodes, in every order of     *)
(* access: each block is visited once, and those not yet visited are still *)
(* in base codecs.                                                         *)
(***************************************************************************)
THEOREM CodecAsked == Spec => []CodecIsTheOneAsked
<1>1. IInv => CodecIsTheOneAsked
  <2> SUFFICES ASSUME IInv, pc = "visit", i <= NumBlocks
               PROVE  /\ direct = (Cell.kind = "direct")
                      /\ ~ direct => Len(decbuf) = N + Overflow(Cell.kind)
    BY DEF CodecIsTheOneAsked
  <2>1. /\ Fixed /\ decbuf \in Vectors(Extent) /\ direct = (setting.base = "direct")
        /\ grid[Visited] = [kind |-> setting.base, data |-> Prepared(Visited)]
    BY VisitFacts DEF Loaded
  <2>2. Cell.kind = setting.base
    BY <2>1 DEF Cell
  <2>3. Len(decbuf) = Extent
    BY <2>1, ExtentFacts, VectorFacts
  <2> QED
    BY <2>1, <2>2, <2>3 DEF Extent
<1> QED
  BY <1>1, InvariantHolds, PTL

(***************************************************************************)
(* BlocksTransformedOnce: whatever the order of access, the repetition and *)
(* the codecs, the blocks visited by BenchmarkAccess hold their            *)
(* transformation, applied once, each in its own place, and the others     *)
(* what was split.                                                         *)
(***************************************************************************)
THEOREM TransformedOnce == Spec => []BlocksTransformedOnce
<1>1. IInv => BlocksTransformedOnce
  <2> SUFFICES ASSUME IInv, pc \in {"visit", "done"}, NEW k \in BlockNumbers
               PROVE
                 LET prepared == Prepared(k)
                 IN  CASE k \notin Reached \/ setting.access \in ReadOnly ->
                            grid[k] = [kind |-> setting.base, data |-> prepared]
                       [] k \in Reached /\ setting.access \in Mutating
                            /\ Overflow(setting.base) = 0 ->
                            grid[k] = [kind |-> setting.again,
                                       data |-> Transformed(setting.access, prepared)]
                       [] OTHER -> grid[k].kind = setting.again
    BY DEF BlocksTransformedOnce
  <2>1. AtHead(k)
    BY DEF IInv, Cells, Loaded
  <2>2. grid[k] = [kind |-> grid[k].kind, data |-> grid[k].data]
    BY DEF IInv, Placed, Loaded, Grids
  <2>3. setting.access \in Mutating \cup ReadOnly
    BY SettingFacts DEF IInv
  <2> DEFINE untouched == k \notin Reached \/ setting.access \in ReadOnly
             once == k \in Reached /\ setting.access \in Mutating
                     /\ Overflow(setting.base) = 0
             result == [kind |-> setting.again,
                        data |-> Transformed(setting.access, Prepared(k))]
  <2>4. untouched => ~ once
    BY AccessFacts
  <2>5. untouched => grid[k] = [kind |-> setting.base, data |-> Prepared(k)]
    BY <2>1 DEF AtHead
  <2>6. once => grid[k] = result
    BY <2>1, <2>2 DEF AtHead
  <2>7. ~ untouched => grid[k].kind = setting.again
    BY <2>1, <2>3 DEF AtHead
  <2> QED
    BY <2>4, <2>5, <2>6, <2>7
<1> QED
  BY <1>1, InvariantHolds, PTL

(***************************************************************************)
(* TrapsOnSmallOrWideBlocks: in the pass, the split or a visit, a division *)
(* of transformations.h traps only for a block with fewer values than      *)
(* classes, or for values that span half the word: a raster's, a slot's,   *)
(* or those a transformation that wraps has made.  A combination that ends *)
(* without a trap had a value for every class, the slots included.         *)
(***************************************************************************)
THEOREM SmallOrWideTrap == Spec => []TrapsOnSmallOrWideBlocks
<1>1. IInv => TrapsOnSmallOrWideBlocks
  <2> SUFFICES ASSUME IInv PROVE TrapsOnSmallOrWideBlocks
    OBVIOUS
  <2>1. pc = "trapped" => TrappedFor
    BY DEF IInv, TrappedForAReason
  <2>2. ASSUME pc = "done", ByIndex(setting.initial)
        PROVE  Classes <= N
    BY <2>2 DEF IInv, Placed, Loaded
  <2>3. ASSUME pc = "done", ByIndex(setting.access)
        PROVE  Classes <= Extent
    <3>1. i > 1
      BY <2>3, BoundsAssumption DEF IInv, Counting
    <3> QED
      BY <2>3, <3>1 DEF IInv, Roomy, Loaded
  <2> QED
    BY <2>1, <2>2, <2>3 DEF TrapsOnSmallOrWideBlocks, TrappedFor, Extent
<1> QED
  BY <1>1, InvariantHolds, PTL

(***************************************************************************)
(* SumIsOfTheBlock: a step of LinearSumSimd, of LinearSumFused over a      *)
(* fused codec and of agg/'s LinearSum, where the codec's name does not    *)
(* mislead it, leaves a word in the sink that is, modulo 2^w, the sum of   *)
(* the block visited, or that sum added to what was there.                 *)
(***************************************************************************)
LEMMA ReadSums ==
  ASSUME IInv, Read
  PROVE  /\ setting.access = "LinearSumSimd" \/ ReadsTheSlot => SumsTheBlock(0)
         /\ AddsToTheSink => SumsTheBlock(sink)
<1> DEFINE block == Prepared(Visited)
<1>1. pc = "transform"
  BY DEF Read
<1>2. /\ Fixed /\ block \in Vectors(N)
  <2>1. pc \in Loaded /\ i <= NumBlocks
    BY <1>1 DEF IInv, Counting, Loaded
  <2> QED
    BY <2>1, VisitFacts
<1>3. /\ Buf \in Vectors(Extent) /\ Len(Buf) = Extent
      /\ \A p \in 1 .. N : Buf[p] = block[p]
      /\ setting.base = "fused" => Buf[N + 1] - SumOf(block) \in Multiples
  BY <1>1, BufType DEF IInv, Handed
<1>4. N \in Nat /\ Extent \in Nat /\ N <= Extent
      /\ (setting.base = "fused" => Extent = N + 2)
  BY <1>2, SettingFacts, ExtentFacts, OverflowFacts DEF Extent
<1> HIDE DEF block
<1>5. SimdSum(Buf) \in Word /\ SimdSum(Buf) - SumOf(block) \in Multiples
  BY <1>2, <1>3, <1>4, SimdSumFacts
<1>6. ASSUME setting.base = "fused", NEW sum \in FusedSums
      PROVE  sum \in Word /\ sum - SumOf(block) \in Multiples
  <2>1. Len(Buf) > N /\ N + 1 \in 1 .. Extent
    BY <1>3, <1>4, <1>6
  <2>2. sum = Buf[N + 1]
    BY <1>6, <2>1 DEF FusedSums
  <2>3. Buf[N + 1] \in Word
    BY <1>3, <2>1 DEF Vectors
  <2> QED
    BY <1>3, <1>6, <2>2, <2>3
<1>7. SumOf(block) \in Int
  BY <1>2, <1>4, WrapSumFacts
<1>8. RunningSum \in Word /\ RunningSum - sink - SumOf(block) \in Multiples
  <2> DEFINE x == sink + SimdSum(Buf)
  <2>1. sink \in Word
    BY DEF IInv, TypeOK
  <2>2. x \in -2 * Half .. 2 * Half /\ sink \in Int /\ SimdSum(Buf) \in Int
    BY <1>5, <2>1, HalfAssumption DEF Word
  <2>3. Wrap(x) \in Word
    BY <1>5, <2>1, WrapOfTwo
  <2>4. x \in Int /\ Wrap(x) - x \in Multiples
    BY <2>2, WrapCongruent
  <2>5. (Wrap(x) - x) + (SimdSum(Buf) - SumOf(block)) \in Multiples
    BY <1>5, <2>4, MultiplesFacts
  <2>6. Wrap(x) \in Int
    BY <2>3, SmallWords
  <2>7. (Wrap(x) - x) + (SimdSum(Buf) - SumOf(block)) = Wrap(x) - sink - SumOf(block)
    BY <1>7, <2>2, <2>6
  <2> QED
    BY <2>3, <2>5, <2>7 DEF RunningSum
<1>9. ASSUME setting.access = "LinearSumSimd" \/ ReadsTheSlot
      PROVE  SumsTheBlock(0)
  <2>1. sink' \in Word /\ sink' - SumOf(block) \in Multiples
    <3>1. CASE setting.access = "LinearSumSimd"
      <4>1. sink' \in {SimdSum(Buf)}
        BY <3>1 DEF Read
      <4> QED
        BY <1>5, <4>1
    <3>2. CASE ReadsTheSlot
      <4>1. setting.base = "fused"
        BY <3>2 DEF ReadsTheSlot
      <4>2. sink' \in FusedSums
        BY <3>2 DEF ReadsTheSlot, Read, NamedSums
      <4> QED
        BY <1>6, <4>1, <4>2
    <3> QED
      BY <1>9, <3>1, <3>2
  <2>2. sink' \in Int
    BY <2>1, SmallWords
  <2>3. sink' - 0 - SumOf(block) = sink' - SumOf(block)
    BY <1>7, <2>2
  <2>4. (sink' - 0 - SumOf(block)) % (2 * Half) = 0
    BY <2>1, <2>3, MultiplesFacts
  <2> QED
    BY <2>1, <2>4 DEF SumsTheBlock, block
<1>10. ASSUME AddsToTheSink
       PROVE  SumsTheBlock(sink)
  <2>1. sink' \in {RunningSum}
    BY <1>10 DEF AddsToTheSink, Read, NamedSums
  <2>2. sink' \in Word /\ (sink' - sink - SumOf(block)) % (2 * Half) = 0
    BY <1>8, <2>1, MultiplesFacts
  <2> QED
    BY <2>2 DEF SumsTheBlock, block
<1> QED
  BY <1>9, <1>10

THEOREM Summed == Spec => SumIsOfTheBlock
<1> DEFINE Sums1 ==
      Read => /\ setting.access = "LinearSumSimd" \/ ReadsTheSlot => SumsTheBlock(0)
              /\ AddsToTheSink => SumsTheBlock(sink)
<1>1. IInv => Sums1
  BY ReadSums
<1>2. SumIsOfTheBlock <=> [][Sums1]_vars
  BY DEF SumIsOfTheBlock
<1> HIDE DEF Sums1
<1>3. IInv /\ [Next]_vars => [Sums1]_vars
  BY <1>1
<1> QED
  BY <1>2, <1>3, InvariantHolds, PTL DEF Spec

-------------------------------------------------------------------------------
(***************************************************************************)
(* The dictionaries of agg/.  Known: the minimum is that of the blocks     *)
(* scanned so far, as the scan saw them, and of each of them the           *)
(* dictionaries have the values, before and after the access               *)
(* transformation, that it has when it is shifted by the minimum as of     *)
(* then.                                                                   *)
(***************************************************************************)
seen == [k \in BlockNumbers |-> Seen(k)]

ValuesOf(blocks, j) == UNION {ToSet(blocks[m]) : m \in 1 .. j}
MinOver(blocks, j) == Min({Half - 1} \cup ValuesOf(blocks, j))

PreparedFor(blocks, m) == PreparedWith(MinOver(blocks, m), blocks[m])

Learnt(blocks, j) ==
  \A m \in 1 .. j :
    /\ ToSet(PreparedFor(blocks, m)) \subseteq known.initial
    /\ ToSet(AfterAccess(PreparedFor(blocks, m))) \subseteq known.access

Scanned == {"split"} \cup Loaded

Known ==
  /\ pc = "scan"    => /\ known.min = MinOver(seen, i - 1)
                       /\ Collects => Learnt(seen, i - 1)
                       /\ missed \subseteq 1 .. i - 1
  /\ pc \in Scanned => /\ known.min = MinOver(seen, NumBlocks)
                       /\ Collects => Learnt(seen, NumBlocks)

NeverLacking ==
  Collects /\ MinimumSettled /\ pc = "terminated"
    /\ ~ OrderingThrows(setting.ordering, setting.side)
    /\ setting.base \in {"dict", "plain", "direct"} /\ missed = {}
    => setting.again # "dict"

KInv == IInv /\ Known /\ NeverLacking

LEMMA WordOrder ==
  /\ Word \subseteq Int
  /\ \A v, w \in Word : v <= w /\ w <= v => v = w
<1>1. Word \subseteq Int
  BY HalfAssumption DEF Word
<1>2. \A v, w \in Int : v <= w /\ w <= v => v = w
  OBVIOUS
<1> QED
  BY <1>1, <1>2

LEMMA MinIs ==
  ASSUME NEW S \in SUBSET Word, NEW m \in S, \A v \in S : m <= v
  PROVE  Min(S) = m
<1>1. Min(S) \in S /\ \A v \in S : Min(S) <= v
  BY LeastWord
<1>2. Min(S) \in Int /\ m \in Int
  BY <1>1, SmallWords
<1> QED
  BY <1>1, <1>2

LEMMA ValuesOfFacts ==
  ASSUME NEW n \in Nat \ {0}, NEW blocks \in [BlockNumbers -> Vectors(n)],
         NEW j \in 0 .. NumBlocks
  PROVE  /\ ValuesOf(blocks, j) \in SUBSET Word
         /\ \A m \in 0 .. j : ValuesOf(blocks, m) \subseteq ValuesOf(blocks, j)
         /\ j # 0 => /\ ValuesOf(blocks, j) # {}
                     /\ ValuesOf(blocks, j) = ValuesOf(blocks, j - 1) \cup ToSet(blocks[j])
<1>1. NumBlocks \in Nat /\ \A k \in BlockNumbers : blocks[k] \in Vectors(n)
  BY BoundsAssumption
<1>2. \A m \in 1 .. j : ToSet(blocks[m]) \in SUBSET Word /\ ToSet(blocks[m]) # {}
  <2> TAKE m \in 1 .. j
  <2>1. blocks[m] \in Vectors(n)
    BY <1>1 DEF BlockNumbers
  <2> QED
    BY <1>1, <2>1, VectorFacts
<1>3. ValuesOf(blocks, j) \in SUBSET Word
  BY <1>2 DEF ValuesOf
<1>4. \A m \in 0 .. j : ValuesOf(blocks, m) \subseteq ValuesOf(blocks, j)
  BY DEF ValuesOf
<1>5. ASSUME j # 0
      PROVE  /\ ValuesOf(blocks, j) # {}
             /\ ValuesOf(blocks, j) = ValuesOf(blocks, j - 1) \cup ToSet(blocks[j])
  <2>1. j \in 1 .. j /\ \A m : m \in 1 .. j <=> m \in 1 .. j - 1 \/ m = j
    BY <1>5
  <2>2. ValuesOf(blocks, j) = ValuesOf(blocks, j - 1) \cup ToSet(blocks[j])
    BY <2>1 DEF ValuesOf
  <2> QED
    BY <1>2, <2>1, <2>2
<1> QED
  BY <1>3, <1>4, <1>5

LEMMA MinOverFacts ==
  ASSUME NEW n \in Nat \ {0}, NEW blocks \in [BlockNumbers -> Vectors(n)],
         NEW j \in 0 .. NumBlocks
  PROVE  /\ MinOver(blocks, j) \in Word
         /\ j = 0 => MinOver(blocks, j) = Half - 1
         /\ j # 0 => /\ MinOver(blocks, j) = Min(ValuesOf(blocks, j))
                     /\ MinOver(blocks, j) \in ValuesOf(blocks, j)
                     /\ Min({MinOver(blocks, j - 1)} \cup ToSet(blocks[j])) = MinOver(blocks, j)
         /\ \A v \in ValuesOf(blocks, j) : MinOver(blocks, j) <= v
<1> DEFINE top == Half - 1
           all == {top} \cup ValuesOf(blocks, j)
<1>1. top \in Word /\ \A v \in Word : v <= top
  BY HalfAssumption DEF Word
<1> HIDE DEF top
<1>2. ValuesOf(blocks, j) \in SUBSET Word
  BY ValuesOfFacts
<1>3. all \in SUBSET Word /\ all # {} /\ MinOver(blocks, j) = Min(all)
  BY <1>1, <1>2 DEF MinOver, ValuesOf, top
<1>4. MinOver(blocks, j) \in all /\ \A v \in all : MinOver(blocks, j) <= v
  <2> HIDE DEF all
  <2> QED
    BY <1>3, LeastWord
<1>5. ASSUME j = 0 PROVE MinOver(blocks, j) = top
  <2>1. ValuesOf(blocks, j) = {}
    BY <1>5 DEF ValuesOf
  <2> QED
    BY <1>4, <2>1
<1>6. ASSUME j # 0
      PROVE  /\ MinOver(blocks, j) = Min(ValuesOf(blocks, j))
             /\ MinOver(blocks, j) \in ValuesOf(blocks, j)
             /\ Min({MinOver(blocks, j - 1)} \cup ToSet(blocks[j])) = MinOver(blocks, j)
  <2>1. /\ ValuesOf(blocks, j) # {}
        /\ ValuesOf(blocks, j) = ValuesOf(blocks, j - 1) \cup ToSet(blocks[j])
    BY <1>6, ValuesOfFacts
  <2>2. PICK v \in ValuesOf(blocks, j) : TRUE
    BY <2>1
  <2>3. MinOver(blocks, j) \in ValuesOf(blocks, j)
    <3>1. CASE MinOver(blocks, j) = top
      <4>1. top <= v /\ v <= top
        BY <1>1, <1>2, <1>4, <2>2, <3>1
      <4>2. v = top
        BY <1>1, <1>2, <2>2, <4>1, WordOrder
      <4> QED
        BY <2>2, <3>1, <4>2
    <3> QED
      BY <1>4, <3>1
  <2>4. MinOver(blocks, j) = Min(ValuesOf(blocks, j))
    BY <1>2, <1>4, <2>3, MinIs
  <2>5. Min({MinOver(blocks, j - 1)} \cup ToSet(blocks[j])) = MinOver(blocks, j)
    <3> DEFINE before == {top} \cup ValuesOf(blocks, j - 1)
               S == {MinOver(blocks, j - 1)} \cup ToSet(blocks[j])
    <3>1. before \in SUBSET Word /\ before # {} /\ MinOver(blocks, j - 1) = Min(before)
          /\ all = before \cup ToSet(blocks[j])
      BY <1>3, <2>1 DEF MinOver, ValuesOf, top
    <3>2. MinOver(blocks, j - 1) \in before /\ \A w \in before : MinOver(blocks, j - 1) <= w
      <4> HIDE DEF before
      <4> QED
        BY <3>1, LeastWord
    <3> HIDE DEF before, all
    <3>3. S \in SUBSET Word /\ S \subseteq all
      BY <1>3, <3>1, <3>2
    <3>4. MinOver(blocks, j) \in S
      <4>1. CASE MinOver(blocks, j) \in ToSet(blocks[j])
        BY <4>1
      <4>2. CASE MinOver(blocks, j) \in before
        <5>1. MinOver(blocks, j - 1) <= MinOver(blocks, j) /\ MinOver(blocks, j) <= MinOver(blocks, j - 1)
          BY <1>4, <3>1, <3>2, <4>2
        <5>2. MinOver(blocks, j - 1) = MinOver(blocks, j)
          <6>1. MinOver(blocks, j - 1) \in Word /\ MinOver(blocks, j) \in Word
            BY <3>1, <3>2, <4>2
          <6> QED
            BY <5>1, <6>1, WordOrder
        <5> QED
          BY <5>2
      <4> QED
        BY <1>4, <3>1, <4>1, <4>2
    <3>5. \A w \in S : MinOver(blocks, j) <= w
      BY <1>4, <3>3
    <3> HIDE DEF S
    <3>6. Min(S) = MinOver(blocks, j)
      BY <3>3, <3>4, <3>5, MinIs
    <3> QED
      BY <3>6 DEF S
  <2> QED
    BY <2>3, <2>4, <2>5
<1> QED
  BY <1>3, <1>4, <1>5, <1>6 DEF top

\* What the scan saw are blocks, and their minimum is that of MinimumSettled.
LEMMA SeenFacts ==
  ASSUME Fixed
  PROVE  /\ N \in Nat \ {0} /\ seen \in [BlockNumbers -> Vectors(N)]
         /\ \A k \in BlockNumbers : seen[k] = Seen(k)
         /\ \A k \in BlockNumbers : MinOfFirst(k) = MinOver(seen, k)
<1>1. N \in Nat \ {0} /\ \A k \in BlockNumbers : raster[k] \in Vectors(N)
  BY SettingFacts
<1>2. Zeros(N) \in Vectors(N)
  BY SmallWords DEF Zeros, Vectors
<1>3. \A k \in BlockNumbers : Seen(k) \in Vectors(N)
  BY <1>1, <1>2 DEF Seen
<1>4. seen \in [BlockNumbers -> Vectors(N)] /\ \A k \in BlockNumbers : seen[k] = Seen(k)
  BY <1>3 DEF seen
<1> HIDE DEF seen
<1>5. ASSUME NEW k \in BlockNumbers PROVE MinOfFirst(k) = MinOver(seen, k)
  <2>1. k \in 0 .. NumBlocks /\ k # 0 /\ \A m \in 1 .. k : m \in BlockNumbers
    BY BoundsAssumption DEF BlockNumbers
  <2>2. ValuesOf(seen, k) = UNION {ToSet(Seen(m)) : m \in 1 .. k}
    <3>1. {ToSet(seen[m]) : m \in 1 .. k} = {ToSet(Seen(m)) : m \in 1 .. k}
      BY <1>4, <2>1
    <3> QED
      BY <3>1 DEF ValuesOf
  <2> DEFINE values == ValuesOf(seen, k)
  <2>3. MinOfFirst(k) = Min(values)
    BY <2>2 DEF MinOfFirst
  <2>4. MinOver(seen, k) = Min(values)
    BY <1>1, <1>4, <2>1, MinOverFacts
  <2> QED
    BY <2>3, <2>4
<1> QED
  BY <1>1, <1>4, <1>5

\* When the minimum is settled, a block was prepared in the pass as it is for
\* the split.
LEMMA PreparedAsScanned ==
  ASSUME Fixed, MinimumSettled, NEW k \in BlockNumbers, NEW block
  PROVE  PreparedWith(MinOver(seen, k), block) = PreparedWith(MinOver(seen, NumBlocks), block)
<1>1. /\ NumBlocks \in Nat \ {0} /\ k \in 0 .. NumBlocks /\ k # 0
      /\ NumBlocks \in 0 .. NumBlocks /\ NumBlocks \in BlockNumbers
  BY BoundsAssumption DEF BlockNumbers
<1>2. N \in Nat \ {0} /\ seen \in [BlockNumbers -> Vectors(N)]
  BY SeenFacts
<1>3. /\ MinOver(seen, k) = MinOfFirst(k) /\ MinOver(seen, NumBlocks) = MinOfFirst(NumBlocks)
  BY <1>1, SeenFacts
<1> HIDE DEF seen
<1>4. /\ MinOver(seen, k) \in ValuesOf(seen, k)
      /\ \A v \in ValuesOf(seen, NumBlocks) : MinOver(seen, NumBlocks) <= v
      /\ MinOver(seen, k) \in Word /\ MinOver(seen, NumBlocks) \in Word
  BY <1>1, <1>2, MinOverFacts
<1>5. MinOver(seen, NumBlocks) <= MinOver(seen, k)
  <2>1. ValuesOf(seen, k) \subseteq ValuesOf(seen, NumBlocks)
    BY <1>1, <1>2, ValuesOfFacts
  <2> QED
    BY <1>4, <2>1
<1>6. ShiftedBy(MinOver(seen, k), block) = ShiftedBy(MinOver(seen, NumBlocks), block)
  <2>1. CASE MinOfFirst(NumBlocks) >= 0
    <3>1. ~ (MinOver(seen, k) < 0) /\ ~ (MinOver(seen, NumBlocks) < 0)
      <4>1. MinOver(seen, k) \in Int /\ MinOver(seen, NumBlocks) \in Int
            /\ MinOver(seen, NumBlocks) >= 0
        BY <1>3, <1>4, <2>1, WordOrder
      <4> HIDE DEF MinOver
      <4> QED
        BY <1>5, <4>1
    <3> QED
      BY <3>1 DEF ShiftedBy
  <2>2. CASE \A j \in BlockNumbers : MinOfFirst(j) = MinOfFirst(NumBlocks)
    BY <1>3, <2>2
  <2> QED
    BY <2>1, <2>2 DEF MinimumSettled
<1> QED
  BY <1>6 DEF PreparedWith, OrderedBy

LEMMA Suffices ==
  ASSUME IInv, Known, pc \in Scanned, Collects, MinimumSettled,
         NEW k \in BlockNumbers \ missed
  PROVE  /\ ToSet(Prepared(k)) \subseteq known.initial
         /\ ToSet(AfterAccess(Prepared(k))) \subseteq known.access
<1>1. known.min = MinOver(seen, NumBlocks) /\ Learnt(seen, NumBlocks) /\ k \in 1 .. NumBlocks
  BY DEF Known, BlockNumbers
<1>2. seen[k] = raster[k]
  BY SeenFacts DEF Seen, IInv
<1> HIDE DEF seen
<1>3. PreparedFor(seen, k) = Prepared(k)
  BY <1>1, <1>2, PreparedAsScanned DEF PreparedFor, Prepared, IInv
<1>4. /\ ToSet(PreparedFor(seen, k)) \subseteq known.initial
      /\ ToSet(AfterAccess(PreparedFor(seen, k))) \subseteq known.access
  BY <1>1 DEF Learnt
<1> QED
  BY <1>3, <1>4, Zenon

\* What was scanned does not depend on the blocks to come.
LEMMA ScannedAlike ==
  ASSUME NEW s \in [BlockNumbers -> Vectors(N)], NEW t \in [BlockNumbers -> Vectors(N)],
         NEW j \in 0 .. NumBlocks, \A m \in 1 .. j : s[m] = t[m]
  PROVE  \A m \in 0 .. j : /\ MinOver(s, m) = MinOver(t, m)
                           /\ m # 0 => PreparedFor(s, m) = PreparedFor(t, m)
<1> TAKE m \in 0 .. j
<1>1. \A p \in 1 .. m : s[p] = t[p]
  OBVIOUS
<1>2. {ToSet(s[p]) : p \in 1 .. m} = {ToSet(t[p]) : p \in 1 .. m}
  BY <1>1
<1>3. MinOver(s, m) = MinOver(t, m)
  BY <1>2 DEF MinOver, ValuesOf
<1>4. m # 0 => s[m] = t[m]
  OBVIOUS
<1> QED
  BY <1>3, <1>4 DEF PreparedFor

LEMMA LearntFrame ==
  ASSUME Fixed, input' = input
  PROVE  /\ Collects' = Collects
         /\ \A blocks, j :
              Learnt(blocks, j)' <=>
                \A m \in 1 .. j :
                  /\ ToSet(PreparedFor(blocks, m)) \subseteq known'.initial
                  /\ ToSet(AfterAccess(PreparedFor(blocks, m))) \subseteq known'.access
<1>1. /\ setting' = setting
      /\ \A min, block : PreparedWith(min, block)' = PreparedWith(min, block)
  BY SameInput
<1>2. \A data : AfterAccess(data)' = AfterAccess(data)
  BY <1>1 DEF AfterAccess
<1>3. \A blocks, m : PreparedFor(blocks, m)' = PreparedFor(blocks, m)
  BY <1>1 DEF PreparedFor
<1>4. \A blocks, m : AfterAccess(PreparedFor(blocks, m))' = AfterAccess(PreparedFor(blocks, m))
  <2> HIDE DEF PreparedFor
  <2> QED
    BY <1>2, <1>3
<1> QED
  BY <1>1, <1>3, <1>4 DEF Learnt, Collects

LEMMA ScanLearns ==
  ASSUME KInv, NEW block \in Contents, Scan(block)
  PROVE  Known'
<1> DEFINE s == seen
           t == seen'
<1>1. /\ pc = "scan" /\ i' = i + 1 /\ input' = input
      /\ missed' = IF block = raster[i] THEN missed ELSE missed \cup {i}
      /\ pc' = IF i = NumBlocks THEN "split" ELSE "scan"
      /\ known' = IF Collects THEN Collected(block) ELSE [known EXCEPT !.min = MinWith(block)]
  BY DEF Scan
<1>2. /\ IInv /\ Fixed /\ i \in 1 .. NumBlocks /\ NumBlocks \in Nat
      /\ known \in [min : Word, initial : SUBSET Word, access : SUBSET Word]
      /\ known.min = MinOver(s, i - 1) /\ (Collects => Learnt(s, i - 1))
      /\ missed \subseteq 1 .. i - 1
  BY <1>1, BoundsAssumption DEF KInv, Known, IInv, TypeOK, Counting
<1>3. Fixed' /\ setting' = setting /\ raster' = raster /\ N' = N
  BY <1>1, <1>2, SameInput
<1>4. /\ N \in Nat \ {0} /\ s \in [BlockNumbers -> Vectors(N)]
      /\ \A k \in BlockNumbers : s[k] = IF k \in missed THEN Zeros(N) ELSE raster[k]
  BY <1>2, SeenFacts DEF Seen
<1>5. /\ t \in [BlockNumbers -> Vectors(N)]
      /\ \A k \in BlockNumbers : t[k] = IF k \in missed' THEN Zeros(N) ELSE raster[k]
  <2>1. Zeros(N) \in Vectors(N) /\ \A k \in BlockNumbers : raster[k] \in Vectors(N)
    BY <1>2, <1>4, SettingFacts, SmallWords DEF Zeros, Vectors
  <2>2. t = [k \in BlockNumbers |-> IF k \in missed' THEN Zeros(N) ELSE raster[k]]
    BY <1>3 DEF seen, Seen, Zeros
  <2> QED
    BY <2>1, <2>2
<1> HIDE DEF s, t
<1>6. \A m \in 1 .. i - 1 : s[m] = t[m]
  <2> TAKE m \in 1 .. i - 1
  <2>1. m \in BlockNumbers /\ (m \in missed' <=> m \in missed)
    BY <1>1, <1>2 DEF BlockNumbers
  <2> QED
    BY <1>4, <1>5, <2>1
<1>7. t[i] = block /\ i \in BlockNumbers
  <2>1. i \in BlockNumbers /\ i \notin missed
    BY <1>2 DEF BlockNumbers
  <2>2. block = raster[i] \/ block = Zeros(N)
    BY <1>2, ContentsFacts
  <2>3. i \in missed' <=> block # raster[i]
    BY <1>1, <2>1
  <2> QED
    BY <1>5, <2>1, <2>2, <2>3
<1> DEFINE h == i - 1
<1>8. h \in 0 .. NumBlocks /\ i \in 0 .. NumBlocks /\ i # 0 /\ h = i - 1
  BY <1>2
<1>9. \A m \in 0 .. h : /\ MinOver(s, m) = MinOver(t, m)
                        /\ m # 0 => PreparedFor(s, m) = PreparedFor(t, m)
  <2> HIDE DEF h
  <2>1. \A m \in 1 .. h : s[m] = t[m]
    BY <1>6, <1>8
  <2> QED
    BY <1>4, <1>5, <1>8, <2>1, ScannedAlike
<1>10. MinWith(block) = MinOver(t, i)
  <2>1. Min({MinOver(t, i - 1)} \cup ToSet(t[i])) = MinOver(t, i)
    BY <1>4, <1>5, <1>8, MinOverFacts
  <2>2. known.min = MinOver(t, i - 1)
    BY <1>2, <1>8, <1>9
  <2> QED
    BY <1>7, <2>1, <2>2 DEF MinWith
<1>11. known'.min = MinOver(t, i)
  BY <1>1, <1>2, <1>10 DEF Collected
<1>12. ASSUME Collects
       PROVE  \A m \in 1 .. i :
                /\ ToSet(PreparedFor(t, m)) \subseteq known'.initial
                /\ ToSet(AfterAccess(PreparedFor(t, m))) \subseteq known'.access
  <2>1. PreparedWith(MinWith(block), block) = PreparedFor(t, i)
    BY <1>7, <1>10 DEF PreparedFor
  <2>2. /\ known'.initial = known.initial \cup ToSet(PreparedFor(t, i))
        /\ known'.access = known.access \cup ToSet(AfterAccess(PreparedFor(t, i)))
    BY <1>1, <1>12, <2>1 DEF Collected
  <2>3. \A m \in 1 .. h : /\ ToSet(PreparedFor(s, m)) \subseteq known.initial
                          /\ ToSet(AfterAccess(PreparedFor(s, m))) \subseteq known.access
    BY <1>2, <1>12 DEF Learnt
  <2>4. \A m \in 1 .. h : PreparedFor(s, m) = PreparedFor(t, m)
    BY <1>8, <1>9
  <2> TAKE m \in 1 .. i
  <2>5. m \in 1 .. h \/ m = i
    BY <1>8
  <2>6. CASE m \in 1 .. h
    <3>1. PreparedFor(s, m) = PreparedFor(t, m)
      BY <2>4, <2>6
    <3>2. /\ ToSet(PreparedFor(t, m)) \subseteq known.initial
          /\ ToSet(AfterAccess(PreparedFor(t, m))) \subseteq known.access
      BY <2>3, <2>6, <3>1
    <3> QED
      BY <2>2, <3>2
  <2>7. CASE m = i
    BY <2>2, <2>7
  <2> QED
    BY <2>5, <2>6, <2>7
<1>13. i' - 1 = i
  BY <1>1, <1>2
<1>14. \A j : /\ MinOver(seen, j)' = MinOver(t, j)
              /\ Learnt(seen, j)' <=>
                   \A m \in 1 .. j :
                     /\ ToSet(PreparedFor(t, m)) \subseteq known'.initial
                     /\ ToSet(AfterAccess(PreparedFor(t, m))) \subseteq known'.access
  <2>1. \A j : MinOver(seen, j)' = MinOver(t, j)
    BY DEF MinOver, ValuesOf, t
  <2>2. \A blocks, j :
          Learnt(blocks, j)' <=>
            \A m \in 1 .. j :
              /\ ToSet(PreparedFor(blocks, m)) \subseteq known'.initial
              /\ ToSet(AfterAccess(PreparedFor(blocks, m))) \subseteq known'.access
    BY <1>1, <1>2, LearntFrame
  <2>3. seen' = t
    BY DEF t
  <2> HIDE DEF seen
  <2> QED
    BY <2>1, <2>2, <2>3
<1>15. Collects' = Collects
  BY <1>1, <1>2, LearntFrame
<1>16. missed' \subseteq 1 .. i
  BY <1>1, <1>2
<1>17. CASE i = NumBlocks
  BY <1>1, <1>11, <1>12, <1>14, <1>15, <1>17 DEF Known, Scanned, Loaded
<1>18. CASE i # NumBlocks
  <2>1. pc' = "scan"
    BY <1>1, <1>18
  <2>2. (known.min = MinOver(seen, i - 1))'
    BY <1>11, <1>13, <1>14
  <2>3. Collects => Learnt(seen, i - 1)'
    BY <1>12, <1>13, <1>14
  <2> QED
    BY <1>13, <1>15, <1>16, <2>1, <2>2, <2>3 DEF Known, Scanned, Loaded
<1> QED
  BY <1>17, <1>18

\* What the dictionaries are for: an encoding with them does not throw.
LEMMA DictionaryReach ==
  ASSUME IInv, Known, Collects, MinimumSettled, pc = "reencode",
         Overflow(setting.base) = 0, Visited \notin missed
  PROVE  ToSet(ToEncode) \subseteq known.access
<1>1. i <= NumBlocks /\ pc \in Scanned /\ pc \in Loaded
  BY DEF IInv, Counting, Scanned, Loaded
<1>2. Visited \in BlockNumbers \ missed /\ setting.access \in Mutating
  BY <1>1, VisitFacts DEF IInv, Handed
<1>3. ToEncode = AfterAccess(Prepared(Visited))
  BY <1>2, ToEncodeFacts DEF AfterAccess
<1> QED
  BY <1>1, <1>2, <1>3, Suffices

LEMMA NoThrowForWant ==
  ASSUME KInv, SplitThrows \/ ReencodeThrows, Collects, MinimumSettled,
         setting.base \in {"dict", "plain", "direct"}, missed = {},
         ~ OrderingThrows(setting.ordering, setting.side)
  PROVE  setting.again # "dict"
<1>1. IInv /\ Known
  BY DEF KInv
<1>2. \A values, dictionary : /\ MustThrow("dict", values, dictionary)
                                   <=> ~ (values \subseteq dictionary)
                              /\ ~ MustThrow("plain", values, dictionary)
                              /\ ~ MustThrow("direct", values, dictionary)
  BY DEF MustThrow
<1>3. CASE SplitThrows
  <2>1. PICK k \in BlockNumbers : setting.base = "cascade" \/ BlockThrows(k)
    BY <1>3 DEF SplitThrows
  <2>2. MustThrow(setting.base, ToSet(Prepared(k)), known.initial)
    BY <2>1 DEF BlockThrows
  <2>3. setting.base = "dict" /\ ~ (ToSet(Prepared(k)) \subseteq known.initial)
    BY <1>2, <2>2
  <2>4. pc \in Scanned /\ k \in BlockNumbers \ missed
    BY <1>3 DEF SplitThrows, Scanned
  <2>5. ToSet(Prepared(k)) \subseteq known.initial
    BY <1>1, <2>4, Suffices
  <2> QED
    BY <2>3, <2>5
<1>4. CASE ReencodeThrows
  <2>1. pc = "reencode" /\ (setting.again = "cascade" \/ AgainThrows)
    BY <1>4 DEF ReencodeThrows
  <2>2. Overflow(setting.base) = 0
    BY OverflowFacts
  <2>3. ToSet(ToEncode) \subseteq known.access
    BY <1>1, <2>1, <2>2, DictionaryReach
  <2> QED
    BY <1>2, <2>1, <2>3 DEF AgainThrows
<1> QED
  BY <1>3, <1>4

LEMMA KnownKept ==
  ASSUME Fixed, Known, input' = input, found' = found,
         \/ pc' = "terminated" \/ pc' = "trapped" \/ pc' = "unread"
         \/ pc' \in Scanned /\ pc \in Scanned
         \/ pc' = pc /\ i' = i
  PROVE  Known'
<1>1. /\ known' = known /\ missed' = missed /\ raster' = raster /\ N' = N
  BY SameInput DEF found
<1>2. CASE pc' = "terminated" \/ pc' = "trapped" \/ pc' = "unread"
  BY <1>2 DEF Known, Scanned, Loaded
<1>3. seen' = seen
  BY <1>1 DEF seen, Seen, Zeros
<1>4. Collects' = Collects
      /\ \A j : MinOver(seen, j)' = MinOver(seen, j) /\ (Learnt(seen, j)' <=> Learnt(seen, j))
  <2> HIDE DEF seen
  <2>1. \A blocks, j : Learnt(blocks, j)' <=> Learnt(blocks, j)
    BY <1>1, LearntFrame DEF Learnt
  <2>2. \A j : MinOver(seen, j)' = MinOver(seen, j)
    BY <1>3 DEF MinOver, ValuesOf
  <2> QED
    BY <1>3, <2>1, <2>2, LearntFrame
<1>5. CASE pc' \in Scanned /\ pc \in Scanned
  BY <1>1, <1>4, <1>5 DEF Known, Scanned, Loaded
<1>6. CASE pc' = pc /\ i' = i
  <2>1. /\ MinOver(seen, i - 1)' = MinOver(seen, i - 1)
        /\ Learnt(seen, i - 1)' <=> Learnt(seen, i - 1)
    BY <1>4, <1>6
  <2> QED
    BY <1>1, <1>4, <1>6, <2>1 DEF Known
<1> QED
  BY <1>2, <1>5, <1>6

\* Steps other than those of the scan.
LEMMA FoundFrame ==
  ASSUME [Next]_vars, \A block \in Contents : ~ Scan(block)
  PROVE  /\ input' = input /\ found' = found
         /\ \/ pc' = "terminated" \/ pc' = "trapped" \/ pc' = "unread"
            \/ pc' \in Scanned /\ pc \in Scanned
            \/ pc' = pc /\ i' = i
         /\ pc' = "terminated" =>
              \/ SplitThrows \/ ReencodeThrows \/ pc = "terminated"
              \/ OrderingThrows(setting.ordering, setting.side)
<1>1. CASE ScanStop
  BY <1>1 DEF ScanStop, ScanStops
<1>2. CASE ~ ScanStop
  BY <1>2 DEF Next, Step, Over, vars, ScanStop, SplitThrows, SplitTraps, SplitUnread,
              MutateTraps, ReencodeThrows, Split, SplitReturns, Decode, Mutate, Read,
              Reencode, NextRep, Scanned, Loaded
<1> QED
  BY <1>1, <1>2

LEMMA NextKInv == KInv /\ [Next]_vars => KInv'
<1> SUFFICES ASSUME KInv, [Next]_vars PROVE KInv'
  OBVIOUS
<1>1. IInv /\ IInv' /\ Fixed /\ Known /\ NeverLacking
  BY NextIInv DEF KInv, IInv
<1>2. ASSUME NEW block \in Contents, Scan(block) PROVE Known' /\ NeverLacking'
  <2>1. pc' # "terminated"
    BY <1>2 DEF Scan
  <2> QED
    BY <1>2, <2>1, ScanLearns DEF NeverLacking
<1>3. ASSUME \A block \in Contents : ~ Scan(block) PROVE Known' /\ NeverLacking'
  <2>1. Known'
    BY <1>1, <1>3, FoundFrame, KnownKept
  <2>2. /\ setting' = setting /\ raster' = raster /\ missed' = missed /\ N' = N
    BY <1>1, <1>3, FoundFrame, SameInput DEF found
  <2>3. Collects' = Collects /\ MinimumSettled' = MinimumSettled
    <3>1. \A k : Seen(k)' = Seen(k)
      BY <2>2 DEF Seen, Zeros
    <3>2. \A k : MinOfFirst(k)' = MinOfFirst(k)
      BY <3>1 DEF MinOfFirst
    <3> QED
      BY <2>2, <3>2 DEF Collects, MinimumSettled
  <2>4. pc' = "terminated" =>
          \/ SplitThrows \/ ReencodeThrows \/ pc = "terminated"
          \/ OrderingThrows(setting.ordering, setting.side)
    BY <1>3, FoundFrame
  <2>5. NeverLacking'
    BY <1>1, <2>2, <2>3, <2>4, NoThrowForWant DEF NeverLacking
  <2> QED
    BY <2>1, <2>5
<1> QED
  BY <1>1, <1>2, <1>3 DEF KInv

LEMMA KnownHolds == Spec => []KInv
<1>1. Init => KInv
  <2> SUFFICES ASSUME Init PROVE KInv
    OBVIOUS
  <2>1. IInv /\ Fixed
    BY InitIInv DEF IInv
  <2>2. /\ pc = "scan" /\ i = 1 /\ known.min = Half - 1 /\ missed = {}
    BY DEF Init
  <2>3. MinOver(seen, 0) = Half - 1
    <3> DEFINE none == 0
    <3>1. none \in 0 .. NumBlocks /\ none = 0
      BY BoundsAssumption
    <3>2. N \in Nat \ {0} /\ seen \in [BlockNumbers -> Vectors(N)]
      BY <2>1, SeenFacts
    <3> HIDE DEF none, seen
    <3>3. MinOver(seen, none) = Half - 1
      BY <3>1, <3>2, MinOverFacts
    <3> QED
      BY <3>1, <3>3
  <2> HIDE DEF seen
  <2>4. i - 1 = 0 /\ \A m : ~ (m \in 1 .. 0)
    BY <2>2
  <2>5. Known
    <3>1. known.min = MinOver(seen, i - 1) /\ missed \subseteq 1 .. i - 1
      BY <2>2, <2>3, <2>4
    <3>2. Learnt(seen, i - 1)
      BY <2>4 DEF Learnt
    <3> QED
      BY <2>2, <3>1, <3>2 DEF Known, Scanned, Loaded
  <2> QED
    BY <2>1, <2>2, <2>5 DEF KInv, NeverLacking
<1> QED
  BY <1>1, NextKInv, PTL DEF Spec

(***************************************************************************)
(* DictionariesSuffice: the pass of agg/ prepares each block, as it saw    *)
(* it, with the minimum as of that block, the split prepares it as it is   *)
(* with the minimum of them all; where the two agree, whatever the order   *)
(* of access and the repetition, no encoding with a collected dictionary   *)
(* meets a value it lacks.                                                 *)
(***************************************************************************)
THEOREM DictionariesCover == Spec => []DictionariesSuffice
<1>1. KInv => DictionariesSuffice
  <2> SUFFICES ASSUME KInv, Collects, MinimumSettled
               PROVE  DictionariesSuffice
    BY DEF DictionariesSuffice
  <2>1. pc = "split" =>
          \A k \in BlockNumbers \ missed : ToSet(Prepared(k)) \subseteq known.initial
    BY Suffices DEF KInv, Scanned
  <2>2. pc = "reencode" /\ Overflow(setting.base) = 0 /\ Visited \notin missed
          => ToSet(ToEncode) \subseteq known.access
    BY DictionaryReach DEF KInv
  <2> QED
    BY <2>1, <2>2 DEF DictionariesSuffice, KInv, NeverLacking
<1> QED
  BY <1>1, KnownHolds, PTL

-------------------------------------------------------------------------------
(***************************************************************************)
(* Repetitions.  What a visit makes of the grid and of the shared buffer   *)
(* depends on the two as they were, and on nothing else that changes.      *)
(***************************************************************************)
GridAndBuffer == Grids \X Vectors(Extent)

AsSplit == <<[k \in BlockNumbers |-> [kind |-> setting.base, data |-> Prepared(k)]],
             Zeros(Extent)>>

Decodes(x, j) == IF setting.base = "direct" THEN x[2]
                 ELSE Decoded(x[1][order[j]], x[2], overrun[order[j]])

Given(x, j) == IF setting.base = "direct" THEN x[1][order[j]].data ELSE Decodes(x, j)

Changed(x, j) == Transformed(setting.access, Given(x, j))

AfterVisit(x, j) ==
  IF setting.access \in Mutating
  THEN <<[x[1] EXCEPT ![order[j]] = [kind |-> setting.again,
                                     data |-> SubSeq(Changed(x, j), 1, N)]],
         IF setting.base = "direct" THEN Decodes(x, j) ELSE Changed(x, j)>>
  ELSE <<x[1], Decodes(x, j)>>

Visits == [j \in 1 .. NumBlocks |->
             [x \in GridAndBuffer |->
                IF AfterVisit(x, j) \in GridAndBuffer THEN AfterVisit(x, j) ELSE x]]

RunOf(D, first, step) == CHOOSE f : Computes(f, NumBlocks, D, first, step)

\* A repetition: the grid and the buffer after each visit.
Trace == RunOf(GridAndBuffer, AsSplit, Visits)

SoFar == Trace[i - 1]

Replays ==
  /\ pc \in {"visit", "done"} => grid = SoFar[1] /\ decbuf = SoFar[2]
  /\ pc = "transform" => grid = SoFar[1] /\ decbuf = Decodes(SoFar, i)
  /\ pc = "reencode" =>
       /\ Buf = Changed(SoFar, i)
       /\ decbuf = IF direct THEN Decodes(SoFar, i) ELSE Changed(SoFar, i)
       /\ \A k \in BlockNumbers : k # Visited => grid[k] = SoFar[1][k]

FirstKept ==
  /\ pc = "scan" => rep = 1
  /\ pc \in Scanned /\ rep > 1 => firstGrid = Trace[NumBlocks][1]

RInv == IInv /\ Replays /\ FirstKept

LEMMA TraceIs ==
  ASSUME Fixed, known.min \in Word
  PROVE  Computes(Trace, NumBlocks, GridAndBuffer, AsSplit, Visits)
<1>1. AsSplit \in GridAndBuffer
  <2>1. \A k \in BlockNumbers : Prepared(k) \in Vectors(N)
    BY SettingFacts, PreparedType DEF Prepared
  <2>2. [k \in BlockNumbers |-> [kind |-> setting.base, data |-> Prepared(k)]] \in Grids
    BY <2>1, SettingFacts DEF Grids
  <2>3. Zeros(Extent) \in Vectors(Extent)
    BY SmallWords DEF Zeros, Vectors
  <2> QED
    BY <2>2, <2>3 DEF AsSplit, GridAndBuffer
<1>2. Visits \in [1 .. NumBlocks -> [GridAndBuffer -> GridAndBuffer]]
  BY DEF Visits
<1>3. NumBlocks \in Nat
  BY BoundsAssumption
<1>4. \E f : Computes(f, NumBlocks, GridAndBuffer, AsSplit, Visits)
  BY <1>1, <1>2, <1>3, LoopComputes
<1> QED
  BY <1>4 DEF Trace, RunOf

LEMMA SoFarFacts ==
  ASSUME IInv, pc \in Loaded
  PROVE  /\ SoFar \in GridAndBuffer /\ SoFar[1] \in Grids
         /\ i <= NumBlocks /\ AfterVisit(SoFar, i) \in GridAndBuffer
              => Trace[i] = AfterVisit(SoFar, i)
<1>1. Computes(Trace, NumBlocks, GridAndBuffer, AsSplit, Visits)
  BY TraceIs DEF IInv, TypeOK, Placed
<1>2. i \in 1 .. NumBlocks + 1 /\ NumBlocks \in Nat
  BY BoundsAssumption DEF IInv, TypeOK
<1>3. i - 1 \in 0 .. NumBlocks /\ (i <= NumBlocks => i \in 1 .. NumBlocks)
  BY <1>2
<1>4. SoFar \in GridAndBuffer
  BY <1>1, <1>3 DEF Computes, SoFar
<1>5. ASSUME i <= NumBlocks, AfterVisit(SoFar, i) \in GridAndBuffer
      PROVE  Trace[i] = AfterVisit(SoFar, i)
  <2>1. Trace[i] = Visits[i][SoFar]
    BY <1>1, <1>3, <1>5 DEF Computes, SoFar
  <2>2. Visits[i][SoFar] = AfterVisit(SoFar, i)
    <3> HIDE DEF SoFar
    <3> QED
      BY <1>3, <1>4, <1>5 DEF Visits
  <2> QED
    BY <2>1, <2>2
<1> QED
  BY <1>4, <1>5 DEF GridAndBuffer

LEMMA SameTrace ==
  ASSUME Fixed, input' = input, found' = found
  PROVE  /\ Trace' = Trace
         /\ \A x, j : /\ Decodes(x, j)' = Decodes(x, j)
                      /\ Changed(x, j)' = Changed(x, j)
<1>1. /\ setting' = setting /\ order' = order /\ overrun' = overrun
      /\ N' = N /\ Extent' = Extent /\ Grids' = Grids
      /\ raster' = raster /\ known' = known
      /\ \A min, block : PreparedWith(min, block)' = PreparedWith(min, block)
  BY SameInput DEF found
<1>2. \A cell, buf, fill : Decoded(cell, buf, fill)' = Decoded(cell, buf, fill)
  BY <1>1 DEF Decoded
<1>3. \A x, j : Decodes(x, j)' = Decodes(x, j)
  BY <1>1, <1>2 DEF Decodes
<1>4. \A x, j : Changed(x, j)' = Changed(x, j)
  BY <1>1, <1>3 DEF Changed, Given
<1>5. \A x, j : AfterVisit(x, j)' = AfterVisit(x, j)
  BY <1>1, <1>3, <1>4 DEF AfterVisit
<1>6. GridAndBuffer' = GridAndBuffer
  BY <1>1 DEF GridAndBuffer
<1>7. Visits' = Visits
  BY <1>5, <1>6 DEF Visits
<1>8. AsSplit' = AsSplit
  <2>1. \A k : Prepared(k)' = Prepared(k)
    BY <1>1 DEF Prepared
  <2> QED
    BY <1>1, <2>1 DEF AsSplit
<1>9. Trace' = Trace
  BY <1>6, <1>7, <1>8 DEF Trace
<1> QED
  BY <1>3, <1>4, <1>9

LEMMA FirstStays ==
  ASSUME RInv, input' = input, found' = found, rep' = rep, firstGrid' = firstGrid,
         pc \in Scanned \/ pc' \notin Scanned, pc' # "scan"
  PROVE  FirstKept'
<1>1. Trace' = Trace
  BY SameTrace DEF RInv, IInv
<1> QED
  BY <1>1 DEF RInv, FirstKept, Scanned, Loaded

LEMMA SplitReplays ==
  ASSUME RInv, Split
  PROVE  Replays' /\ FirstKept'
<1>1. /\ pc = "split" /\ pc' = "visit" /\ i' = 1
      /\ grid' = [k \in BlockNumbers |-> [kind |-> setting.base, data |-> Prepared(k)]]
      /\ decbuf' = Zeros(Extent)
      /\ UNCHANGED <<input, found, rep, firstGrid>>
  BY DEF Split, SplitReturns, Extent
<1>2. Fixed /\ known.min \in Word
  BY DEF RInv, IInv, TypeOK
<1>3. Trace[0] = AsSplit
  BY <1>1, <1>2, TraceIs DEF Computes
<1>4. SoFar' = AsSplit
  <2>1. Trace' = Trace
    BY <1>1, <1>2, SameTrace
  <2>2. i' - 1 = 0
    BY <1>1
  <2> QED
    BY <1>3, <2>1, <2>2 DEF SoFar
<1>5. Replays'
  BY <1>1, <1>4 DEF Replays, AsSplit
<1>6. FirstKept'
  BY <1>1, FirstStays DEF Scanned, Loaded
<1> QED
  BY <1>5, <1>6

\* What a step inside a visit leaves as it was.
LEMMA VisitFrame ==
  ASSUME Fixed, input' = input, found' = found, i' = i
  PROVE  /\ SoFar' = SoFar /\ Visited' = Visited
         /\ Decodes(SoFar, i)' = Decodes(SoFar, i)
         /\ Changed(SoFar, i)' = Changed(SoFar, i)
<1>1. Trace' = Trace
  BY SameTrace
<1>2. SoFar' = SoFar
  BY <1>1 DEF SoFar
<1>3. order' = order
  BY SameInput
<1>4. Decodes(SoFar, i)' = Decodes(SoFar, i) /\ Changed(SoFar, i)' = Changed(SoFar, i)
  <2> HIDE DEF SoFar
  <2> QED
    BY <1>2, SameTrace
<1> QED
  BY <1>2, <1>3, <1>4 DEF Visited

LEMMA DecodeReplays ==
  ASSUME RInv, Decode
  PROVE  Replays' /\ FirstKept'
<1>1. /\ pc = "visit" /\ pc' = "transform" /\ i <= NumBlocks
      /\ decbuf' = IF direct THEN decbuf ELSE Decoded(Cell, decbuf, overrun[Visited])
      /\ UNCHANGED <<input, found, rep, i, grid, direct, firstGrid>>
  BY DEF Decode
<1>2. /\ grid = SoFar[1] /\ decbuf = SoFar[2] /\ direct = (setting.base = "direct")
      /\ Fixed
  BY <1>1 DEF RInv, IInv, Replays, Placed, Loaded
<1>3. decbuf' = Decodes(SoFar, i)
  BY <1>1, <1>2 DEF Decodes, Cell, Visited
<1>4. Replays'
  BY <1>1, <1>2, <1>3, VisitFrame DEF Replays
<1>5. FirstKept'
  BY <1>1, FirstStays DEF Scanned, Loaded
<1> QED
  BY <1>4, <1>5

LEMMA GivenIs ==
  ASSUME RInv, pc = "transform"
  PROVE  Buf = Given(SoFar, i)
BY DEF RInv, IInv, Replays, Placed, Loaded, Buf, Given, Cell, Visited

LEMMA MutateReplays ==
  ASSUME RInv, Mutate
  PROVE  Replays' /\ FirstKept'
<1> DEFINE after == Transformed(setting.access, Buf)
<1>1. /\ pc = "transform" /\ pc' = "reencode"
      /\ decbuf' = IF direct THEN decbuf ELSE after
      /\ grid' = IF direct THEN [grid EXCEPT ![Visited].data = after] ELSE grid
      /\ UNCHANGED <<input, found, rep, i, direct, firstGrid>>
  BY DEF Mutate
<1>2. /\ Fixed /\ Visited \in BlockNumbers /\ grid \in Grids
  <2>1. pc \in Loaded /\ i <= NumBlocks
    BY <1>1 DEF RInv, IInv, Counting, Loaded
  <2> QED
    BY <2>1, VisitFacts DEF RInv
<1>3. /\ grid = SoFar[1] /\ decbuf = Decodes(SoFar, i) /\ after = Changed(SoFar, i)
  BY <1>1, GivenIs DEF RInv, Replays, Changed
<1> HIDE DEF after
<1>4. \A k \in BlockNumbers : k # Visited => grid'[k] = grid[k]
  BY <1>1, <1>2 DEF Grids
<1>5. Visited' = Visited
  BY <1>1, <1>2, VisitFrame
<1>6. Buf' = after
  <2>1. CASE direct
    <3>1. grid' = [grid EXCEPT ![Visited].data = after] /\ direct'
      BY <1>1, <2>1
    <3>2. grid'[Visited].data = after
      BY <1>2, <3>1 DEF Grids
    <3> QED
      BY <1>5, <3>1, <3>2 DEF Buf, Cell
  <2>2. CASE ~ direct
    BY <1>1, <2>2 DEF Buf
  <2> QED
    BY <2>1, <2>2
<1>7. Replays'
  <2>1. decbuf' = IF direct' THEN Decodes(SoFar, i) ELSE Changed(SoFar, i)
    BY <1>1, <1>3
  <2>2. \A k \in BlockNumbers : k # Visited => grid'[k] = SoFar[1][k]
    BY <1>3, <1>4
  <2> QED
    BY <1>1, <1>2, <1>3, <1>6, <2>1, <2>2, VisitFrame DEF Replays
<1>8. FirstKept'
  BY <1>1, FirstStays DEF Scanned, Loaded
<1> QED
  BY <1>7, <1>8

\* The visit is over: the trace goes on with what it made.
LEMMA VisitReplays ==
  ASSUME RInv, IInv', pc \in Loaded, pc' = "visit", i <= NumBlocks, i' = i + 1,
         input' = input, found' = found, rep' = rep, firstGrid' = firstGrid,
         AfterVisit(SoFar, i) = <<grid', decbuf'>>
  PROVE  Replays' /\ FirstKept'
<1>1. /\ Fixed /\ Grids' = Grids /\ Extent' = Extent /\ Trace' = Trace
  BY SameInput, SameTrace DEF RInv, IInv
<1>2. (grid \in Grids /\ decbuf \in Vectors(Extent))'
  BY DEF IInv, Placed, Loaded
<1>3. AfterVisit(SoFar, i) \in GridAndBuffer
  BY <1>1, <1>2 DEF GridAndBuffer
<1>4. Trace[i] = <<grid', decbuf'>>
  BY <1>3, SoFarFacts DEF RInv
<1>5. SoFar' = <<grid', decbuf'>>
  <2>1. i' - 1 = i
    BY DEF RInv, IInv, TypeOK
  <2> QED
    BY <1>1, <1>4, <2>1 DEF SoFar
<1>6. Replays'
  BY <1>5 DEF Replays
<1>7. FirstKept'
  BY FirstStays DEF Scanned, Loaded
<1> QED
  BY <1>6, <1>7

LEMMA ReadReplays ==
  ASSUME RInv, IInv', Read
  PROVE  Replays' /\ FirstKept'
<1>1. /\ pc = "transform" /\ pc' = "visit" /\ setting.access \in ReadOnly
      /\ i' = i + 1
      /\ UNCHANGED <<input, found, rep, grid, decbuf, direct, firstGrid>>
  BY DEF Read
<1>2. pc \in Loaded /\ i <= NumBlocks
  BY <1>1 DEF RInv, IInv, Counting, Loaded
<1>3. AfterVisit(SoFar, i) = <<grid', decbuf'>>
  BY <1>1, AccessFacts DEF RInv, Replays, AfterVisit
<1> QED
  BY <1>1, <1>2, <1>3, VisitReplays

LEMMA ReencodeReplays ==
  ASSUME RInv, IInv', Reencode
  PROVE  Replays' /\ FirstKept'
<1>1. /\ pc = "reencode" /\ pc' = "visit" /\ i' = i + 1
      /\ grid' = [grid EXCEPT ![Visited] = [kind |-> setting.again, data |-> ToEncode]]
      /\ UNCHANGED <<input, found, rep, decbuf, direct, firstGrid>>
  BY DEF Reencode
<1>2. /\ Visited \in BlockNumbers /\ grid \in Grids /\ direct = (setting.base = "direct")
      /\ pc \in Loaded /\ i <= NumBlocks /\ setting.access \in Mutating
  <2>1. pc \in Loaded /\ i <= NumBlocks
    BY <1>1 DEF RInv, IInv, Counting, Loaded
  <2> QED
    BY <1>1, <2>1, VisitFacts DEF RInv, IInv, Handed
<1>3. /\ Buf = Changed(SoFar, i)
      /\ decbuf = IF direct THEN Decodes(SoFar, i) ELSE Changed(SoFar, i)
      /\ \A k \in BlockNumbers : k # Visited => grid[k] = SoFar[1][k]
  BY <1>1 DEF RInv, Replays
<1> DEFINE codec == [kind |-> setting.again, data |-> ToEncode]
<1>4. ToEncode = SubSeq(Changed(SoFar, i), 1, N)
  BY <1>3 DEF ToEncode
<1>5. AfterVisit(SoFar, i) = <<[SoFar[1] EXCEPT ![Visited] = codec], decbuf>>
  BY <1>2, <1>3, <1>4 DEF AfterVisit, Visited
<1> HIDE DEF codec
<1>6. [SoFar[1] EXCEPT ![Visited] = codec] = grid'
  <2>1. SoFar[1] \in Grids
    BY <1>2, SoFarFacts DEF RInv
  <2>2. grid' = [grid EXCEPT ![Visited] = codec]
    BY <1>1 DEF codec
  <2> DEFINE was == SoFar[1]
  <2>3. was \in Grids /\ \A k \in BlockNumbers : k # Visited => grid[k] = was[k]
    BY <1>3, <2>1
  <2> HIDE DEF was
  <2>4. [was EXCEPT ![Visited] = codec] = [grid EXCEPT ![Visited] = codec]
    BY <1>2, <2>3 DEF Grids
  <2> QED
    BY <2>2, <2>4 DEF was
<1>7. AfterVisit(SoFar, i) = <<grid', decbuf'>>
  BY <1>1, <1>5, <1>6
<1> QED
  BY <1>1, <1>2, <1>7, VisitReplays

LEMMA NextRepReplays ==
  ASSUME RInv, NextRep
  PROVE  Replays' /\ FirstKept'
<1>1. /\ pc = "visit" /\ i = NumBlocks + 1 /\ rep' = rep + 1
      /\ pc' = IF rep = NumReps THEN "done" ELSE "split"
      /\ firstGrid' = IF rep = 1 THEN grid ELSE firstGrid
      /\ UNCHANGED <<input, found, i, grid, decbuf>>
  BY DEF NextRep
<1>2. Fixed /\ rep \in Nat \ {0} /\ NumBlocks \in Nat
  BY BoundsAssumption DEF RInv, IInv, TypeOK
<1>3. SoFar' = SoFar /\ Trace' = Trace
  BY <1>1, <1>2, SameTrace DEF SoFar
<1>4. Replays'
  BY <1>1, <1>3 DEF RInv, Replays
<1>5. grid = Trace[NumBlocks][1]
  <2>1. i - 1 = NumBlocks
    BY <1>1, <1>2
  <2> QED
    BY <1>1, <2>1 DEF RInv, Replays, SoFar
<1>6. FirstKept'
  <2>1. rep # 1 => rep > 1
    BY <1>2
  <2> QED
    BY <1>1, <1>3, <1>5, <2>1 DEF RInv, FirstKept, Scanned, Loaded
<1> QED
  BY <1>4, <1>6

LEMMA OtherReplays ==
  ASSUME RInv,
         \/ \E block \in Contents : Scan(block)
         \/ ScanStop \/ SplitThrows \/ SplitTraps \/ SplitUnread \/ MutateTraps
         \/ ReencodeThrows \/ UNCHANGED vars
  PROVE  Replays' /\ FirstKept'
<1>1. Fixed
  BY DEF RInv, IInv
<1>2. CASE \E block \in Contents : Scan(block)
  <2>1. pc = "scan" /\ pc' \in {"scan", "split"} /\ rep' = rep
    BY <1>2 DEF Scan
  <2>2. rep' = 1
    BY <2>1 DEF RInv, FirstKept
  <2> QED
    BY <2>1, <2>2 DEF Replays, FirstKept
<1>3. CASE ScanStop \/ SplitThrows \/ SplitTraps \/ SplitUnread \/ MutateTraps
           \/ ReencodeThrows
  <2>1. pc' \in {"terminated", "trapped", "unread"}
    BY <1>3 DEF ScanStop, ScanStops, SplitThrows, SplitTraps, SplitUnread, MutateTraps,
                ReencodeThrows
  <2> QED
    BY <2>1 DEF Replays, FirstKept, Scanned, Loaded
<1>4. CASE UNCHANGED vars
  <2>1. UNCHANGED <<input, found, rep, i, grid, decbuf, direct, pc, firstGrid>>
    BY <1>4 DEF vars
  <2>2. /\ SoFar' = SoFar /\ Visited' = Visited /\ Trace' = Trace
        /\ Decodes(SoFar, i)' = Decodes(SoFar, i)
        /\ Changed(SoFar, i)' = Changed(SoFar, i)
    BY <1>1, <2>1, VisitFrame, SameTrace
  <2>3. Buf' = Buf
    BY <2>1, <2>2 DEF Buf, Cell
  <2>4. Replays'
    BY <2>1, <2>2, <2>3 DEF RInv, Replays
  <2>5. FirstKept'
    BY <2>1, <2>2 DEF RInv, FirstKept
  <2> QED
    BY <2>4, <2>5
<1> QED
  BY <1>2, <1>3, <1>4

LEMMA ReplaysHold == Spec => []RInv
<1>1. Init => RInv
  <2> SUFFICES ASSUME Init PROVE RInv
    OBVIOUS
  <2>1. IInv
    BY InitIInv
  <2>2. pc = "scan" /\ rep = 1
    BY DEF Init
  <2> QED
    BY <2>1, <2>2 DEF RInv, Replays, FirstKept, Scanned, Loaded
<1>2. RInv /\ [Next]_vars => RInv'
  <2> SUFFICES ASSUME RInv, [Next]_vars PROVE RInv'
    OBVIOUS
  <2>1. IInv'
    BY NextIInv DEF RInv
  <2>2. Replays' /\ FirstKept'
    <3>1. CASE Split
      BY <3>1, SplitReplays
    <3>2. CASE Decode
      BY <3>2, DecodeReplays
    <3>3. CASE Mutate
      BY <3>3, MutateReplays
    <3>4. CASE Read
      BY <2>1, <3>4, ReadReplays
    <3>5. CASE Reencode
      BY <2>1, <3>5, ReencodeReplays
    <3>6. CASE NextRep
      BY <3>6, NextRepReplays
    <3>7. CASE \/ \E block \in Contents : Scan(block)
               \/ ScanStop \/ SplitThrows \/ SplitTraps \/ SplitUnread
               \/ MutateTraps \/ ReencodeThrows \/ UNCHANGED vars
      BY <3>7, OtherReplays
    <3> QED
      BY <3>1, <3>2, <3>3, <3>4, <3>5, <3>6, <3>7 DEF Next, Step, Over, ScanStop
  <2> QED
    BY <2>1, <2>2 DEF RInv
<1> QED
  BY <1>1, <1>2, PTL DEF Spec

(***************************************************************************)
(* RepsAgree: a repetition starts from the same split and a buffer of      *)
(* zeros, and each visit is a function of what the one before it left,     *)
(* overflow slots and codecs replaced in place included: every repetition  *)
(* of a combination ends with the grid of the first.                       *)
(***************************************************************************)
THEOREM RepetitionsAgree == Spec => []RepsAgree
<1>1. RInv => RepsAgree
  <2> SUFFICES ASSUME RInv, pc \in {"visit", "done"}, rep > 1, i = NumBlocks + 1
               PROVE  grid = firstGrid
    BY DEF RepsAgree
  <2>1. i - 1 = NumBlocks
    BY BoundsAssumption
  <2>2. grid = Trace[NumBlocks][1]
    BY <2>1 DEF RInv, Replays, SoFar
  <2>3. firstGrid = Trace[NumBlocks][1]
    BY DEF RInv, FirstKept, Scanned, Loaded
  <2> QED
    BY <2>2, <2>3
<1> QED
  BY <1>1, ReplaysHold, PTL

-------------------------------------------------------------------------------
(***************************************************************************)
(* Morton codes.  A coordinate and its half; a code is the lowest bits of  *)
(* the coordinates and the code of the halves.                             *)
(***************************************************************************)
LEMMA HalfOf ==
  ASSUME NEW x \in Nat
  PROVE  /\ x \div 2 \in Nat /\ x % 2 \in {0, 1} /\ x = 2 * (x \div 2) + (x % 2)
         /\ x # 0 => x \div 2 < x
         /\ x = 0 => x \div 2 = 0 /\ x % 2 = 0
OBVIOUS

LEMMA HalvesWithin ==
  ASSUME NEW n \in Nat, NEW x \in 0 .. n - 1
  PROVE  x \div 2 \in 0 .. n - 1
OBVIOUS

SpreadOf(f, x) == IF x = 0 THEN 0 ELSE (x % 2) + 4 * f[x \div 2]

LEMMA SpreadExists ==
  ASSUME NEW n \in Nat
  PROVE  \E f \in [0 .. n - 1 -> Nat] : \A x \in 0 .. n - 1 : f[x] = SpreadOf(f, x)
<1> DEFINE S == 0 .. n - 1
           Upto(f, k) == \A x \in S : x <= k => f[x] = SpreadOf(f, x)
           solved == {k \in 0 .. n : \E f \in [S -> Nat] : Upto(f, k)}
<1>1. 0 \in solved
  <2> DEFINE f == [x \in S |-> 0]
  <2>1. f \in [S -> Nat] /\ Upto(f, 0)
    BY DEF SpreadOf
  <2> HIDE DEF Upto, f
  <2> QED
    BY <2>1
<1>2. ASSUME NEW k \in 1 .. n, k - 1 \in solved PROVE k \in solved
  <2>1. PICK f \in [S -> Nat] : Upto(f, k - 1)
    BY <1>2
  <2> DEFINE g == [x \in S |-> IF x = k THEN SpreadOf(f, x) ELSE f[x]]
  <2>2. ASSUME NEW x \in S PROVE SpreadOf(f, x) \in Nat
    <3>1. x \in Nat /\ x \div 2 \in S
      BY HalvesWithin
    <3>2. f[x \div 2] \in Nat /\ x % 2 \in Nat
      BY <3>1, HalfOf
    <3> QED
      BY <3>2 DEF SpreadOf
  <2>3. g \in [S -> Nat]
    BY <2>2
  <2>4. ASSUME NEW x \in S, x <= k PROVE g[x] = SpreadOf(g, x)
    <3>1. x \in Nat /\ x \div 2 \in S /\ (x # 0 => x \div 2 # k)
      BY <2>4, HalvesWithin, HalfOf
    <3>2. x # 0 => g[x \div 2] = f[x \div 2]
      BY <3>1
    <3>3. SpreadOf(g, x) = SpreadOf(f, x)
      BY <3>2 DEF SpreadOf
    <3>4. x # k => x <= k - 1 /\ f[x] = SpreadOf(f, x)
      BY <2>1, <2>4
    <3>5. g[x] = IF x = k THEN SpreadOf(f, x) ELSE f[x]
      OBVIOUS
    <3> QED
      BY <3>3, <3>4, <3>5
  <2> HIDE DEF g
  <2>5. Upto(g, k) /\ k \in 0 .. n
    BY <2>4
  <2> HIDE DEF Upto
  <2> QED
    BY <2>3, <2>5
<1>3. n \in solved
  <2> HIDE DEF solved
  <2>1. \A k \in 0 .. n : k \in solved
    BY <1>1, <1>2, HoldsThroughout
  <2> QED
    BY <2>1
<1>4. PICK f \in [S -> Nat] : Upto(f, n)
  BY <1>3
<1>5. \A x \in S : f[x] = SpreadOf(f, x)
  BY <1>4
<1> QED
  BY <1>5

LEMMA SpreadIs ==
  ASSUME NEW n \in Nat, NEW x \in 0 .. n - 1
  PROVE  /\ Spread(n)[x] \in Nat
         /\ Spread(n)[x] = SpreadOf(Spread(n), x)
<1> DEFINE S == 0 .. n - 1
           Round(g) == [z \in S |-> IF z = 0 THEN 0 ELSE (z % 2) + 4 * g[z \div 2]]
           spread == CHOOSE g : g = Round(g)
<1>1. Spread(n) = spread
  BY DEF Spread
<1>2. \E f : f = Round(f)
  <2>1. PICK f \in [S -> Nat] : \A z \in S : f[z] = SpreadOf(f, z)
    BY SpreadExists
  <2>2. f = [z \in S |-> f[z]]
    BY <2>1
  <2>3. \A z \in S : f[z] = IF z = 0 THEN 0 ELSE (z % 2) + 4 * f[z \div 2]
    BY <2>1 DEF SpreadOf
  <2>4. f = Round(f)
    BY <2>2, <2>3, Zenon
  <2> QED
    BY <2>4
<1>3. spread = Round(spread)
  BY <1>2
<1> HIDE DEF spread
<1>4. \A z \in S : spread[z] = SpreadOf(spread, z)
  <2>1. \A z \in S : spread[z] = Round(spread)[z]
    BY <1>3
  <2> QED
    BY <2>1 DEF SpreadOf
<1>5. \A z \in S : spread[z] \in Nat
  <2> DEFINE bad == {z \in S : spread[z] \notin Nat}
  <2> SUFFICES ASSUME bad # {} PROVE FALSE
    OBVIOUS
  <2>1. bad \in SUBSET Nat
    OBVIOUS
  <2> HIDE DEF bad
  <2>2. PICK m \in bad : \A z \in bad : m <= z
    BY <2>1, LeastElement
  <2>3. m \in S /\ spread[m] \notin Nat /\ m \in Nat
    BY <2>2 DEF bad
  <2>4. spread[m] = SpreadOf(spread, m)
    BY <1>4, <2>3
  <2>5. m # 0
    BY <2>3, <2>4 DEF SpreadOf
  <2>6. m \div 2 < m /\ m \div 2 \in Nat /\ m % 2 \in Nat
    BY <2>3, <2>5, HalfOf
  <2>7. m \div 2 \in S /\ m \div 2 \notin bad
    BY <2>2, <2>3, <2>6, HalvesWithin
  <2>8. spread[m \div 2] \in Nat
    BY <2>7 DEF bad
  <2> QED
    BY <2>3, <2>4, <2>5, <2>6, <2>8 DEF SpreadOf
<1> QED
  BY <1>1, <1>4, <1>5

Code(n, x, y) == MortonCode(Spread(n), x, y)

LEMMA CodeSplits ==
  ASSUME NEW n \in Nat, NEW x \in 0 .. n - 1, NEW y \in 0 .. n - 1
  PROVE  /\ Code(n, x, y) \in Nat
         /\ x \div 2 \in 0 .. n - 1 /\ y \div 2 \in 0 .. n - 1
         /\ Code(n, x, y) = (x % 2) + 2 * (y % 2) + 4 * Code(n, x \div 2, y \div 2)
<1>1. ASSUME NEW z \in 0 .. n - 1
      PROVE  /\ z \div 2 \in 0 .. n - 1 /\ Spread(n)[z] \in Nat /\ Spread(n)[z \div 2] \in Nat
             /\ Spread(n)[z] = (z % 2) + 4 * Spread(n)[z \div 2]
  <2>1. z \in Nat /\ z \div 2 \in 0 .. n - 1
    BY HalvesWithin
  <2>2. Spread(n)[z] \in Nat /\ Spread(n)[z \div 2] \in Nat
    BY <2>1, SpreadIs
  <2>3. CASE z = 0
    <3>1. z \div 2 = 0 /\ z % 2 = 0
      BY <2>3
    <3>2. Spread(n)[0] = 0
      BY <2>3, SpreadIs DEF SpreadOf
    <3> QED
      BY <2>1, <2>2, <2>3, <3>1, <3>2
  <2>4. CASE z # 0
    <3>1. Spread(n)[z] = (z % 2) + 4 * Spread(n)[z \div 2]
      BY <2>4, SpreadIs DEF SpreadOf
    <3> QED
      BY <2>1, <2>2, <3>1
  <2> QED
    BY <2>3, <2>4
<1>2. x \in Nat /\ y \in Nat /\ x % 2 \in Nat /\ y % 2 \in Nat
  BY HalfOf
<1> DEFINE a == Spread(n)[x]
           b == Spread(n)[y]
           c == Spread(n)[x \div 2]
           d == Spread(n)[y \div 2]
<1>3. /\ a \in Nat /\ b \in Nat /\ c \in Nat /\ d \in Nat
      /\ a = (x % 2) + 4 * c /\ b = (y % 2) + 4 * d
  BY <1>1
<1>4. Code(n, x, y) = a + 2 * b /\ Code(n, x \div 2, y \div 2) = c + 2 * d
  BY DEF Code, MortonCode
<1> HIDE DEF a, b, c, d
<1> QED
  BY <1>1, <1>2, <1>3, <1>4

\* No two cells have one code: the least pair that had would have halves
\* that have.
LEMMA CodesDiffer ==
  ASSUME NEW n \in Nat, NEW x \in 0 .. n - 1, NEW y \in 0 .. n - 1,
         NEW u \in 0 .. n - 1, NEW v \in 0 .. n - 1, Code(n, x, y) = Code(n, u, v)
  PROVE  x = u /\ y = v
<1> DEFINE S == 0 .. n - 1
           Clash(a, b, c, d) == Code(n, a, b) = Code(n, c, d) /\ ~ (a = c /\ b = d)
           bad == {k \in Nat : \E a, b, c, d \in S : k = a + b + c + d /\ Clash(a, b, c, d)}
<1> SUFFICES ASSUME Clash(x, y, u, v) PROVE FALSE
  OBVIOUS
<1> HIDE DEF Clash
<1>1. x + y + u + v \in bad
  OBVIOUS
<1>2. bad \in SUBSET Nat /\ bad # {}
  BY <1>1
<1> HIDE DEF bad
<1>3. PICK m \in bad : \A k \in bad : m <= k
  BY <1>2, LeastElement
<1>4. PICK a \in S, b \in S, c \in S, d \in S : m = a + b + c + d /\ Clash(a, b, c, d)
  BY <1>3 DEF bad
<1> DEFINE a2 == a \div 2
           b2 == b \div 2
           c2 == c \div 2
           d2 == d \div 2
<1>5. /\ a2 \in S /\ b2 \in S /\ c2 \in S /\ d2 \in S
      /\ Code(n, a2, b2) \in Nat /\ Code(n, c2, d2) \in Nat
      /\ Code(n, a, b) = (a % 2) + 2 * (b % 2) + 4 * Code(n, a2, b2)
      /\ Code(n, c, d) = (c % 2) + 2 * (d % 2) + 4 * Code(n, c2, d2)
  BY CodeSplits
<1>6. /\ a \in Nat /\ b \in Nat /\ c \in Nat /\ d \in Nat
      /\ a2 \in Nat /\ b2 \in Nat /\ c2 \in Nat /\ d2 \in Nat
      /\ a = 2 * a2 + (a % 2) /\ b = 2 * b2 + (b % 2)
      /\ c = 2 * c2 + (c % 2) /\ d = 2 * d2 + (d % 2)
      /\ a % 2 \in {0, 1} /\ b % 2 \in {0, 1} /\ c % 2 \in {0, 1} /\ d % 2 \in {0, 1}
  BY HalfOf
<1>7. Code(n, a, b) = Code(n, c, d) /\ ~ (a = c /\ b = d)
  BY <1>4 DEF Clash
<1> HIDE DEF a2, b2, c2, d2
<1>8. a % 2 = c % 2 /\ b % 2 = d % 2 /\ Code(n, a2, b2) = Code(n, c2, d2)
  BY <1>5, <1>6, <1>7
<1>9. ~ (a2 = c2 /\ b2 = d2)
  BY <1>6, <1>7, <1>8
<1>10. a2 + b2 + c2 + d2 \in bad
  BY <1>5, <1>6, <1>8, <1>9 DEF bad, Clash
<1>11. a2 + b2 + c2 + d2 < m
  BY <1>4, <1>6, <1>9
<1> QED
  BY <1>2, <1>3, <1>6, <1>10, <1>11

(***************************************************************************)
(* Sides.  A side greater than 1 is a power of two when it is even and its *)
(* half is.                                                                *)
(***************************************************************************)
LEMMA MultiplesRest ==
  ASSUME NEW d \in Nat \ {0}, NEW q \in Nat
  PROVE  d * q \in Nat /\ (d * q) % d = 0
OBVIOUS

LEMMA ExactQuotient ==
  ASSUME NEW k \in Nat, NEW d \in Nat \ {0}, k % d = 0
  PROVE  \E q \in Nat : k = d * q
<1>1. k \div d \in Nat /\ k = d * (k \div d) + (k % d) /\ d * (k \div d) \in Nat
  BY DivMod
<1> QED
  BY <1>1

LEMMA TwiceDivides ==
  ASSUME NEW h \in Nat, NEW d \in Nat \ {0}, h % d = 0
  PROVE  (2 * h) % d = 0
<1>1. PICK q \in Nat : h = d * q
  BY ExactQuotient
<1>2. d * (2 * q) = 2 * (d * q) /\ 2 * q \in Nat
  OBVIOUS
<1>3. (d * (2 * q)) % d = 0
  BY <1>2, MultiplesRest
<1> QED
  BY <1>1, <1>2, <1>3

LEMMA OddDivides ==
  ASSUME NEW h \in Nat, NEW d \in Nat \ {0}, d % 2 = 1, (2 * h) % d = 0
  PROVE  h % d = 0
<1>1. PICK q \in Nat : 2 * h = d * q
  BY ExactQuotient
<1> DEFINE c == d \div 2
           r == q \div 2
<1>2. c \in Nat /\ d = 2 * c + 1 /\ r \in Nat /\ q = 2 * r + (q % 2) /\ q % 2 \in {0, 1}
  OBVIOUS
<1> HIDE DEF c, r
<1>3. q % 2 = 0
  <2> SUFFICES ASSUME q % 2 = 1 PROVE FALSE
    BY <1>2
  <2>1. d * q = 2 * (c * q) + q /\ c * q \in Nat
    BY <1>2
  <2>2. 2 * h = 2 * (c * q) + 2 * r + 1
    BY <1>1, <1>2, <2>1
  <2> DEFINE p == c * q
  <2>3. p \in Nat /\ 2 * h = 2 * p + 2 * r + 1
    BY <2>1, <2>2
  <2> HIDE DEF p
  <2> QED
    BY <1>2, <2>3
<1>4. d * q = 2 * (d * r) /\ d * r \in Nat
  BY <1>2, <1>3
<1> DEFINE p == d * r
<1>5. h = p
  <2>1. p \in Nat /\ 2 * h = 2 * p
    BY <1>1, <1>4
  <2> HIDE DEF p
  <2> QED
    BY <2>1
<1>6. (d * r) % d = 0
  BY <1>2, MultiplesRest
<1> QED
  BY <1>5, <1>6

LEMMA Squares ==
  ASSUME NEW h \in Nat
  PROVE  /\ h * h \in Nat /\ (2 * h) * (2 * h) = 4 * (h * h)
         /\ (2 * h + 1) * (2 * h + 1) = 4 * (h * h) + 4 * h + 1
OBVIOUS

LEMMA PowersHalve ==
  ASSUME NEW m \in Nat, m > 1
  PROVE  PowerOfTwo(m) <=> m % 2 = 0 /\ PowerOfTwo(m \div 2)
<1> DEFINE h == m \div 2
<1>1. h \in Nat \ {0} /\ h < m /\ (m % 2 = 0 => m = 2 * h)
  OBVIOUS
<1> HIDE DEF h
<1>2. ASSUME PowerOfTwo(m) PROVE m % 2 = 0 /\ PowerOfTwo(h)
  <2>1. m % m = 0 /\ m \in 2 .. m
    OBVIOUS
  <2>2. m % 2 = 0
    BY <1>2, <2>1 DEF PowerOfTwo
  <2>3. ASSUME NEW d \in 2 .. h, h % d = 0 PROVE d % 2 = 0
    <3>1. d \in Nat \ {0} /\ d \in 2 .. m
      BY <1>1
    <3>2. m % d = 0
      BY <1>1, <2>2, <2>3, <3>1, TwiceDivides
    <3> QED
      BY <1>2, <3>1, <3>2 DEF PowerOfTwo
  <2> QED
    BY <2>2, <2>3 DEF PowerOfTwo
<1>3. ASSUME m % 2 = 0, PowerOfTwo(h) PROVE PowerOfTwo(m)
  <2>1. ASSUME NEW d \in 2 .. m, m % d = 0, d % 2 # 0 PROVE FALSE
    <3>1. d \in Nat \ {0} /\ d % 2 = 1
      BY <2>1
    <3>2. (2 * h) % d = 0
      BY <1>1, <1>3, <2>1
    <3>3. h % d = 0
      BY <1>1, <3>1, <3>2, OddDivides
    <3>4. d <= h
      <4> SUFFICES ASSUME h < d PROVE FALSE
        BY <1>1
      <4>1. h % d = h
        BY <1>1, <3>1
      <4> QED
        BY <1>1, <3>3, <4>1
    <3> QED
      BY <1>3, <2>1, <3>3, <3>4 DEF PowerOfTwo
  <2> QED
    BY <2>1 DEF PowerOfTwo
<1> QED
  BY <1>2, <1>3 DEF h

(***************************************************************************)
(* The codes of a side that is a power of two fill its square and no more. *)
(***************************************************************************)
LEMMA SquareHolds ==
  ASSUME NEW n \in Nat, NEW m \in 1 .. n, PowerOfTwo(m),
         NEW x \in 0 .. m - 1, NEW y \in 0 .. m - 1
  PROVE  Code(n, x, y) <= m * m - 1
<1> DEFINE Fits(k) == \A a, b \in 0 .. k - 1 : Code(n, a, b) <= k * k - 1
           bad == {k \in 1 .. n : PowerOfTwo(k) /\ ~ Fits(k)}
<1> SUFFICES ASSUME ~ Fits(m) PROVE FALSE
  OBVIOUS
<1>1. bad \in SUBSET Nat /\ bad # {}
  OBVIOUS
<1> HIDE DEF bad, Fits
<1>2. PICK k \in bad : \A j \in bad : k <= j
  BY <1>1, LeastElement
<1>3. k \in 1 .. n /\ PowerOfTwo(k) /\ ~ Fits(k)
  BY <1>2 DEF bad
<1>4. PICK a \in 0 .. k - 1, b \in 0 .. k - 1 : ~ (Code(n, a, b) <= k * k - 1)
  BY <1>3 DEF Fits
<1> DEFINE a2 == a \div 2
           b2 == b \div 2
           h == k \div 2
<1>5. /\ a \in 0 .. n - 1 /\ b \in 0 .. n - 1 /\ a \in Nat /\ b \in Nat
      /\ a % 2 \in {0, 1} /\ b % 2 \in {0, 1}
  BY <1>3, HalfOf
<1>6. /\ Code(n, a, b) = (a % 2) + 2 * (b % 2) + 4 * Code(n, a2, b2)
      /\ a2 \in 0 .. n - 1 /\ b2 \in 0 .. n - 1 /\ Code(n, a2, b2) \in Nat
  <2>1. /\ Code(n, a, b) = (a % 2) + 2 * (b % 2) + 4 * Code(n, a2, b2)
        /\ a2 \in 0 .. n - 1 /\ b2 \in 0 .. n - 1
    BY <1>5, CodeSplits
  <2> HIDE DEF a2, b2
  <2> QED
    BY <2>1, CodeSplits
<1>7. CASE k = 1
  <2>1. a = 0 /\ b = 0
    BY <1>7
  <2>2. a2 = 0 /\ b2 = 0 /\ a % 2 = 0 /\ b % 2 = 0
    BY <2>1
  <2>3. Code(n, 0, 0) = 0
    BY <1>6, <2>1, <2>2
  <2> QED
    BY <1>4, <1>7, <2>1, <2>3
<1>8. CASE k # 1
  <2>1. k \in Nat /\ k > 1 /\ k % 2 = 0 /\ PowerOfTwo(h)
    BY <1>3, <1>8, PowersHalve
  <2>2. h \in 1 .. n /\ h < k /\ k = 2 * h
    BY <1>3, <2>1
  <2>3. a2 \in 0 .. h - 1 /\ b2 \in 0 .. h - 1
    BY <2>2, <1>5
  <2> HIDE DEF a2, b2, h
  <2>4. Fits(h)
    BY <1>2, <1>3, <2>1, <2>2 DEF bad
  <2>5. Code(n, a2, b2) <= h * h - 1
    BY <2>3, <2>4 DEF Fits
  <2>6. h * h \in Nat /\ k * k = 4 * (h * h)
    BY <2>2, Squares
  <2> DEFINE s == h * h
             t == k * k
  <2>7. s \in Nat /\ t = 4 * s /\ Code(n, a2, b2) <= s - 1 /\ ~ (Code(n, a, b) <= t - 1)
    BY <1>4, <2>5, <2>6
  <2> HIDE DEF s, t
  <2> QED
    BY <1>5, <1>6, <2>7
<1> QED
  BY <1>7, <1>8

(***************************************************************************)
(* Those of any other side leave it: its last cell does.                   *)
(***************************************************************************)
LEMMA DiagonalCodes ==
  ASSUME NEW n \in Nat, NEW k \in 0 .. n - 1
  PROVE  Code(n, k, k) >= k * k + 2 * k
<1> DEFINE bad == {j \in 0 .. n - 1 : ~ (Code(n, j, j) >= j * j + 2 * j)}
<1> SUFFICES ASSUME bad # {} PROVE FALSE
  OBVIOUS
<1>1. bad \in SUBSET Nat
  OBVIOUS
<1> HIDE DEF bad
<1>2. PICK m \in bad : \A j \in bad : m <= j
  BY <1>1, LeastElement
<1>3. m \in 0 .. n - 1 /\ m \in Nat /\ ~ (Code(n, m, m) >= m * m + 2 * m)
  BY <1>2 DEF bad
<1> DEFINE h == m \div 2
<1>4. /\ h \in Nat /\ m % 2 \in {0, 1} /\ m = 2 * h + (m % 2) /\ (m # 0 => h < m)
  BY <1>3, HalfOf
<1>5. /\ Code(n, m, m) \in Nat /\ h \in 0 .. n - 1
      /\ Code(n, m, m) = (m % 2) + 2 * (m % 2) + 4 * Code(n, h, h)
  BY <1>3, CodeSplits
<1> HIDE DEF h
<1>6. Code(n, h, h) \in Nat
  BY <1>5, CodeSplits
<1>7. m # 0
  <2>1. m = 0 => m * m + 2 * m = 0
    OBVIOUS
  <2> QED
    BY <1>3, <1>5, <2>1
<1>8. Code(n, h, h) >= h * h + 2 * h
  BY <1>2, <1>4, <1>5, <1>7, <1>3 DEF bad
<1>9. /\ h * h \in Nat
      /\ m % 2 = 0 => m * m = 4 * (h * h)
      /\ m % 2 = 1 => m * m = 4 * (h * h) + 4 * h + 1
  <2>1. /\ h * h \in Nat
        /\ (2 * h) * (2 * h) = 4 * (h * h)
        /\ (2 * h + 1) * (2 * h + 1) = 4 * (h * h) + 4 * h + 1
    BY <1>4, Squares
  <2>2. m % 2 = 0 => m = 2 * h
    BY <1>3, <1>4
  <2>3. m % 2 = 1 => m = 2 * h + 1
    BY <1>3, <1>4
  <2> QED
    BY <2>1, <2>2, <2>3
<1> DEFINE s == h * h
           t == m * m
<1>10. /\ s \in Nat /\ Code(n, h, h) >= s + 2 * h /\ ~ (Code(n, m, m) >= t + 2 * m)
       /\ (m % 2 = 0 => t = 4 * s) /\ (m % 2 = 1 => t = 4 * s + 4 * h + 1)
  BY <1>3, <1>8, <1>9
<1> HIDE DEF s, t
<1> QED
  BY <1>3, <1>4, <1>5, <1>6, <1>10

LEMMA SquareMissed ==
  ASSUME NEW n \in Nat, NEW m \in 1 .. n, ~ PowerOfTwo(m)
  PROVE  Code(n, m - 1, m - 1) > m * m - 1
<1> DEFINE Missed(k) == Code(n, k - 1, k - 1) > k * k - 1
           bad == {k \in 1 .. n : ~ PowerOfTwo(k) /\ ~ Missed(k)}
<1> SUFFICES ASSUME ~ Missed(m) PROVE FALSE
  OBVIOUS
<1>1. bad \in SUBSET Nat /\ bad # {}
  OBVIOUS
<1> HIDE DEF bad, Missed
<1>2. PICK k \in bad : \A j \in bad : k <= j
  BY <1>1, LeastElement
<1>3. k \in 1 .. n /\ ~ PowerOfTwo(k) /\ ~ Missed(k)
  BY <1>2 DEF bad
<1>4. k > 1
  <2>1. PowerOfTwo(1)
    BY DEF PowerOfTwo
  <2> QED
    BY <1>3, <2>1
<1> DEFINE h == k \div 2
<1>5. /\ h \in 1 .. n /\ h < k
      /\ k % 2 = 0 => k = 2 * h /\ (k - 1) \div 2 = h - 1 /\ (k - 1) % 2 = 1
      /\ k % 2 = 1 => k = 2 * h + 1 /\ (k - 1) \div 2 = h /\ (k - 1) % 2 = 0
      /\ k % 2 \in {0, 1} /\ k - 1 \in 0 .. n - 1
  BY <1>3, <1>4
<1>6. ~ (k % 2 = 0 /\ PowerOfTwo(h))
  BY <1>3, <1>4, PowersHalve
<1> HIDE DEF h
<1> DEFINE z == k - 1
<1>7. /\ Code(n, z, z) = (z % 2) + 2 * (z % 2) + 4 * Code(n, z \div 2, z \div 2)
      /\ ~ (Code(n, z, z) > k * k - 1)
  <2>1. ~ (Code(n, z, z) > k * k - 1)
    BY <1>3 DEF Missed
  <2>2. z \in 0 .. n - 1
    BY <1>5
  <2> HIDE DEF z
  <2> QED
    BY <2>1, <2>2, CodeSplits
<1>8. CASE k % 2 = 0
  <2>1. Missed(h)
    BY <1>2, <1>3, <1>5, <1>6, <1>8 DEF bad
  <2>2. Code(n, h - 1, h - 1) > h * h - 1
    BY <2>1 DEF Missed
  <2>3. h - 1 \in 0 .. n - 1
    BY <1>5
  <2> DEFINE w == h - 1
  <2>4. Code(n, w, w) \in Nat
    <3>1. w \in 0 .. n - 1
      BY <2>3
    <3> HIDE DEF w
    <3> QED
      BY <3>1, CodeSplits
  <2>5. h * h \in Nat /\ k * k = 4 * (h * h)
    BY <1>5, <1>8, Squares
  <2>6. Code(n, z, z) = 3 + 4 * Code(n, w, w)
    BY <1>5, <1>7, <1>8, <2>4
  <2> DEFINE s == h * h
             t == k * k
  <2>7. /\ s \in Nat /\ t = 4 * s /\ Code(n, w, w) > s - 1 /\ ~ (Code(n, z, z) > t - 1)
    BY <1>7, <2>2, <2>5
  <2> HIDE DEF s, t, w, z
  <2> QED
    BY <2>4, <2>6, <2>7
<1>9. CASE k % 2 = 1
  <2>1. k = 2 * h + 1 /\ h \in 0 .. n - 1 /\ h \in Nat
    BY <1>3, <1>5, <1>9
  <2>2. Code(n, h, h) \in Nat /\ Code(n, h, h) >= h * h + 2 * h
    BY <2>1, CodeSplits, DiagonalCodes
  <2>3. h * h \in Nat /\ k * k = 4 * (h * h) + 4 * h + 1
    BY <2>1, Squares
  <2>4. Code(n, z, z) = 4 * Code(n, h, h)
    BY <1>5, <1>7, <1>9, <2>2
  <2> DEFINE s == h * h
             t == k * k
  <2>5. /\ s \in Nat /\ t = 4 * s + 4 * h + 1 /\ Code(n, h, h) >= s + 2 * h
        /\ ~ (Code(n, z, z) > t - 1)
    BY <1>7, <2>2, <2>3
  <2> HIDE DEF s, t, z
  <2> QED
    BY <1>5, <2>1, <2>2, <2>4, <2>5
<1> QED
  BY <1>5, <1>8, <1>9

LEMMA ThrowsUnlessPower ==
  ASSUME NEW n \in Nat \ {0}
  PROVE  MortonThrows(n) <=> ~ PowerOfTwo(n)
<1>1. MortonThrows(n) <=> \E x, y \in 0 .. n - 1 : Code(n, x, y) > n * n - 1
  BY DEF MortonThrows, Code
<1>2. n \in 1 .. n /\ n - 1 \in 0 .. n - 1 /\ n \in Nat /\ n * n - 1 \in Int
  OBVIOUS
<1>3. ASSUME PowerOfTwo(n), NEW x \in 0 .. n - 1, NEW y \in 0 .. n - 1
      PROVE  ~ (Code(n, x, y) > n * n - 1)
  <2>1. Code(n, x, y) <= n * n - 1 /\ Code(n, x, y) \in Nat
    BY <1>2, <1>3, SquareHolds, CodeSplits
  <2> QED
    BY <1>2, <2>1
<1>4. ~ PowerOfTwo(n) => Code(n, n - 1, n - 1) > n * n - 1
  BY <1>2, SquareMissed
<1> QED
  BY <1>1, <1>2, <1>3, <1>4

-------------------------------------------------------------------------------
(***************************************************************************)
(* What moves every value to a place of its own keeps the values.          *)
(***************************************************************************)
Rearranged(out, in) == \A v : Occurrences(v, out) = Occurrences(v, in)

LEMMA Permuted ==
  ASSUME NEW m \in Nat, NEW in \in Vectors(m), NEW out \in Vectors(m), NEW pos,
         \A q \in 1 .. m : pos[q] \in 1 .. m /\ out[pos[q]] = in[q],
         \A p, q \in 1 .. m : pos[p] = pos[q] => p = q
  PROVE  Rearranged(out, in)
<1> DEFINE S == 1 .. m
           moved == [q \in S |-> pos[q]]
<1>1. IsFiniteSet(S)
  BY FS_Interval
<1>2. /\ \A q \in S : moved[q] \in S /\ out[moved[q]] = in[q]
      /\ \A p, q \in S : moved[p] = moved[q] => p = q
      /\ moved \in [S -> S]
  OBVIOUS
<1> HIDE DEF S, moved
<1>3. moved \in Injection(S, S)
  BY <1>2 DEF Injection, IsInjective
<1>4. moved \in Surjection(S, S)
  BY <1>1, <1>3, FS_Injection
<1>5. \A p \in S : \E q \in S : moved[q] = p
  BY <1>4 DEF Surjection
<1>6. DOMAIN in = S /\ DOMAIN out = S
  BY DEF Vectors, S
<1>7. ASSUME NEW v PROVE Occurrences(v, out) = Occurrences(v, in)
  <2> DEFINE A == {q \in S : in[q] = v}
             B == {p \in S : out[p] = v}
             f == [q \in A |-> moved[q]]
  <2>1. Occurrences(v, in) = Cardinality(A) /\ Occurrences(v, out) = Cardinality(B)
    BY <1>6 DEF Occurrences
  <2>2. A \in SUBSET S
    OBVIOUS
  <2>3. /\ f \in [A -> B]
        /\ \A p, q \in A : f[p] = f[q] => p = q
        /\ \A p \in B : \E q \in A : f[q] = p
    <3>1. \A q \in A : f[q] \in B
      BY <1>2
    <3>2. ASSUME NEW p \in B PROVE \E q \in A : f[q] = p
      <4>1. PICK q \in S : moved[q] = p
        BY <1>5
      <4>2. q \in A
        BY <1>2, <4>1
      <4> QED
        BY <4>1, <4>2
    <3> QED
      BY <1>2, <3>1, <3>2
  <2> HIDE DEF A, B, f
  <2>4. IsFiniteSet(A)
    BY <1>1, <2>2, FS_Subset
  <2>5. f \in Bijection(A, B)
    BY <2>3 DEF Bijection, Injection, Surjection, IsInjective
  <2>6. ExistsBijection(A, B)
    BY <2>5 DEF ExistsBijection
  <2>7. Cardinality(B) = Cardinality(A)
    BY <2>4, <2>6, FS_Bijection
  <2> QED
    BY <2>1, <2>7
<1> QED
  BY <1>7 DEF Rearranged

(***************************************************************************)
(* A position of the block and its row and column.                         *)
(***************************************************************************)
Row(n, q) == (q - 1) \div n
Col(n, q) == (q - 1) % n

LEMMA RowAndCol ==
  ASSUME NEW n \in Nat \ {0}, NEW q \in 1 .. n * n
  PROVE  /\ Row(n, q) \in 0 .. n - 1 /\ Col(n, q) \in 0 .. n - 1
         /\ q = Row(n, q) * n + Col(n, q) + 1 /\ Row(n, q) * n \in Nat
<1>1. q - 1 \in Nat /\ n * n \in Nat /\ q - 1 < n * n
  OBVIOUS
<1> DEFINE d == q - 1
           r == d \div n
           c == d % n
<1>2. d \in Nat /\ r \in Nat /\ c \in 0 .. n - 1 /\ n * r \in Nat /\ d = n * r + c
  BY <1>1, DivMod
<1>3. r < n
  BY <1>1, QuotientBelow
<1>4. q = d + 1 /\ Row(n, q) = r /\ Col(n, q) = c
  BY DEF Row, Col
<1> HIDE DEF d, r, c
<1>5. r * n = n * r
  BY <1>2
<1> QED
  BY <1>2, <1>3, <1>4, <1>5

\* Rows and columns tell positions apart.
LEMMA RowOf ==
  ASSUME NEW n \in Nat \ {0}, NEW x \in 0 .. n - 1, NEW y \in 0 .. n - 1
  PROVE  Row(n, y * n + x + 1) = y /\ Col(n, y * n + x + 1) = x
<1>1. y * n \in Nat /\ y * n + x + 1 \in 1 .. n * n
  BY PositionInBlock
<1> DEFINE q == y * n + x + 1
           r == Row(n, q)
           c == Col(n, q)
<1>2. /\ r \in 0 .. n - 1 /\ c \in 0 .. n - 1 /\ q = r * n + c + 1 /\ r * n \in Nat
  BY <1>1, RowAndCol
<1>3. y * n + x = r * n + c
  BY <1>1, <1>2
<1> HIDE DEF r, c
<1>4. ~ (r < y)
  <2> SUFFICES ASSUME r < y PROVE FALSE
    OBVIOUS
  <2>1. r + 1 \in Nat /\ r + 1 <= y /\ n * (r + 1) <= n * y
    BY <1>2, ProductAtMost
  <2>2. n * (r + 1) = r * n + n /\ n * y = y * n
    BY <1>2
  <2> QED
    BY <1>1, <1>2, <1>3, <2>1, <2>2
<1>5. ~ (y < r)
  <2> SUFFICES ASSUME y < r PROVE FALSE
    OBVIOUS
  <2>1. y + 1 \in Nat /\ y + 1 <= r /\ n * (y + 1) <= n * r
    BY <1>2, ProductAtMost
  <2>2. n * (y + 1) = y * n + n /\ n * r = r * n
    BY <1>2
  <2> QED
    BY <1>1, <1>2, <1>3, <2>1, <2>2
<1>6. r = y
  BY <1>2, <1>4, <1>5
<1> QED
  BY <1>1, <1>2, <1>3, <1>6 DEF r, c

\* The zigzag, which undoes itself.
Mirror(n, q) ==
  (IF Row(n, q) % 2 = 0 THEN Col(n, q) ELSE n - 1 - Col(n, q)) + Row(n, q) * n + 1

LEMMA MirrorFacts ==
  ASSUME NEW n \in Nat \ {0}, NEW q \in 1 .. n * n
  PROVE  Mirror(n, q) \in 1 .. n * n /\ Mirror(n, Mirror(n, q)) = q
<1> DEFINE y == Row(n, q)
           c == Col(n, q)
           x == IF y % 2 = 0 THEN c ELSE n - 1 - c
           p == Mirror(n, q)
<1>1. y \in 0 .. n - 1 /\ c \in 0 .. n - 1 /\ q = y * n + c + 1 /\ y * n \in Nat
  BY RowAndCol
<1>2. p = x + y * n + 1
  BY DEF Mirror
<1> HIDE DEF y, c, p
<1>3. /\ x \in 0 .. n - 1
      /\ (IF y % 2 = 0 THEN x ELSE n - 1 - x) = c
  BY <1>1
<1> HIDE DEF x
<1>4. p = y * n + x + 1
  BY <1>1, <1>2, <1>3
<1>5. p \in 1 .. n * n /\ Row(n, p) = y /\ Col(n, p) = x
  BY <1>1, <1>3, <1>4, PositionInBlock, RowOf
<1>6. Mirror(n, p) = c + y * n + 1
  BY <1>3, <1>5 DEF Mirror
<1>7. Mirror(n, p) = q
  BY <1>1, <1>6
<1> QED
  BY <1>5, <1>7 DEF p

LEMMA ZigzagRearranges ==
  ASSUME NEW n \in Nat \ {0}, NEW data \in Vectors(n * n)
  PROVE  Rearranged(RemapToZigzagOrder(data, n), data)
<1> DEFINE m == n * n
           out == RemapToZigzagOrder(data, n)
           pos == [q \in 1 .. m |-> Mirror(n, q)]
<1>1. m \in Nat /\ data \in Vectors(m) /\ out \in Vectors(m)
  BY ZigzagValues DEF Vectors
<1>2. out = [q \in 1 .. m |-> data[Mirror(n, q)]]
  BY DEF RemapToZigzagOrder, Mirror, Row, Col
<1>3. \A q \in 1 .. m : pos[q] \in 1 .. m /\ pos[pos[q]] = q
  BY MirrorFacts
<1>4. \A q \in 1 .. m : out[q] = data[pos[q]]
  BY <1>2
<1> HIDE DEF m, out, pos
<1>5. \A q \in 1 .. m : pos[q] \in 1 .. m /\ out[pos[q]] = data[q]
  BY <1>3, <1>4
<1>6. \A p, q \in 1 .. m : pos[p] = pos[q] => p = q
  BY <1>3
<1>7. Rearranged(out, data)
  BY <1>1, <1>5, <1>6, Permuted
<1> QED
  BY <1>7 DEF out

\* The Morton order: every value goes to the place of its code.
Place(n, q) == Code(n, Col(n, q), Row(n, q)) + 1

LEMMA PlaceFacts ==
  ASSUME NEW n \in Nat \ {0}, ~ MortonThrows(n)
  PROVE  /\ \A q \in 1 .. n * n : Place(n, q) \in 1 .. n * n
         /\ \A p, q \in 1 .. n * n : Place(n, p) = Place(n, q) => p = q
<1>1. ASSUME NEW q \in 1 .. n * n
      PROVE  /\ Place(n, q) \in 1 .. n * n
             /\ Code(n, Col(n, q), Row(n, q)) = Place(n, q) - 1
  <2>1. Row(n, q) \in 0 .. n - 1 /\ Col(n, q) \in 0 .. n - 1
    BY RowAndCol
  <2>2. Code(n, Col(n, q), Row(n, q)) \in Nat
    BY <2>1, CodeSplits
  <2>3. ~ (Code(n, Col(n, q), Row(n, q)) > n * n - 1)
    BY <2>1 DEF MortonThrows, Code
  <2>4. n * n \in Nat
    OBVIOUS
  <2> QED
    BY <2>2, <2>3, <2>4 DEF Place
<1>2. ASSUME NEW p \in 1 .. n * n, NEW q \in 1 .. n * n, Place(n, p) = Place(n, q)
      PROVE  p = q
  <2>1. Code(n, Col(n, p), Row(n, p)) = Code(n, Col(n, q), Row(n, q))
    BY <1>1, <1>2
  <2>2. /\ Row(n, p) \in 0 .. n - 1 /\ Col(n, p) \in 0 .. n - 1
        /\ Row(n, q) \in 0 .. n - 1 /\ Col(n, q) \in 0 .. n - 1
        /\ p = Row(n, p) * n + Col(n, p) + 1 /\ q = Row(n, q) * n + Col(n, q) + 1
    BY RowAndCol
  <2>3. Col(n, p) = Col(n, q) /\ Row(n, p) = Row(n, q)
    BY <2>1, <2>2, CodesDiffer
  <2> QED
    BY <2>2, <2>3
<1> QED
  BY <1>1, <1>2

LEMMA MortonRearranges ==
  ASSUME NEW n \in Nat \ {0}, NEW data \in Vectors(n * n), ~ MortonThrows(n)
  PROVE  Rearranged(RemapToMortonOrder(data, n), data)
<1> DEFINE m == n * n
           out == RemapToMortonOrder(data, n)
           pos == [q \in 1 .. m |-> Place(n, q)]
           D == 0 .. n - 1
           Sources(d) == {s \in D \X D : Code(n, s[1], s[2]) = d - 1}
           one(d) == CHOOSE s \in Sources(d) : TRUE
<1>1. m \in Nat /\ data \in Vectors(m) /\ out \in Vectors(m)
  BY MortonValues, SmallWords DEF Vectors
<1>2. out = [d \in 1 .. m |-> IF Sources(d) = {} THEN 0
                              ELSE data[one(d)[2] * n + one(d)[1] + 1]]
  BY DEF RemapToMortonOrder, Code
<1>3. /\ \A q \in 1 .. m : pos[q] \in 1 .. m
      /\ \A p, q \in 1 .. m : pos[p] = pos[q] => p = q
  BY PlaceFacts
<1>4. ASSUME NEW q \in 1 .. m PROVE out[pos[q]] = data[q]
  <2> DEFINE x == Col(n, q)
             y == Row(n, q)
             d == Place(n, q)
             s == one(d)
  <2>1. x \in D /\ y \in D /\ q = y * n + x + 1
    BY RowAndCol
  <2>2. d \in 1 .. m /\ pos[q] = d /\ d = Code(n, x, y) + 1
    BY <1>3 DEF Place
  <2> HIDE DEF x, y, d
  <2>3. Code(n, x, y) \in Nat
    BY <2>1, CodeSplits
  <2>4. Code(n, x, y) = d - 1
    BY <2>2, <2>3
  <2>5. <<x, y>> \in Sources(d)
    BY <2>1, <2>4
  <2>6. s \in Sources(d)
    BY <2>5
  <2>7. s \in D \X D /\ Code(n, s[1], s[2]) = Code(n, x, y)
    BY <2>4, <2>6
  <2>8. out[d] = data[s[2] * n + s[1] + 1]
    BY <1>2, <2>2, <2>5
  <2> HIDE DEF s, Sources
  <2>9. s[1] \in D /\ s[2] \in D
    BY <2>7
  <2>10. s[1] = x /\ s[2] = y
    BY <2>1, <2>7, <2>9, CodesDiffer
  <2> QED
    BY <2>1, <2>2, <2>8, <2>10
<1> HIDE DEF m, out, pos
<1>5. Rearranged(out, data)
  BY <1>1, <1>3, <1>4, Permuted
<1> QED
  BY <1>5 DEF out

LEMMA OrderingRearranges ==
  ASSUME NEW n \in Nat \ {0}, NEW data \in Vectors(n * n), NEW o \in Orderings,
         ~ OrderingThrows(o, n)
  PROVE  Rearranged(ApplyOrdering(data, o, n), data)
<1>1. CASE o = "default"
  BY <1>1 DEF ApplyOrdering, Rearranged
<1>2. CASE o = "zigzag"
  BY <1>2, ZigzagRearranges DEF ApplyOrdering
<1>3. CASE o = "morton"
  BY <1>3, MortonRearranges DEF ApplyOrdering, OrderingThrows
<1> QED
  BY <1>1, <1>2, <1>3 DEF Orderings

(***************************************************************************)
(* The inductive invariant for the orderings: the program is ended by an   *)
(* ordering, or by a codec that may throw.  Placed holds what is left:     *)
(* no block is visited after an ordering that throws.                      *)
(***************************************************************************)
EndedFor ==
  pc = "terminated" =>
    \/ OrderingThrows(setting.ordering, setting.side)
    \/ {setting.base, setting.again} \cap {"cascade", "padded", "dict"} # {}

OInv == IInv /\ EndedFor

LEMMA NextOInv == OInv /\ [Next]_vars => OInv'
<1> SUFFICES ASSUME OInv, [Next]_vars PROVE OInv'
  OBVIOUS
<1>1. IInv /\ IInv' /\ Fixed /\ EndedFor
  BY NextIInv DEF OInv, IInv
<1>2. setting' = setting
  <2>1. CASE \E block \in Contents : Scan(block)
    BY <2>1 DEF Scan, input
  <2>2. CASE \A block \in Contents : ~ Scan(block)
    BY <2>2, FoundFrame DEF input
  <2> QED
    BY <2>1, <2>2
<1>3. \A kind, values, dictionary :
        MustThrow(kind, values, dictionary) => kind \in {"padded", "dict"}
  BY DEF MustThrow
<1>4. SplitThrows => \/ OrderingThrows(setting.ordering, setting.side)
                     \/ setting.base \in {"cascade", "padded", "dict"}
  BY <1>3 DEF SplitThrows, BlockThrows
<1>5. ReencodeThrows => setting.again \in {"cascade", "padded", "dict"}
  BY <1>3 DEF ReencodeThrows, AgainThrows
<1>6. pc' = "terminated" =>
        \/ SplitThrows \/ ReencodeThrows \/ pc = "terminated"
        \/ OrderingThrows(setting.ordering, setting.side)
  <2>1. CASE \E block \in Contents : Scan(block)
    BY <2>1 DEF Scan
  <2>2. CASE \A block \in Contents : ~ Scan(block)
    BY <2>2, FoundFrame
  <2> QED
    BY <2>1, <2>2
<1>7. EndedFor'
  BY <1>1, <1>2, <1>4, <1>5, <1>6 DEF EndedFor
<1> QED
  BY <1>1, <1>7 DEF OInv

(***************************************************************************)
(* OrderingKeepsTheValues: for every raster, RemapToZigzagOrder and        *)
(* RemapToMortonOrder hand every codec the values of the block, each as    *)
(* often as it occurs in it; remapping to Morton order throws for the      *)
(* sides that are not powers of two and no others, and with codecs that    *)
(* throw nothing this alone ends the program.                              *)
(***************************************************************************)
THEOREM OrderingsRearrange == Spec => []OrderingKeepsTheValues
<1>1. Init => OInv
  BY InitIInv DEF Init, OInv, EndedFor
<1>2. OInv => OrderingKeepsTheValues
  <2> SUFFICES ASSUME OInv PROVE OrderingKeepsTheValues
    OBVIOUS
  <2>1. IInv /\ Fixed /\ EndedFor
    BY DEF OInv, IInv
  <2>2. /\ setting.side \in Nat \ {0} /\ N = setting.side * setting.side
        /\ setting.ordering \in Orderings
    BY <2>1, SettingFacts
  <2>3. ASSUME pc = "visit", i = 1, setting.initial = "none", NEW k \in BlockNumbers
        PROVE  Rearranged(grid[k].data, ShiftedBy(known.min, raster[k]))
    <3> DEFINE shifted == ShiftedBy(known.min, raster[k])
    <3>1. known.min \in Word
      BY <2>1 DEF IInv, TypeOK
    <3>2. shifted \in Vectors(N)
      BY <2>1, <3>1, SettingFacts, PreparedType
    <3>3. Prepared(k) = ApplyOrdering(shifted, setting.ordering, setting.side)
      BY <2>3 DEF Prepared, PreparedWith, OrderedBy, Transformed
    <3>4. ~ OrderingThrows(setting.ordering, setting.side)
      BY <2>1, <2>3 DEF IInv, Placed, Loaded
    <3>5. grid[k] = [kind |-> setting.base, data |-> Prepared(k)]
      <4>1. AtHead(k)
        BY <2>1, <2>3 DEF IInv, Cells, Loaded
      <4>2. k \notin Reached
        BY <2>3 DEF Reached
      <4> QED
        BY <4>1, <4>2 DEF AtHead
    <3>6. grid[k].data = Prepared(k)
      BY <3>5
    <3> HIDE DEF shifted
    <3>7. Rearranged(Prepared(k), shifted)
      BY <2>2, <3>2, <3>3, <3>4, OrderingRearranges
    <3> QED
      BY <3>6, <3>7 DEF shifted
  <2>4. pc \in Stages \ {"scan", "split"} => ~ OrderingThrows(setting.ordering, setting.side)
    BY <2>1 DEF IInv, Placed, Loaded, Stages
  <2>5. OrderingThrows(setting.ordering, setting.side)
          <=> setting.ordering = "morton" /\ ~ PowerOfTwo(setting.side)
    BY <2>2, ThrowsUnlessPower DEF OrderingThrows
  <2>6. {setting.base, setting.again} \subseteq {"plain", "direct", "fused"}
          => {setting.base, setting.again} \cap {"cascade", "padded", "dict"} = {}
    OBVIOUS
  <2>7. pc = "visit" /\ i = 1 /\ setting.initial = "none" =>
          \A k \in BlockNumbers :
            LET shifted == ShiftedBy(known.min, raster[k])
            IN  \A v \in Word : Occurrences(v, grid[k].data) = Occurrences(v, shifted)
    BY <2>3 DEF Rearranged
  <2> QED
    BY <2>1, <2>4, <2>5, <2>6, <2>7 DEF OrderingKeepsTheValues, EndedFor
<1> QED
  BY <1>1, <1>2, NextOInv, PTL DEF Spec
===============================================================================

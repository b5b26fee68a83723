----------------------------- MODULE DriversProofs -----------------------------
(***************************************************************************)
(* The main programs above a benchmark, for any pools of codecs and any    *)
(* command lines.                                                          *)
(***************************************************************************)
EXTENDS Drivers, TLAPS, WellFoundedInduction

-------------------------------------------------------------------------------
\* A set of natural numbers has a least element.
LEMMA LeastElement ==
  ASSUME NEW S \in SUBSET Nat, S # {}
  PROVE  \E m \in S : \A k \in S : m <= k
<1>1. PICK m \in S : \A k \in S : <<k, m>> \notin OpToRel(<, Nat)
  BY WFMin, NatLessThanWellFounded
<1>2. \A k \in S : ~ (k < m)
  BY <1>1 DEF OpToRel
<1> QED
  BY <1>2

(***************************************************************************)
(* Loops.  A set that holds 0 and, with a number, the next one holds them  *)
(* all: else there would be a least one it lacks.                          *)
(***************************************************************************)
LEMMA HoldsThroughout ==
  ASSUME NEW n \in Nat, NEW S, 0 \in S, \A k \in 1 .. n : k - 1 \in S => k \in S
  PROVE  \A k \in 0 .. n : k \in S
<1> DEFINE left == {k \in 0 .. n : k \notin S}
<1> SUFFICES ASSUME left # {} PROVE FALSE
  OBVIOUS
<1>1. left \in SUBSET Nat
  OBVIOUS
<1>2. PICK m \in left : \A k \in left : m <= k
  <2> HIDE DEF left
  <2> QED
    BY <1>1, LeastElement
<1>3. m \in 0 .. n /\ m \notin S /\ m # 0
  OBVIOUS
<1>4. m - 1 \in left
  BY <1>3
<1> QED
  BY <1>2, <1>3, <1>4

(***************************************************************************)
(* What a loop computes exists: a solution for the first k rounds extends  *)
(* to one for k + 1.                                                       *)
(***************************************************************************)
Computes(f, n, D, first, step) ==
  /\ f \in [0 .. n -> D]
  /\ f[0] = first
  /\ \A k \in 1 .. n : f[k] = step[k][f[k - 1]]

LEMMA LoopComputes ==
  ASSUME NEW n \in Nat, NEW D, NEW first \in D, NEW step \in [1 .. n -> [D -> D]]
  PROVE  \E f : Computes(f, n, D, first, step)
<1> DEFINE Solves(f, m) == Computes(f, m, D, first, step)
           solved == {m \in 0 .. n : \E f : Solves(f, m)}
<1> USE DEF Computes
<1>1. 0 \in solved
  <2>1. Solves([k \in 0 .. 0 |-> first], 0)
    OBVIOUS
  <2> HIDE DEF Solves
  <2> QED
    BY <2>1
<1>2. ASSUME NEW m \in 1 .. n, m - 1 \in solved PROVE m \in solved
  <2>1. PICK f : Solves(f, m - 1)
    BY <1>2
  <2> DEFINE g == [k \in 0 .. m |-> IF k = m THEN step[m][f[m - 1]] ELSE f[k]]
  <2>2. f[m - 1] \in D /\ step[m][f[m - 1]] \in D
    BY <2>1
  <2>3. g \in [0 .. m -> D] /\ g[0] = first
    BY <2>1, <2>2
  <2>4. ASSUME NEW k \in 1 .. m PROVE g[k] = step[k][g[k - 1]]
    <3>1. g[k - 1] = f[k - 1]
      OBVIOUS
    <3>2. CASE k = m
      BY <3>1, <3>2
    <3>3. CASE k # m
      <4>1. k \in 1 .. m - 1 /\ g[k] = f[k]
        BY <3>3
      <4> QED
        BY <2>1, <3>1, <4>1
    <3> QED
      BY <3>2, <3>3
  <2>5. Solves(g, m)
    BY <2>3, <2>4
  <2> HIDE DEF Solves, g
  <2> QED
    BY <2>5
<1>3. n \in solved
  <2> HIDE DEF solved
  <2>1. \A k \in 1 .. n : k - 1 \in solved => k \in solved
    BY <1>2
  <2>2. \A k \in 0 .. n : k \in solved
    BY <1>1, <2>1, HoldsThroughout
  <2> QED
    BY <2>2
<1> QED
  BY <1>3
-------------------------------------------------------------------------------
(***************************************************************************)
(* Numbers written in a mixed base b: f[m] is the value of the first m     *)
(* digits, which count from 1.                                             *)
(***************************************************************************)
Evaluates(f, digits, b, n) ==
  /\ f \in [0 .. n -> Nat]
  /\ f[0] = 0
  /\ \A m \in 1 .. n : f[m] = f[m - 1] * b[m] + digits[m] - 1

Digits(digits, b, n) == digits \in [1 .. n -> Nat]
                        /\ \A m \in 1 .. n : digits[m] \in 1 .. b[m]

LEMMA ProductInNat == \A x, y \in Nat : x * y \in Nat
  OBVIOUS

\* Every sequence of digits has a value.
LEMMA ValueExists ==
  ASSUME NEW n \in Nat, NEW b \in [1 .. n -> Nat], NEW digits, Digits(digits, b, n)
  PROVE  \E f : Evaluates(f, digits, b, n)
<1> DEFINE step == [m \in 1 .. n |-> [x \in Nat |-> x * b[m] + digits[m] - 1]]
<1>1. ASSUME NEW m \in 1 .. n, NEW x \in Nat
      PROVE  x * b[m] + digits[m] - 1 \in Nat
  <2>1. b[m] \in Nat /\ digits[m] \in Nat /\ digits[m] >= 1
    BY DEF Digits
  <2>2. x * b[m] \in Nat
    BY <2>1, ProductInNat
  <2> QED
    BY <2>1, <2>2
<1>2. step \in [1 .. n -> [Nat -> Nat]]
  BY <1>1
<1>3. \A m \in 1 .. n : \A x \in Nat : step[m][x] = x * b[m] + digits[m] - 1
  OBVIOUS
<1> HIDE DEF step
<1>4. PICK f \in [0 .. n -> Nat] :
         f[0] = 0 /\ \A m \in 1 .. n : f[m] = step[m][f[m - 1]]
  <2> DEFINE D == Nat
             first == 0
  <2>1. first \in D /\ step \in [1 .. n -> [D -> D]]
    BY <1>2
  <2> HIDE DEF D, first
  <2>2. PICK f : Computes(f, n, D, first, step)
    BY <2>1, LoopComputes
  <2> QED
    BY <2>2 DEF Computes, D, first
<1>5. Evaluates(f, digits, b, n)
  <2>1. \A m \in 1 .. n : m - 1 \in 0 .. n /\ f[m - 1] \in Nat
    OBVIOUS
  <2> QED
    BY <1>3, <1>4, <2>1 DEF Evaluates
<1> QED
  BY <1>5

\* Adding one to a digit that has room, and resetting full ones behind it,
\* adds one to the value.
Carries(p, q, b, n, j) ==
  /\ q[j] = p[j] + 1
  /\ \A m \in 1 .. n : m < j => q[m] = p[m]
  /\ \A m \in 1 .. n : m > j => p[m] = b[m] /\ q[m] = 1

LEMMA NextValue ==
  ASSUME NEW n \in Nat, NEW b \in [1 .. n -> Nat],
         NEW p, Digits(p, b, n), NEW q, Digits(q, b, n),
         NEW f, Evaluates(f, p, b, n), NEW g, Evaluates(g, q, b, n),
         NEW j \in 1 .. n, Carries(p, q, b, n, j)
  PROVE  g[n] = f[n] + 1
<1> USE DEF Carries
<1>1. \A m \in 1 .. n : /\ f[m - 1] \in Nat /\ g[m - 1] \in Nat /\ b[m] \in Nat
                        /\ p[m] \in Nat /\ q[m] \in Nat
                        /\ f[m] = f[m - 1] * b[m] + p[m] - 1
                        /\ g[m] = g[m - 1] * b[m] + q[m] - 1
  <2> TAKE m \in 1 .. n
  <2>1. m - 1 \in 0 .. n
    OBVIOUS
  <2>2. f[m - 1] \in Nat /\ g[m - 1] \in Nat
    BY <2>1 DEF Evaluates
  <2>3. b[m] \in Nat /\ p[m] \in Nat /\ q[m] \in Nat
    BY DEF Digits
  <2> QED
    BY <2>2, <2>3 DEF Evaluates
<1>2. f[0] = 0 /\ g[0] = 0
  BY DEF Evaluates
<1> DEFINE same == {k \in 0 .. n : k < j => g[k] = f[k]}
           more == {k \in 0 .. n : k >= j => g[k] = f[k] + 1}
<1>3. \A k \in 0 .. n : k < j => g[k] = f[k]
  <2>1. 0 \in same
    BY <1>2
  <2>2. ASSUME NEW k \in 1 .. n, k - 1 \in same PROVE k \in same
    <3> SUFFICES ASSUME k < j PROVE g[k] = f[k]
      OBVIOUS
    <3>1. g[k - 1] = f[k - 1] /\ q[k] = p[k]
      BY <2>2
    <3> QED
      BY <1>1, <3>1
  <2> HIDE DEF same
  <2>3. \A k \in 0 .. n : k \in same
    BY <2>1, <2>2, HoldsThroughout
  <2> QED
    BY <2>3 DEF same
<1>4. ASSUME NEW k \in 1 .. n, k - 1 \in more PROVE k \in more
  <2>1. CASE k < j
    BY <2>1
  <2>2. CASE k = j
    <3>1. g[k - 1] = f[k - 1]
      BY <1>3, <2>2
    <3> DEFINE x == f[k - 1] * b[k]
    <3>2. x \in Nat
      BY <1>1, ProductInNat
    <3>3. f[k] = x + p[k] - 1 /\ g[k] = x + q[k] - 1
      BY <1>1, <3>1
    <3>4. p[k] \in Nat /\ q[k] = p[k] + 1
      BY <1>1, <2>2
    <3> HIDE DEF x
    <3>5. g[k] = f[k] + 1
      BY <3>2, <3>3, <3>4
    <3> QED
      BY <3>5
  <2>3. CASE k > j
    <3>1. g[k - 1] = f[k - 1] + 1 /\ p[k] = b[k] /\ q[k] = 1
      BY <1>4, <2>3
    <3>2. (f[k - 1] + 1) * b[k] = f[k - 1] * b[k] + b[k]
      BY <1>1
    <3> DEFINE x == f[k - 1] * b[k]
    <3>3. x \in Nat
      BY <1>1, ProductInNat
    <3>4. f[k] = x + b[k] - 1 /\ g[k] = x + b[k] + 1 - 1
      BY <1>1, <3>1, <3>2
    <3> HIDE DEF x
    <3>5. g[k] = f[k] + 1
      BY <1>1, <3>3, <3>4
    <3> QED
      BY <3>5
  <2> QED
    BY <2>1, <2>2, <2>3
<1>5. 0 \in more
  OBVIOUS
<1> HIDE DEF more
<1>6. \A k \in 0 .. n : k \in more
  BY <1>4, <1>5, HoldsThroughout
<1> QED
  BY <1>6 DEF more

\* The value of a number whose digits are all 1 is 0.
LEMMA FirstValue ==
  ASSUME NEW n \in Nat, NEW b \in [1 .. n -> Nat],
         NEW f, Evaluates(f, [m \in 1 .. n |-> 1], b, n)
  PROVE  f[n] = 0
<1> DEFINE zero == {k \in 0 .. n : f[k] = 0}
<1>1. 0 \in zero
  BY DEF Evaluates
<1>2. ASSUME NEW k \in 1 .. n, k - 1 \in zero PROVE k \in zero
  <2>1. f[k] = 0 * b[k] + 1 - 1 /\ b[k] \in Nat
    BY <1>2 DEF Evaluates
  <2> QED
    BY <2>1
<1> HIDE DEF zero
<1>3. \A k \in 0 .. n : k \in zero
  BY <1>1, <1>2, HoldsThroughout
<1> QED
  BY <1>3 DEF zero

\* How many numbers there are.
Multiplies(f, b, n) == /\ f \in [0 .. n -> Nat]
                       /\ f[0] = 1
                       /\ \A m \in 1 .. n : f[m] = f[m - 1] * b[m]

LEMMA ProductExists ==
  ASSUME NEW n \in Nat, NEW b \in [1 .. n -> Nat]
  PROVE  \E f : Multiplies(f, b, n)
<1> DEFINE step == [m \in 1 .. n |-> [x \in Nat |-> x * b[m]]]
<1>1. step \in [1 .. n -> [Nat -> Nat]]
  BY ProductInNat
<1>2. \A m \in 1 .. n : \A x \in Nat : step[m][x] = x * b[m]
  OBVIOUS
<1> HIDE DEF step
<1>3. PICK f \in [0 .. n -> Nat] :
         f[0] = 1 /\ \A m \in 1 .. n : f[m] = step[m][f[m - 1]]
  <2> DEFINE D == Nat
             first == 1
  <2>1. first \in D /\ step \in [1 .. n -> [D -> D]]
    BY <1>1
  <2> HIDE DEF D, first
  <2>2. PICK f : Computes(f, n, D, first, step)
    BY <2>1, LoopComputes
  <2> QED
    BY <2>2 DEF Computes, D, first
<1>4. \A m \in 1 .. n : m - 1 \in 0 .. n /\ f[m - 1] \in Nat
  OBVIOUS
<1>5. \A m \in 1 .. n : f[m] = f[m - 1] * b[m]
  BY <1>2, <1>3, <1>4
<1>6. Multiplies(f, b, n)
  BY <1>3, <1>5 DEF Multiplies
<1> QED
  BY <1>6

\* The value of the last of them is one less.
LEMMA LastValue ==
  ASSUME NEW n \in Nat, NEW b \in [1 .. n -> Nat],
         NEW p, Digits(p, b, n), \A m \in 1 .. n : p[m] = b[m],
         NEW f, Evaluates(f, p, b, n), NEW g, Multiplies(g, b, n)
  PROVE  g[n] = f[n] + 1
<1> DEFINE more == {k \in 0 .. n : g[k] = f[k] + 1}
<1>1. 0 \in more
  BY DEF Evaluates, Multiplies
<1>2. ASSUME NEW k \in 1 .. n, k - 1 \in more PROVE k \in more
  <2>1. /\ f[k - 1] \in Nat /\ b[k] \in Nat /\ g[k - 1] = f[k - 1] + 1
        /\ f[k] = f[k - 1] * b[k] + b[k] - 1 /\ g[k] = g[k - 1] * b[k]
    BY <1>2 DEF Evaluates, Multiplies
  <2>2. (f[k - 1] + 1) * b[k] = f[k - 1] * b[k] + b[k]
    BY <2>1
  <2> DEFINE x == f[k - 1] * b[k]
  <2>3. x \in Nat
    BY <2>1, ProductInNat
  <2>4. f[k] = x + b[k] - 1 /\ g[k] = x + b[k]
    BY <2>1, <2>2
  <2> HIDE DEF x
  <2>5. g[k] = f[k] + 1
    BY <2>1, <2>3, <2>4
  <2> QED
    BY <2>5
<1> HIDE DEF more
<1>3. \A k \in 0 .. n : k \in more
  BY <1>1, <1>2, HoldsThroughout
<1> QED
  BY <1>3 DEF more

\* There is none if a digit has no value.
LEMMA NoProduct ==
  ASSUME NEW n \in Nat, NEW b \in [1 .. n -> Nat],
         NEW f, Multiplies(f, b, n), NEW j \in 1 .. n, b[j] = 0
  PROVE  f[n] = 0
<1> DEFINE zero == {k \in 0 .. n : k >= j => f[k] = 0}
<1>1. 0 \in zero
  OBVIOUS
<1>2. ASSUME NEW k \in 1 .. n, k - 1 \in zero PROVE k \in zero
  <2>1. f[k - 1] \in Nat /\ b[k] \in Nat /\ f[k] = f[k - 1] * b[k]
    BY DEF Multiplies
  <2>2. k > j => f[k - 1] = 0
    BY <1>2
  <2>3. CASE k > j
    BY <2>1, <2>2, <2>3
  <2>4. CASE k = j
    BY <2>1, <2>4
  <2>5. CASE k < j
    BY <2>5
  <2> QED
    BY <2>3, <2>4, <2>5
<1> HIDE DEF zero
<1>3. \A k \in 0 .. n : k \in zero
  BY <1>1, <1>2, HoldsThroughout
<1> QED
  BY <1>3 DEF zero
-------------------------------------------------------------------------------
(***************************************************************************)
(* The nested loops: what Rank and Combined compute, and what Advance does *)
(* to the indices.                                                         *)
(***************************************************************************)
\* Rank and Combined of any lists.
RankIn(ls, p) ==
  LET before[m \in 0 .. Len(ls)] ==
        IF m = 0 THEN 0 ELSE before[m - 1] * Len(ls[m]) + p[m] - 1
  IN  1 + before[Len(ls)]

CombinedIn(ls) ==
  LET product[m \in 0 .. Len(ls)] == IF m = 0 THEN 1 ELSE product[m - 1] * Len(ls[m])
  IN  product[Len(ls)]

Listed(ls) == /\ Len(ls) \in Nat /\ DOMAIN ls = 1 .. Len(ls)
              /\ \A m \in 1 .. Len(ls) : Len(ls[m]) \in Nat

Bases(ls) == [m \in 1 .. Len(ls) |-> Len(ls[m])]

IsPlace(p, ls) == Digits(p, Bases(ls), Len(ls))

LEMMA BasesType ==
  ASSUME NEW ls, Listed(ls)
  PROVE  Bases(ls) \in [1 .. Len(ls) -> Nat] /\ \A m \in 1 .. Len(ls) : Bases(ls)[m] = Len(ls[m])
BY DEF Listed, Bases

LEMMA RankIs ==
  ASSUME NEW ls, Listed(ls), NEW p, IsPlace(p, ls)
  PROVE  \E f : Evaluates(f, p, Bases(ls), Len(ls)) /\ RankIn(ls, p) = 1 + f[Len(ls)]
<1>1. Len(ls) \in Nat /\ Bases(ls) \in [1 .. Len(ls) -> Nat]
  BY BasesType DEF Listed
<1>2. PICK f : Evaluates(f, p, Bases(ls), Len(ls))
  BY <1>1, ValueExists DEF IsPlace
<1> DEFINE Step(g) == [m \in 0 .. Len(ls) |->
                         IF m = 0 THEN 0 ELSE g[m - 1] * Len(ls[m]) + p[m] - 1]
           before == CHOOSE g : g = Step(g)
<1>3. RankIn(ls, p) = 1 + before[Len(ls)]
  BY DEF RankIn
<1>4. f = Step(f)
  <2>1. f = [m \in 0 .. Len(ls) |-> f[m]]
    BY <1>2 DEF Evaluates
  <2>2. ASSUME NEW m \in 0 .. Len(ls)
        PROVE  f[m] = IF m = 0 THEN 0 ELSE f[m - 1] * Len(ls[m]) + p[m] - 1
    <3>1. CASE m = 0
      BY <1>2, <3>1 DEF Evaluates
    <3>2. CASE m # 0
      <4>1. m \in 1 .. Len(ls)
        BY <3>2
      <4>2. f[m] = f[m - 1] * Bases(ls)[m] + p[m] - 1 /\ Bases(ls)[m] = Len(ls[m])
        BY <1>2, <4>1, BasesType DEF Evaluates
      <4> QED
        BY <3>2, <4>2
    <3> QED
      BY <3>1, <3>2
  <2> QED
    BY <2>1, <2>2, Zenon
<1>5. before = Step(before)
  BY <1>4
<1> HIDE DEF before
<1>6. \A m \in 0 .. Len(ls) : before[m] = Step(before)[m]
  BY <1>5
<1>7. \A m \in 0 .. Len(ls) :
        before[m] = IF m = 0 THEN 0 ELSE before[m - 1] * Len(ls[m]) + p[m] - 1
  BY <1>6
<1> HIDE DEF Step
<1>8. before[Len(ls)] = f[Len(ls)]
  <2> DEFINE agree == {m \in 0 .. Len(ls) : before[m] = f[m]}
  <2>1. 0 \in agree
    BY <1>1, <1>2, <1>7 DEF Evaluates
  <2>2. ASSUME NEW m \in 1 .. Len(ls), m - 1 \in agree PROVE m \in agree
    <3>1. m \in 0 .. Len(ls) /\ m # 0 /\ before[m - 1] = f[m - 1]
      BY <2>2
    <3>2. before[m] = before[m - 1] * Len(ls[m]) + p[m] - 1
      BY <1>7, <3>1
    <3>3. f[m] = f[m - 1] * Bases(ls)[m] + p[m] - 1 /\ Bases(ls)[m] = Len(ls[m])
      BY <1>2, BasesType DEF Evaluates
    <3>4. before[m] = f[m]
      BY <3>1, <3>2, <3>3, Zenon
    <3> QED
      BY <3>1, <3>4
  <2> HIDE DEF agree
  <2>3. \A m \in 0 .. Len(ls) : m \in agree
    BY <1>1, <2>1, <2>2, HoldsThroughout
  <2> QED
    BY <1>1, <2>3 DEF agree
<1> QED
  BY <1>2, <1>3, <1>8

LEMMA CombinedIs ==
  ASSUME NEW ls, Listed(ls)
  PROVE  \E f : Multiplies(f, Bases(ls), Len(ls)) /\ CombinedIn(ls) = f[Len(ls)]
<1>1. Len(ls) \in Nat /\ Bases(ls) \in [1 .. Len(ls) -> Nat]
  BY BasesType DEF Listed
<1>2. PICK f : Multiplies(f, Bases(ls), Len(ls))
  BY <1>1, ProductExists
<1> DEFINE Step(g) == [m \in 0 .. Len(ls) |->
                         IF m = 0 THEN 1 ELSE g[m - 1] * Len(ls[m])]
           product == CHOOSE g : g = Step(g)
<1>3. CombinedIn(ls) = product[Len(ls)]
  BY DEF CombinedIn
<1>4. f = Step(f)
  <2>1. f = [m \in 0 .. Len(ls) |-> f[m]]
    BY <1>2 DEF Multiplies
  <2>2. ASSUME NEW m \in 0 .. Len(ls)
        PROVE  f[m] = IF m = 0 THEN 1 ELSE f[m - 1] * Len(ls[m])
    <3>1. CASE m = 0
      BY <1>2, <3>1 DEF Multiplies
    <3>2. CASE m # 0
      <4>1. m \in 1 .. Len(ls)
        BY <3>2
      <4>2. f[m] = f[m - 1] * Bases(ls)[m] /\ Bases(ls)[m] = Len(ls[m])
        BY <1>2, <4>1, BasesType DEF Multiplies
      <4> QED
        BY <3>2, <4>2
    <3> QED
      BY <3>1, <3>2
  <2> QED
    BY <2>1, <2>2, Zenon
<1>5. product = Step(product)
  BY <1>4
<1> HIDE DEF product
<1>6. \A m \in 0 .. Len(ls) : product[m] = Step(product)[m]
  BY <1>5
<1>7. \A m \in 0 .. Len(ls) :
        product[m] = IF m = 0 THEN 1 ELSE product[m - 1] * Len(ls[m])
  BY <1>6
<1> HIDE DEF Step
<1>8. product[Len(ls)] = f[Len(ls)]
  <2> DEFINE agree == {m \in 0 .. Len(ls) : product[m] = f[m]}
  <2>1. 0 \in agree
    BY <1>1, <1>2, <1>7 DEF Multiplies
  <2>2. ASSUME NEW m \in 1 .. Len(ls), m - 1 \in agree PROVE m \in agree
    <3>1. m \in 0 .. Len(ls) /\ m # 0 /\ product[m - 1] = f[m - 1]
      BY <2>2
    <3>2. product[m] = product[m - 1] * Len(ls[m])
      BY <1>7, <3>1
    <3>3. f[m] = f[m - 1] * Bases(ls)[m] /\ Bases(ls)[m] = Len(ls[m])
      BY <1>2, BasesType DEF Multiplies
    <3>4. product[m] = f[m]
      BY <3>1, <3>2, <3>3, Zenon
    <3> QED
      BY <3>1, <3>4
  <2> HIDE DEF agree
  <2>3. \A m \in 0 .. Len(ls) : m \in agree
    BY <1>1, <2>1, <2>2, HoldsThroughout
  <2> QED
    BY <1>1, <2>3 DEF agree
<1> QED
  BY <1>2, <1>3, <1>8

\* The first place, if no list is empty, and the last.
LEMMA FirstPlace ==
  ASSUME NEW ls, Listed(ls), \A m \in 1 .. Len(ls) : ls[m] # <<>>,
         \A m \in 1 .. Len(ls) : Len(ls[m]) = 0 => ls[m] = <<>>
  PROVE  IsPlace([m \in 1 .. Len(ls) |-> 1], ls) /\ RankIn(ls, [m \in 1 .. Len(ls) |-> 1]) = 1
<1> DEFINE p == [m \in 1 .. Len(ls) |-> 1]
<1>1. Len(ls) \in Nat /\ Bases(ls) \in [1 .. Len(ls) -> Nat]
  BY BasesType DEF Listed
<1>2. IsPlace(p, ls)
  <2>1. \A m \in 1 .. Len(ls) : Bases(ls)[m] \in Nat /\ Bases(ls)[m] # 0
    BY BasesType DEF Listed
  <2> QED
    BY <2>1 DEF IsPlace, Digits
<1>3. PICK f : Evaluates(f, p, Bases(ls), Len(ls)) /\ RankIn(ls, p) = 1 + f[Len(ls)]
  <2> HIDE DEF p
  <2> QED
    BY <1>2, RankIs
<1>4. f[Len(ls)] = 0
  BY <1>1, <1>3, FirstValue
<1> QED
  BY <1>2, <1>3, <1>4

LEMMA LastPlace ==
  ASSUME NEW ls, Listed(ls), NEW p, IsPlace(p, ls), \A m \in 1 .. Len(ls) : p[m] = Len(ls[m])
  PROVE  RankIn(ls, p) = CombinedIn(ls)
<1>1. Len(ls) \in Nat /\ Bases(ls) \in [1 .. Len(ls) -> Nat]
  BY BasesType DEF Listed
<1>2. PICK f : Evaluates(f, p, Bases(ls), Len(ls)) /\ RankIn(ls, p) = 1 + f[Len(ls)]
  BY RankIs
<1>3. PICK g : Multiplies(g, Bases(ls), Len(ls)) /\ CombinedIn(ls) = g[Len(ls)]
  BY CombinedIs
<1>4. \A m \in 1 .. Len(ls) : p[m] = Bases(ls)[m]
  BY BasesType
<1>5. g[Len(ls)] = f[Len(ls)] + 1
  BY <1>1, <1>2, <1>3, <1>4, LastValue DEF IsPlace
<1>6. f[Len(ls)] \in Nat
  BY <1>1, <1>2 DEF Evaluates
<1> QED
  BY <1>2, <1>3, <1>5, <1>6

\* Nothing is to be run if a list is empty.
LEMMA NoPlace ==
  ASSUME NEW ls, Listed(ls), NEW m \in 1 .. Len(ls), ls[m] = <<>>
  PROVE  CombinedIn(ls) = 0
<1>1. Len(ls) \in Nat /\ Bases(ls) \in [1 .. Len(ls) -> Nat] /\ Bases(ls)[m] = 0
  BY BasesType DEF Listed
<1>2. PICK g : Multiplies(g, Bases(ls), Len(ls)) /\ CombinedIn(ls) = g[Len(ls)]
  BY CombinedIs
<1> QED
  BY <1>1, <1>2, NoProduct

(***************************************************************************)
(* Advance goes to the place of the next rank: there is an innermost index *)
(* that is not at its last value, as not all are.                          *)
(***************************************************************************)
LEMMA NextPlace ==
  ASSUME Listed(lists), NEW p, IsPlace(p, lists), ~ \A m \in 1 .. Len(lists) : p[m] = Len(lists[m])
  PROVE  IsPlace(Advance(p), lists) /\ RankIn(lists, Advance(p)) = RankIn(lists, p) + 1
<1>1. Len(lists) \in Nat /\ Bases(lists) \in [1 .. Len(lists) -> Nat]
  BY BasesType DEF Listed
<1>2. /\ DOMAIN p = 1 .. Len(lists)
      /\ \A m \in 1 .. Len(lists) : /\ p[m] \in Nat /\ p[m] >= 1 /\ p[m] <= Len(lists[m])
                               /\ Len(lists[m]) \in Nat
  <2>1. \A m \in 1 .. Len(lists) : Bases(lists)[m] = Len(lists[m]) /\ Bases(lists)[m] \in Nat
    BY BasesType
  <2> QED
    BY <2>1 DEF IsPlace, Digits
<1> DEFINE Turns(m) == /\ p[m] < Len(lists[m])
                       /\ \A l \in DOMAIN p : l > m => p[l] = Len(lists[l])
           j == CHOOSE m \in DOMAIN p : Turns(m)
<1>3. \E m \in DOMAIN p : Turns(m)
  <2> DEFINE room == {k \in Nat : k < Len(lists) /\ p[Len(lists) - k] < Len(lists[Len(lists) - k])}
  <2>1. room # {}
    <3>1. PICK m \in 1 .. Len(lists) : p[m] < Len(lists[m])
      BY <1>2
    <3>2. Len(lists) - m \in Nat /\ Len(lists) - m < Len(lists) /\ Len(lists) - (Len(lists) - m) = m
      BY <1>1
    <3>3. Len(lists) - m \in room
      BY <3>1, <3>2
    <3> QED
      BY <3>3
  <2>2. room \in SUBSET Nat
    OBVIOUS
  <2>3. PICK k \in room : \A l \in room : k <= l
    <3> HIDE DEF room
    <3> QED
      BY <2>1, <2>2, LeastElement
  <2>4. k \in Nat /\ k < Len(lists) /\ Len(lists) - k \in 1 .. Len(lists) /\ p[Len(lists) - k] < Len(lists[Len(lists) - k])
    BY <1>1, <2>3
  <2>5. ASSUME NEW l \in 1 .. Len(lists), l > Len(lists) - k PROVE p[l] = Len(lists[l])
    <3>1. Len(lists) - l \in Nat /\ Len(lists) - l < k /\ Len(lists) - l < Len(lists) /\ Len(lists) - (Len(lists) - l) = l
      BY <1>1, <2>4, <2>5
    <3>2. Len(lists) - l \notin room
      BY <2>3, <2>4, <3>1
    <3>3. ~ (p[l] < Len(lists[l]))
      BY <3>1, <3>2
    <3> QED
      BY <1>2, <3>3
  <2>6. Len(lists) - k \in DOMAIN p /\ Turns(Len(lists) - k)
    BY <1>2, <2>4, <2>5
  <2> HIDE DEF Turns
  <2> QED
    BY <2>6
<1>4. j \in 1 .. Len(lists) /\ Turns(j)
  BY <1>2, <1>3
<1> DEFINE q == [m \in DOMAIN p |-> IF m < j THEN p[m] ELSE IF m = j THEN p[m] + 1 ELSE 1]
<1>5. Advance(p) = q
  BY DEF Advance
<1> HIDE DEF j
<1>6. /\ q[j] = p[j] + 1
      /\ \A m \in 1 .. Len(lists) : m < j => q[m] = p[m]
      /\ \A m \in 1 .. Len(lists) : m > j => p[m] = Len(lists[m]) /\ q[m] = 1
  BY <1>2, <1>4
<1>7. Digits(q, Bases(lists), Len(lists))
  <2>1. ASSUME NEW m \in 1 .. Len(lists) PROVE q[m] \in 1 .. Len(lists[m])
    <3>1. CASE m < j
      BY <1>2, <3>1
    <3>2. CASE m = j
      BY <1>2, <1>4, <3>2
    <3>3. CASE m > j
      BY <1>2, <1>4, <3>3
    <3> QED
      BY <1>4, <3>1, <3>2, <3>3
  <2>2. q \in [1 .. Len(lists) -> Nat]
    BY <1>2, <2>1
  <2> HIDE DEF q
  <2>3. \A m \in 1 .. Len(lists) : q[m] \in 1 .. Bases(lists)[m]
    BY <2>1, BasesType
  <2> QED
    BY <2>2, <2>3 DEF Digits
<1> HIDE DEF q
<1>8. PICK f : Evaluates(f, p, Bases(lists), Len(lists)) /\ RankIn(lists, p) = 1 + f[Len(lists)]
  BY RankIs
<1>9. PICK g : Evaluates(g, q, Bases(lists), Len(lists)) /\ RankIn(lists, q) = 1 + g[Len(lists)]
  BY <1>7, RankIs DEF IsPlace
<1>10. \A m \in 1 .. Len(lists) : m > j => p[m] = Bases(lists)[m] /\ q[m] = 1
  BY <1>6, BasesType
<1>11. g[Len(lists)] = f[Len(lists)] + 1
  <2>1. j \in 1 .. Len(lists) /\ Digits(p, Bases(lists), Len(lists))
    BY <1>4 DEF IsPlace
  <2>2. Carries(p, q, Bases(lists), Len(lists), j)
    BY <1>6, <1>10 DEF Carries
  <2> QED
    BY <1>1, <1>7, <1>8, <1>9, <2>1, <2>2, NextValue
<1>12. f[Len(lists)] \in Nat
  BY <1>1, <1>8 DEF Evaluates
<1> QED
  BY <1>5, <1>7, <1>8, <1>9, <1>11, <1>12 DEF IsPlace
-------------------------------------------------------------------------------
(***************************************************************************)
(* SelectCodecsByName keeps some codecs of the pool, none of them twice.   *)
(***************************************************************************)
Text == STRING \cup {"delta", "rle", "for", "direct"}

Codec == Seq(Text)

NoRepeats(s) == \A i, j \in 1 .. Len(s) : s[i] = s[j] => i = j

Keeps(pool, names, f) ==
  /\ f \in [0 .. Len(pool) -> Seq(Codec)]
  /\ f[0] = <<>>
  /\ \A k \in 1 .. Len(pool) :
       f[k] = IF \E n \in 1 .. Len(names) : names[n] = pool[k]
              THEN Append(f[k - 1], pool[k]) ELSE f[k - 1]

LEMMA SelectedIs ==
  ASSUME NEW pool \in Seq(Codec), NEW names
  PROVE  \E f : Keeps(pool, names, f) /\ Selected(pool, names) = f[Len(pool)]
<1> DEFINE D == Seq(Codec)
           n == Len(pool)
           Named(k) == \E m \in 1 .. Len(names) : names[m] = pool[k]
           step == [k \in 1 .. n |->
                      [s \in D |-> IF Named(k) THEN Append(s, pool[k]) ELSE s]]
           first == <<>>
<1>1. n \in Nat /\ first \in D /\ \A k \in 1 .. n : pool[k] \in Codec
  OBVIOUS
<1>2. step \in [1 .. n -> [D -> D]]
  <2>1. ASSUME NEW k \in 1 .. n, NEW s \in D
        PROVE  (IF Named(k) THEN Append(s, pool[k]) ELSE s) \in D
    BY <1>1
  <2> QED
    BY <2>1
<1>3. \A k \in 1 .. n : \A s \in D :
        step[k][s] = IF Named(k) THEN Append(s, pool[k]) ELSE s
  OBVIOUS
<1> HIDE DEF step, D, first, n, Named
<1>4. PICK f : Computes(f, n, D, first, step)
  BY <1>1, <1>2, LoopComputes
<1>5. /\ f \in [0 .. n -> D] /\ f[0] = first
      /\ \A k \in 1 .. n : f[k] = IF Named(k) THEN Append(f[k - 1], pool[k]) ELSE f[k - 1]
  <2>1. f \in [0 .. n -> D] /\ f[0] = first /\ \A k \in 1 .. n : f[k] = step[k][f[k - 1]]
    BY <1>4 DEF Computes
  <2>2. ASSUME NEW k \in 1 .. n PROVE f[k - 1] \in D
    BY <1>1, <2>1
  <2> QED
    BY <1>3, <2>1, <2>2
<1>6. Keeps(pool, names, f)
  BY <1>5 DEF Keeps, D, first, n, Named
<1> DEFINE Step(g) == [k \in 0 .. n |->
                         IF k = 0 THEN <<>>
                         ELSE IF Named(k) THEN Append(g[k - 1], pool[k]) ELSE g[k - 1]]
           selected == CHOOSE g : g = Step(g)
<1>7. Selected(pool, names) = selected[n]
  BY DEF Selected, n, Named
<1>8. f = Step(f)
  <2>1. f = [k \in 0 .. n |-> f[k]]
    BY <1>5
  <2>2. ASSUME NEW k \in 0 .. n
        PROVE  f[k] = IF k = 0 THEN <<>>
                      ELSE IF Named(k) THEN Append(f[k - 1], pool[k]) ELSE f[k - 1]
    <3>1. CASE k = 0
      BY <1>5, <3>1 DEF first
    <3>2. CASE k # 0
      <4>1. k \in 1 .. n
        BY <1>1, <3>2
      <4> QED
        BY <1>5, <3>2, <4>1
    <3> QED
      BY <3>1, <3>2
  <2> QED
    BY <2>1, <2>2, Zenon
<1>9. selected = Step(selected)
  BY <1>8
<1> HIDE DEF selected
<1>10. \A k \in 0 .. n :
        selected[k] = IF k = 0 THEN <<>>
                      ELSE IF Named(k) THEN Append(selected[k - 1], pool[k])
                      ELSE selected[k - 1]
  <2>1. \A k \in 0 .. n : selected[k] = Step(selected)[k]
    BY <1>9
  <2> QED
    BY <2>1
<1> HIDE DEF Step
<1>11. selected[n] = f[n]
  <2> DEFINE agree == {k \in 0 .. n : selected[k] = f[k]}
  <2>1. 0 \in agree
    BY <1>1, <1>5, <1>10 DEF first
  <2>2. ASSUME NEW k \in 1 .. n, k - 1 \in agree PROVE k \in agree
    <3>1. k \in 0 .. n /\ k # 0 /\ selected[k - 1] = f[k - 1]
      BY <1>1, <2>2
    <3>2. selected[k] = IF Named(k) THEN Append(selected[k - 1], pool[k])
                        ELSE selected[k - 1]
      BY <1>10, <3>1
    <3>3. f[k] = IF Named(k) THEN Append(f[k - 1], pool[k]) ELSE f[k - 1]
      BY <1>5
    <3>4. selected[k] = f[k]
      <4>1. CASE Named(k)
        BY <3>1, <3>2, <3>3, <4>1
      <4>2. CASE ~ Named(k)
        BY <3>1, <3>2, <3>3, <4>2
      <4> QED
        BY <4>1, <4>2
    <3> QED
      BY <3>1, <3>4
  <2> HIDE DEF agree
  <2>3. \A k \in 0 .. n : k \in agree
    BY <1>1, <2>1, <2>2, HoldsThroughout
  <2>4. n \in agree
    BY <1>1, <2>3
  <2> QED
    BY <2>4 DEF agree
<1>12. Selected(pool, names) = f[Len(pool)]
  BY <1>7, <1>11 DEF n
<1> QED
  BY <1>6, <1>12

LEMMA SelectionType ==
  ASSUME NEW pool \in Seq(Codec), NEW names
  PROVE  SelectCodecsByName(pool, names) \in Seq(Codec)
<1>1. PICK f : Keeps(pool, names, f) /\ Selected(pool, names) = f[Len(pool)]
  BY SelectedIs
<1>2. f[Len(pool)] \in Seq(Codec)
  BY <1>1 DEF Keeps
<1> QED
  BY <1>1, <1>2 DEF SelectCodecsByName

LEMMA SelectionDistinct ==
  ASSUME NEW pool \in Seq(Codec), NEW names, NoRepeats(pool)
  PROVE  NoRepeats(SelectCodecsByName(pool, names))
<1>1. PICK f : Keeps(pool, names, f) /\ Selected(pool, names) = f[Len(pool)]
  BY SelectedIs
<1> DEFINE n == Len(pool)
           Fine(k) == /\ NoRepeats(f[k])
                      /\ \A i \in 1 .. Len(f[k]) : \E j \in 1 .. k : f[k][i] = pool[j]
           fine == {k \in 0 .. n : Fine(k)}
<1>2. 0 \in fine
  <2>1. f[0] = <<>> /\ 0 \in 0 .. n
    BY <1>1 DEF Keeps
  <2>2. Fine(0)
    BY <2>1 DEF NoRepeats
  <2> QED
    BY <2>1, <2>2
<1>3. ASSUME NEW k \in 1 .. n, k - 1 \in fine PROVE k \in fine
  <2> DEFINE s == f[k - 1]
             c == pool[k]
  <2>1. /\ s \in Seq(Codec) /\ c \in Codec
        /\ f[k] = s \/ f[k] = Append(s, c)
    <3>1. k - 1 \in 0 .. Len(pool) /\ k \in 1 .. Len(pool)
      OBVIOUS
    <3>2. f[k - 1] \in Seq(Codec) /\ pool[k] \in Codec
      BY <1>1, <3>1 DEF Keeps
    <3> QED
      BY <1>1, <3>1, <3>2 DEF Keeps
  <2>2. NoRepeats(s) /\ \A i \in 1 .. Len(s) : \E j \in 1 .. k - 1 : s[i] = pool[j]
    BY <1>3
  <2>3. \A i \in 1 .. Len(s) : s[i] # c
    <3> TAKE i \in 1 .. Len(s)
    <3>1. PICK j \in 1 .. k - 1 : s[i] = pool[j]
      BY <2>2
    <3>2. j \in 1 .. Len(pool) /\ k \in 1 .. Len(pool) /\ j # k
      OBVIOUS
    <3> QED
      BY <3>1, <3>2 DEF NoRepeats
  <2> HIDE DEF s
  <2>4. CASE f[k] = s
    BY <2>2, <2>4
  <2>5. CASE f[k] = Append(s, c)
    <3> DEFINE t == Append(s, c)
    <3>1. /\ Len(s) \in Nat /\ Len(t) = Len(s) + 1
          /\ \A i \in 1 .. Len(s) : t[i] = s[i]
          /\ t[Len(s) + 1] = c
      BY <2>1
    <3> HIDE DEF t
    <3>2. NoRepeats(t)
      <4> SUFFICES ASSUME NEW i \in 1 .. Len(t), NEW j \in 1 .. Len(t), t[i] = t[j]
                   PROVE  i = j
        BY DEF NoRepeats
      <4>1. CASE i \in 1 .. Len(s) /\ j \in 1 .. Len(s)
        BY <2>2, <3>1, <4>1 DEF NoRepeats
      <4>2. CASE i \in 1 .. Len(s) /\ j = Len(s) + 1
        BY <2>3, <3>1, <4>2
      <4>3. CASE i = Len(s) + 1 /\ j \in 1 .. Len(s)
        BY <2>3, <3>1, <4>3
      <4> QED
        BY <3>1, <4>1, <4>2, <4>3
    <3>3. ASSUME NEW i \in 1 .. Len(t) PROVE \E j \in 1 .. k : t[i] = pool[j]
      <4>1. CASE i \in 1 .. Len(s)
        <5>1. PICK j \in 1 .. k - 1 : s[i] = pool[j]
          BY <2>2, <4>1
        <5> QED
          BY <3>1, <4>1, <5>1
      <4>2. CASE i = Len(s) + 1
        BY <3>1, <4>2
      <4> QED
        BY <3>1, <4>1, <4>2
    <3>4. f[k] = t
      BY <2>5 DEF t
    <3> QED
      BY <3>2, <3>3, <3>4
  <2> QED
    BY <2>1, <2>4, <2>5
<1>4. n \in Nat
  OBVIOUS
<1> HIDE DEF fine, n
<1>5. \A k \in 0 .. n : k \in fine
  BY <1>2, <1>3, <1>4, HoldsThroughout
<1>6. n \in fine
  BY <1>4, <1>5
<1>7. NoRepeats(f[Len(pool)])
  BY <1>6 DEF fine, n
<1> QED
  BY <1>1, <1>7 DEF SelectCodecsByName
-------------------------------------------------------------------------------
(***************************************************************************)
(* The pools.                                                              *)
(***************************************************************************)
Names == Logical \o Physical

\* The codecs are told apart by their names, and none is called "direct".
DistinctNames == NoRepeats(Names) /\ \A j \in 1 .. Len(Names) : Names[j] # "direct"

LEMMA LargerAlphabet ==
  ASSUME NEW S, NEW T, S \subseteq T, NEW s \in Seq(S)
  PROVE  s \in Seq(T)
BY \A i \in 1 .. Len(s) : s[i] \in T

LEMMA NamesFacts ==
  /\ Logical \in Seq(Text) /\ Physical \in Seq(Text) /\ Names \in Seq(Text)
  /\ Len(Names) = Len(Logical) + Len(Physical)
  /\ \A j \in 1 .. Len(Physical) : Names[Len(Logical) + j] = Physical[j]
<1>1. \A s \in Seq(STRING) : s \in Seq(Text)
  <2> DEFINE S == STRING
  <2>1. S \subseteq Text
    BY DEF Text
  <2> HIDE DEF S
  <2>2. \A s \in Seq(S) : s \in Seq(Text)
    BY <2>1, LargerAlphabet
  <2> QED
    BY <2>2 DEF S
<1>2. Logical \in Seq(Text) /\ Physical \in Seq(Text)
  BY <1>1, DriversAssumption
<1> QED
  BY <1>2 DEF Names

\* A codec of its own name, and a cascade.
Single(x)  == <<x>>
Pair(x, y) == <<x>> \o <<y>>

LEMMA CodecFacts ==
  /\ \A x \in Text : Single(x) \in Codec
  /\ \A x, y \in Text : Pair(x, y) \in Codec
  /\ \A x, y : Single(x) = Single(y) => x = y
  /\ \A x, y, z, w \in Text : Pair(x, y) = Pair(z, w) => x = z /\ y = w
  /\ \A x, y, z \in Text : Single(x) # Pair(y, z)
<1>1. \A x : <<x>>[1] = x /\ Len(<<x>>) = 1
  OBVIOUS
<1>2. ASSUME NEW C, NEW x \in C, NEW y \in C
      PROVE  /\ <<x>> \in Seq(C)
             /\ <<x>> \o <<y>> \in Seq(C)
             /\ Len(<<x>> \o <<y>>) = 2
             /\ (<<x>> \o <<y>>)[1] = x /\ (<<x>> \o <<y>>)[2] = y
  <2>1. <<x>> \in Seq(C) /\ <<y>> \in Seq(C) /\ Len(<<x>>) = 1 /\ Len(<<y>>) = 1
    OBVIOUS
  <2> QED
    BY <2>1
<1>3. ASSUME NEW x \in Text, NEW y \in Text
      PROVE  /\ Single(x) \in Codec /\ Len(Single(x)) = 1
             /\ Pair(x, y) \in Codec /\ Len(Pair(x, y)) = 2
             /\ Pair(x, y)[1] = x /\ Pair(x, y)[2] = y
  BY <1>1, <1>2 DEF Single, Pair, Codec
<1>4. \A x, y : Single(x) = Single(y) => x = y
  BY <1>1 DEF Single
<1>5. \A x, y, z, w \in Text : Pair(x, y) = Pair(z, w) => x = z /\ y = w
  <2> SUFFICES ASSUME NEW x \in Text, NEW y \in Text, NEW z \in Text, NEW w \in Text,
                      Pair(x, y) = Pair(z, w)
               PROVE  x = z /\ y = w
    OBVIOUS
  <2>1. Pair(x, y)[1] = x /\ Pair(x, y)[2] = y
    BY <1>3
  <2>2. Pair(z, w)[1] = z /\ Pair(z, w)[2] = w
    BY <1>3
  <2> QED
    BY <2>1, <2>2
<1>6. \A x, y, z \in Text : Single(x) # Pair(y, z)
  <2> SUFFICES ASSUME NEW x \in Text, NEW y \in Text, NEW z \in Text, Single(x) = Pair(y, z)
               PROVE  FALSE
    OBVIOUS
  <2>1. Len(Single(x)) = 1 /\ Len(Pair(y, z)) = 2
    BY <1>3
  <2> QED
    BY <2>1
<1> QED
  BY <1>3, <1>4, <1>5, <1>6

LEMMA NonCascadedFacts ==
  /\ NonCascaded \in Seq(Codec) /\ Len(NonCascaded) = Len(Names) /\ Len(Names) \in Nat
  /\ \A j \in 1 .. Len(Names) : /\ Names[j] \in Text
                                /\ NonCascaded[j] = Single(Names[j])
<1>1. NonCascaded = [j \in 1 .. Len(Names) |-> Single(Names[j])]
  BY DEF NonCascaded, Names, Single
<1>2. Len(Names) \in Nat /\ \A j \in 1 .. Len(Names) : Names[j] \in Text
  BY NamesFacts
<1>3. \A j \in 1 .. Len(Names) : Single(Names[j]) \in Codec
  BY <1>2, CodecFacts
<1> QED
  BY <1>1, <1>2, <1>3

LEMMA CascadesFacts ==
  ASSUME NEW name \in Text
  PROVE  /\ Cascades(<<name>>) \in Seq(Codec)
         /\ Len(Cascades(<<name>>)) = Len(Physical) /\ Len(Physical) \in Nat
         /\ \A j \in 1 .. Len(Physical) :
              /\ Physical[j] \in Text
              /\ Cascades(<<name>>)[j] = Pair(name, Physical[j])
<1>1. Len(Physical) \in Nat /\ \A j \in 1 .. Len(Physical) : Physical[j] \in Text
  BY NamesFacts
<1>2. \A j \in 1 .. Len(Physical) : Pair(name, Physical[j]) \in Codec
  BY <1>1, CodecFacts
<1>3. Cascades(<<name>>) = [j \in 1 .. Len(Physical) |-> Pair(name, Physical[j])]
  BY DEF Cascades, Pair
<1> QED
  BY <1>1, <1>2, <1>3

LEMMA ConcatDistinct ==
  ASSUME NEW s \in Seq(Codec), NEW t \in Seq(Codec), NoRepeats(s), NoRepeats(t),
         \A i \in 1 .. Len(s) : \A j \in 1 .. Len(t) : s[i] # t[j]
  PROVE  NoRepeats(s \o t)
<1> DEFINE u == s \o t
<1>1. /\ Len(s) \in Nat /\ Len(t) \in Nat /\ Len(u) = Len(s) + Len(t)
      /\ \A i \in 1 .. Len(s) : u[i] = s[i]
      /\ \A i \in 1 .. Len(u) : i > Len(s) => u[i] = t[i - Len(s)]
  OBVIOUS
<1> HIDE DEF u
<1> SUFFICES ASSUME NEW i \in 1 .. Len(u), NEW j \in 1 .. Len(u), u[i] = u[j]
             PROVE  i = j
  BY DEF NoRepeats, u
<1>2. CASE i <= Len(s) /\ j <= Len(s)
  BY <1>1, <1>2 DEF NoRepeats
<1>3. CASE i <= Len(s) /\ j > Len(s)
  <2>1. /\ i \in 1 .. Len(s) /\ u[i] = s[i]
        /\ j - Len(s) \in 1 .. Len(t) /\ u[j] = t[j - Len(s)]
    BY <1>1, <1>3
  <2>2. s[i] # t[j - Len(s)]
    BY <2>1
  <2> QED
    BY <2>1, <2>2
<1>4. CASE i > Len(s) /\ j <= Len(s)
  <2>1. /\ j \in 1 .. Len(s) /\ u[j] = s[j]
        /\ i - Len(s) \in 1 .. Len(t) /\ u[i] = t[i - Len(s)]
    BY <1>1, <1>4
  <2>2. s[j] # t[i - Len(s)]
    BY <2>1
  <2> QED
    BY <2>1, <2>2
<1>5. CASE i > Len(s) /\ j > Len(s)
  <2>1. /\ u[i] = t[i - Len(s)] /\ i - Len(s) \in 1 .. Len(t)
        /\ u[j] = t[j - Len(s)] /\ j - Len(s) \in 1 .. Len(t)
    BY <1>1, <1>5
  <2>2. i - Len(s) = j - Len(s)
    BY <2>1 DEF NoRepeats
  <2> QED
    BY <1>1, <2>2
<1> QED
  BY <1>1, <1>2, <1>3, <1>4, <1>5

\* What is in a concatenation is in one of its parts.
LEMMA ConcatElements ==
  ASSUME NEW s \in Seq(Codec), NEW t \in Seq(Codec), NEW i \in 1 .. Len(s \o t)
  PROVE  (\E j \in 1 .. Len(s) : (s \o t)[i] = s[j])
           \/ \E j \in 1 .. Len(t) : (s \o t)[i] = t[j]
<1>1. CASE i <= Len(s)
  BY <1>1
<1>2. CASE i > Len(s)
  <2>1. (s \o t)[i] = t[i - Len(s)] /\ i - Len(s) \in 1 .. Len(t)
    BY <1>2
  <2> QED
    BY <2>1
<1> QED
  BY <1>1, <1>2

LEMMA PoolType == BuildAllCodecs \in Seq(Codec)
<1> DEFINE d == Cascades(<<"delta">>)
           r == Cascades(<<"rle">>)
           f == Cascades(<<"for">>)
           e == <<<<"direct">>>>
<1>1. "delta" \in Text /\ "rle" \in Text /\ "for" \in Text /\ "direct" \in Text
  BY DEF Text
<1>2. d \in Seq(Codec) /\ r \in Seq(Codec) /\ f \in Seq(Codec)
  BY <1>1, CascadesFacts
<1>3. e \in Seq(Codec)
  <2>1. Single("direct") \in Codec
    BY <1>1, CodecFacts
  <2> QED
    BY <2>1 DEF Single
<1> HIDE DEF d, r, f, e
<1>4. NonCascaded \o d \o r \o f \o e \in Seq(Codec)
  BY <1>2, <1>3, NonCascadedFacts
<1> QED
  BY <1>4 DEF BuildAllCodecs, d, r, f, e

LEMMA PoolDistinct ==
  ASSUME DistinctNames
  PROVE  NoRepeats(BuildAllCodecs)
<1> DEFINE a == NonCascaded
           d == Cascades(<<"delta">>)
           r == Cascades(<<"rle">>)
           f == Cascades(<<"for">>)
           e == <<<<"direct">>>>
<1>1. "delta" \in Text /\ "rle" \in Text /\ "for" \in Text /\ "direct" \in Text
  BY DEF Text
<1>2. a \in Seq(Codec) /\ d \in Seq(Codec) /\ r \in Seq(Codec) /\ f \in Seq(Codec)
  BY <1>1, CascadesFacts, NonCascadedFacts
<1>3. e \in Seq(Codec) /\ Len(e) = 1 /\ e[1] = Single("direct")
  <2>1. Single("direct") \in Codec
    BY <1>1, CodecFacts
  <2> QED
    BY <2>1 DEF Single
<1>4. \A j \in 1 .. Len(a) : Names[j] \in Text /\ a[j] = Single(Names[j])
  BY NonCascadedFacts
<1>5. Len(Physical) \in Nat /\ \A j \in 1 .. Len(Physical) : Physical[j] \in Text
  BY NamesFacts
<1>6. ASSUME NEW x \in Text
      PROVE  LET c == Cascades(<<x>>)
             IN  /\ Len(c) = Len(Physical)
                 /\ \A j \in 1 .. Len(c) : Physical[j] \in Text /\ c[j] = Pair(x, Physical[j])
  BY CascadesFacts
<1>7. NoRepeats(Physical)
  <2>1. Len(Logical) \in Nat /\ Len(Physical) \in Nat
    BY NamesFacts
  <2>2. \A j \in 1 .. Len(Physical) : /\ Len(Logical) + j \in 1 .. Len(Names)
                                      /\ Names[Len(Logical) + j] = Physical[j]
    BY <2>1, NamesFacts
  <2> SUFFICES ASSUME NEW i \in 1 .. Len(Physical), NEW j \in 1 .. Len(Physical),
                      Physical[i] = Physical[j]
               PROVE  i = j
    BY DEF NoRepeats
  <2>3. Len(Logical) + i = Len(Logical) + j
    BY <2>2 DEF DistinctNames, NoRepeats
  <2> QED
    BY <2>1, <2>3
<1>8. ASSUME NEW x \in Text
      PROVE  NoRepeats(Cascades(<<x>>))
  <2> DEFINE c == Cascades(<<x>>)
  <2>1. /\ Len(c) = Len(Physical)
        /\ \A j \in 1 .. Len(c) : Physical[j] \in Text /\ c[j] = Pair(x, Physical[j])
    BY <1>6
  <2> HIDE DEF c
  <2> SUFFICES ASSUME NEW i \in 1 .. Len(c), NEW j \in 1 .. Len(c), c[i] = c[j]
               PROVE  i = j
    BY DEF NoRepeats, c
  <2>2. Pair(x, Physical[i]) = Pair(x, Physical[j])
    BY <2>1
  <2>3. Physical[i] = Physical[j]
    BY <2>1, <2>2, CodecFacts
  <2> QED
    BY <1>7, <2>1, <2>3 DEF NoRepeats
<1>9. NoRepeats(a)
  <2> SUFFICES ASSUME NEW i \in 1 .. Len(a), NEW j \in 1 .. Len(a), a[i] = a[j]
               PROVE  i = j
    BY DEF NoRepeats
  <2>1. Names[i] = Names[j]
    BY <1>4, CodecFacts
  <2> QED
    BY <2>1, NonCascadedFacts DEF DistinctNames, NoRepeats
<1>10. NoRepeats(d) /\ NoRepeats(r) /\ NoRepeats(f) /\ NoRepeats(e)
  <2>1. NoRepeats(d) /\ NoRepeats(r) /\ NoRepeats(f)
    BY <1>1, <1>8
  <2>2. NoRepeats(e)
    BY <1>3 DEF NoRepeats
  <2> QED
    BY <2>1, <2>2
\* The five parts have nothing in common.
<1>11. /\ \A i \in 1 .. Len(d) : \E y \in Text : d[i] = Pair("delta", y)
       /\ \A i \in 1 .. Len(r) : \E y \in Text : r[i] = Pair("rle", y)
       /\ \A i \in 1 .. Len(f) : \E y \in Text : f[i] = Pair("for", y)
  BY <1>1, <1>6
<1>12. \A i \in 1 .. Len(a) : \E x \in Text : x # "direct" /\ a[i] = Single(x)
  BY <1>4, NonCascadedFacts DEF DistinctNames
<1>13. /\ \A x, y \in Text : /\ Single(x) # Pair("delta", y) /\ Single(x) # Pair("rle", y)
                             /\ Single(x) # Pair("for", y)
                             /\ Pair("delta", x) # Pair("rle", y)
                             /\ Pair("delta", x) # Pair("for", y)
                             /\ Pair("rle", x) # Pair("for", y)
       /\ \A x \in Text : x # "direct" => Single(x) # Single("direct")
  <2>1. "delta" # "rle" /\ "delta" # "for" /\ "rle" # "for"
    OBVIOUS
  <2> QED
    BY <1>1, <2>1, CodecFacts
<1> HIDE DEF a, d, r, f, e
<1> DEFINE ad == a \o d
           adr == ad \o r
           adrf == adr \o f
<1>14. ad \in Seq(Codec) /\ adr \in Seq(Codec) /\ adrf \in Seq(Codec)
  BY <1>2
<1>15. NoRepeats(ad)
  <2>1. \A i \in 1 .. Len(a) : \A j \in 1 .. Len(d) : a[i] # d[j]
    BY <1>11, <1>12, <1>13
  <2> QED
    BY <1>2, <1>9, <1>10, <2>1, ConcatDistinct
<1>16. \A i \in 1 .. Len(ad) : (\E j \in 1 .. Len(a) : ad[i] = a[j])
                                 \/ \E j \in 1 .. Len(d) : ad[i] = d[j]
  BY <1>2, ConcatElements
<1> HIDE DEF ad
<1>17. \A i \in 1 .. Len(ad) : (\E x \in Text : x # "direct" /\ ad[i] = Single(x))
                                 \/ \E y \in Text : ad[i] = Pair("delta", y)
  BY <1>11, <1>12, <1>16
<1>18. NoRepeats(adr)
  <2>1. \A i \in 1 .. Len(ad) : \A j \in 1 .. Len(r) : ad[i] # r[j]
    BY <1>11, <1>13, <1>17
  <2> QED
    BY <1>2, <1>10, <1>14, <1>15, <2>1, ConcatDistinct
<1>19. \A i \in 1 .. Len(adr) : (\E j \in 1 .. Len(ad) : adr[i] = ad[j])
                                  \/ \E j \in 1 .. Len(r) : adr[i] = r[j]
  BY <1>2, <1>14, ConcatElements
<1> HIDE DEF adr
<1>20. \A i \in 1 .. Len(adr) :
         \/ \E x \in Text : x # "direct" /\ adr[i] = Single(x)
         \/ \E y \in Text : adr[i] = Pair("delta", y) \/ adr[i] = Pair("rle", y)
  BY <1>11, <1>17, <1>19
<1>21. NoRepeats(adrf)
  <2>1. \A i \in 1 .. Len(adr) : \A j \in 1 .. Len(f) : adr[i] # f[j]
    BY <1>11, <1>13, <1>20
  <2> QED
    BY <1>2, <1>10, <1>14, <1>18, <2>1, ConcatDistinct
<1>22. \A i \in 1 .. Len(adrf) : (\E j \in 1 .. Len(adr) : adrf[i] = adr[j])
                                  \/ \E j \in 1 .. Len(f) : adrf[i] = f[j]
  BY <1>2, <1>14, ConcatElements
<1> HIDE DEF adrf
<1>23. NoRepeats(adrf \o e)
  <2>1. \A i \in 1 .. Len(adrf) : adrf[i] # Single("direct")
    BY <1>1, <1>11, <1>13, <1>20, <1>22
  <2>2. \A i \in 1 .. Len(adrf) : \A j \in 1 .. Len(e) : adrf[i] # e[j]
    BY <1>3, <2>1
  <2> QED
    BY <1>3, <1>10, <1>14, <1>21, <2>2, ConcatDistinct
<1> QED
  BY <1>23 DEF BuildAllCodecs, adrf, adr, ad, a, d, r, f, e
-------------------------------------------------------------------------------
(***************************************************************************)
(* The inductive invariant.  Once the loops are laid out they range over   *)
(* what the command line gives; while they run, the indices are those of   *)
(* the next rank after everything that was run; what was run was run with  *)
(* the codecs of its indices; and a bench_comp that gave up did so where   *)
(* the indices are, with what precedes them behind it.                     *)
(***************************************************************************)
Ranges ==
  IF IsComp THEN <<options.composites, options.orderings, options.transformations>>
  ELSE Combinations \o <<SelectCodecsByName(BuildAllCodecs, options.initial),
                         SelectCodecsByName(BuildAllCodecs, options.again),
                         options.patterns>>

Begun == pc \in {"loop", "done"} \/ ran # <<>>

Laid == /\ Begun => lists = Ranges
        /\ pc = "start" => ran = <<>>

CodecsAt(place) ==
  IF IsComp THEN BuildCodecsForComposite(lists[1][place[1]])
  ELSE <<lists[4][place[4]], lists[5][place[5]]>>

Looping == pc = "loop" => IsPlace(at, lists) /\ RankIn(lists, at) = Len(ran) + 1

Recorded ==
  \A n \in 1 .. Len(ran) : /\ IsPlace(ran[n].at, lists)
                           /\ RankIn(lists, ran[n].at) = n
                           /\ ran[n].codecs = CodecsAt(ran[n].at)

AllRun == pc = "done" => Len(ran) = CombinedIn(lists)

ParsedFirst ==
  ~ IsComp /\ Begun => \A m \in 1 .. 3 : AllKnown(Combinations[m], Parsers[m])

\* What bench_comp comes to that no handler catches.
MayEnd == ~ ConfigKnown \/ MayTrap(lists[3][at[3]])

EndedThere ==
  IsComp /\ pc \in {"terminated", "trapped"} =>
    options.raster = "zero" \/ (MayEnd /\ RankIn(lists, at) = Len(ran) + 1)

IInv == /\ options \in OptionSets
        /\ pc \in {"start", "loop"} \cup Ends
        /\ ran \in Seq([at : Seq(Nat), codecs : Seq(Codec)])
        /\ Laid /\ Looping /\ Recorded /\ AllRun /\ ParsedFirst /\ EndedThere

LEMMA ConcatFacts ==
  ASSUME NEW D, NEW s \in Seq(D), NEW t \in Seq(D)
  PROVE  /\ Len(s \o t) = Len(s) + Len(t) /\ DOMAIN (s \o t) = 1 .. Len(s) + Len(t)
         /\ \A i \in 1 .. Len(s) : (s \o t)[i] = s[i]
         /\ \A i \in 1 .. Len(t) : (s \o t)[Len(s) + i] = t[i]
OBVIOUS

\* The lists of a program's loops.
LEMMA CompLists ==
  ASSUME NEW o \in OptionSets, o.program = "comp"
  PROVE  LET ls == <<o.composites, o.orderings, o.transformations>>
         IN  /\ Listed(ls) /\ Len(ls) = 3
             /\ \A m \in 1 .. 3 : ls[m] \in Seq(STRING)
             /\ ls[1] = o.composites /\ ls[2] = o.orderings /\ ls[3] = o.transformations
<1> DEFINE S == Seq(STRING)
           ls == <<o.composites, o.orderings, o.transformations>>
<1>1. o.composites \in S /\ o.orderings \in S /\ o.transformations \in S
  BY DriversAssumption
<1>2. \A s \in S : Len(s) \in Nat
  OBVIOUS
<1> HIDE DEF S
<1>3. \A m \in 1 .. 3 : ls[m] \in S
  BY <1>1
<1>4. Listed(ls)
  BY <1>2, <1>3 DEF Listed
<1> QED
  BY <1>3, <1>4 DEF S

LEMMA PipelineLists ==
  ASSUME NEW o \in OptionSets, o.program # "comp"
  PROVE  LET initial == SelectCodecsByName(BuildAllCodecs, o.initial)
             again   == SelectCodecsByName(BuildAllCodecs, o.again)
             ls == <<o.orderings, o.transformations, o.accesses>>
                     \o <<initial, again, o.patterns>>
         IN  /\ Listed(ls) /\ Len(ls) = 6
             /\ \A m \in {1, 2, 3, 6} : ls[m] \in Seq(STRING)
             /\ ls[4] = initial /\ ls[5] = again
             /\ initial \in Seq(Codec) /\ again \in Seq(Codec)
<1> DEFINE initial == SelectCodecsByName(BuildAllCodecs, o.initial)
           again   == SelectCodecsByName(BuildAllCodecs, o.again)
           S == Seq(STRING)
           C == Seq(Codec)
           front == <<o.orderings, o.transformations, o.accesses>>
           back == <<initial, again, o.patterns>>
           ls == front \o back
<1>1. o.orderings \in S /\ o.transformations \in S /\ o.accesses \in S /\ o.patterns \in S
  BY DriversAssumption
<1>2. initial \in C /\ again \in C
  BY PoolType, SelectionType
<1>3. (\A s \in S : Len(s) \in Nat) /\ \A s \in C : Len(s) \in Nat
  OBVIOUS
<1> HIDE DEF S, C, initial, again
<1> DEFINE D == S \cup C
<1>4. front \in Seq(D) /\ back \in Seq(D)
  BY <1>1, <1>2
<1>5. Len(front) = 3 /\ Len(back) = 3
  OBVIOUS
<1>6. /\ Len(ls) = 6 /\ DOMAIN ls = 1 .. 6
      /\ ls[1] = front[1] /\ ls[2] = front[2] /\ ls[3] = front[3]
      /\ ls[4] = back[1] /\ ls[5] = back[2] /\ ls[6] = back[3]
  <2> HIDE DEF front, back, D
  <2>1. /\ Len(ls) = Len(front) + Len(back) /\ DOMAIN ls = 1 .. Len(front) + Len(back)
        /\ \A i \in 1 .. Len(front) : ls[i] = front[i]
        /\ \A i \in 1 .. Len(back) : ls[Len(front) + i] = back[i]
    BY <1>4, ConcatFacts
  <2> HIDE DEF ls
  <2>2. /\ 1 \in 1 .. 3 /\ 2 \in 1 .. 3 /\ 3 \in 1 .. 3
        /\ 3 + 1 = 4 /\ 3 + 2 = 5 /\ 3 + 3 = 6
    OBVIOUS
  <2> QED
    BY <1>5, <2>1, <2>2
<1>7. /\ ls[1] = o.orderings /\ ls[2] = o.transformations /\ ls[3] = o.accesses
      /\ ls[4] = initial /\ ls[5] = again /\ ls[6] = o.patterns
  BY <1>6
<1> HIDE DEF ls
<1>8. \A m \in 1 .. 6 : ls[m] \in D
  BY <1>1, <1>2, <1>7
<1>9. Listed(ls)
  BY <1>3, <1>6, <1>8 DEF Listed
<1> QED
  BY <1>1, <1>2, <1>6, <1>7, <1>9 DEF S, C, ls, initial, again

LEMMA RangesFacts ==
  ASSUME options \in OptionSets
  PROVE  /\ Listed(Ranges)
         /\ \A m \in 1 .. Len(Ranges) : Len(Ranges[m]) = 0 => Ranges[m] = <<>>
         /\ IsComp => /\ Len(Ranges) = 3
                      /\ \A m \in 1 .. 3 : Ranges[m] \in Seq(STRING)
                      /\ Ranges[2] = options.orderings
                      /\ Ranges[3] = options.transformations
         /\ ~ IsComp => /\ Len(Ranges) = 6
                        /\ Ranges[4] = SelectCodecsByName(BuildAllCodecs, options.initial)
                        /\ Ranges[5] = SelectCodecsByName(BuildAllCodecs, options.again)
                        /\ Ranges[4] \in Seq(Codec) /\ Ranges[5] \in Seq(Codec)
<1> DEFINE S == Seq(STRING)
           C == Seq(Codec)
<1>1. (\A s \in S : Len(s) = 0 => s = <<>>) /\ \A s \in C : Len(s) = 0 => s = <<>>
  OBVIOUS
<1>2. CASE IsComp
  <2> DEFINE ls == <<options.composites, options.orderings, options.transformations>>
  <2>1. /\ Listed(ls) /\ Len(ls) = 3
        /\ \A m \in 1 .. 3 : ls[m] \in S
        /\ ls[2] = options.orderings /\ ls[3] = options.transformations
    BY <1>2, CompLists DEF IsComp
  <2>2. Ranges = ls
    BY <1>2 DEF Ranges
  <2> HIDE DEF ls, S, C
  <2>3. \A m \in 1 .. Len(ls) : Len(ls[m]) = 0 => ls[m] = <<>>
    BY <1>1, <2>1
  <2> QED
    BY <1>2, <2>1, <2>2, <2>3 DEF S
<1>3. CASE ~ IsComp
  <2> DEFINE initial == SelectCodecsByName(BuildAllCodecs, options.initial)
             again   == SelectCodecsByName(BuildAllCodecs, options.again)
             ls == <<options.orderings, options.transformations, options.accesses>>
                     \o <<initial, again, options.patterns>>
  <2>1. /\ Listed(ls) /\ Len(ls) = 6
        /\ \A m \in {1, 2, 3, 6} : ls[m] \in S
        /\ ls[4] = initial /\ ls[5] = again /\ initial \in C /\ again \in C
    BY <1>3, PipelineLists DEF IsComp
  <2>2. Ranges = ls
    BY <1>3 DEF Ranges, Combinations
  <2> HIDE DEF ls, S, C
  <2>3. \A m \in 1 .. 6 : ls[m] \in S \cup C
    BY <2>1
  <2>4. \A m \in 1 .. Len(ls) : Len(ls[m]) = 0 => ls[m] = <<>>
    BY <1>1, <2>1, <2>3
  <2> QED
    BY <1>3, <2>1, <2>2, <2>4 DEF C
<1> QED
  BY <1>2, <1>3

\* A place of the loops is a sequence of numbers.
LEMMA PlaceType ==
  ASSUME NEW ls, Listed(ls), NEW p, IsPlace(p, ls)
  PROVE  p \in Seq(Nat) /\ DOMAIN p = 1 .. Len(ls)
         /\ \A m \in 1 .. Len(ls) : p[m] \in 1 .. Len(ls[m])
<1>1. Len(ls) \in Nat /\ \A m \in 1 .. Len(ls) : Bases(ls)[m] = Len(ls[m])
  BY BasesType DEF Listed
<1>2. p \in [1 .. Len(ls) -> Nat] /\ \A m \in 1 .. Len(ls) : p[m] \in 1 .. Bases(ls)[m]
  BY DEF IsPlace, Digits
<1> DEFINE n == Len(ls)
<1>3. n \in Nat /\ p \in [1 .. n -> Nat]
  BY <1>1, <1>2
<1> HIDE DEF n
<1>4. p \in Seq(Nat)
  BY <1>3
<1> QED
  BY <1>1, <1>2, <1>4

LEMMA InitIInv == Init => IInv
<1> SUFFICES ASSUME Init PROVE IInv
  OBVIOUS
<1>1. <<>> \in Seq([at : Seq(Nat), codecs : Seq(Codec)])
  OBVIOUS
<1> QED
  BY <1>1 DEF Init, IInv, Laid, Begun, Looping, Recorded, AllRun, ParsedFirst,
              EndedThere
\* The loops are laid out, over the lists of the command line.
LEMMA BeginStep ==
  ASSUME IInv, pc = "start", Begin(Ranges),
         ~ IsComp => \A m \in 1 .. 3 : AllKnown(Combinations[m], Parsers[m])
  PROVE  IInv'
<1> DEFINE ls == Ranges
<1>1. /\ Listed(ls) /\ DOMAIN ls = 1 .. Len(ls)
      /\ \A m \in 1 .. Len(ls) : Len(ls[m]) = 0 => ls[m] = <<>>
  BY RangesFacts DEF IInv, Listed
<1>2. /\ lists' = ls /\ options' = options /\ ran' = ran /\ ran = <<>>
      /\ at' = [m \in DOMAIN ls |-> 1]
      /\ pc' = IF \E m \in DOMAIN ls : ls[m] = <<>> THEN "done" ELSE "loop"
  BY DEF Begin, IInv, Laid
<1>3. /\ options' \in OptionSets /\ pc' \in {"start", "loop"} \cup Ends
      /\ ran' \in Seq([at : Seq(Nat), codecs : Seq(Codec)])
  BY <1>2 DEF IInv, Ends
<1>4. Laid'
  <2>1. Ranges' = Ranges
    BY <1>2 DEF Ranges, IsComp, Combinations
  <2> HIDE DEF ls
  <2> QED
    BY <1>2, <2>1 DEF Laid, ls
<1> HIDE DEF ls
<1>5. Looping'
  <2> SUFFICES ASSUME pc' = "loop" PROVE IsPlace(at', ls) /\ RankIn(ls, at') = Len(ran) + 1
    BY <1>2 DEF Looping
  <2>1. \A m \in 1 .. Len(ls) : ls[m] # <<>>
    BY <1>1, <1>2
  <2>2. at' = [m \in 1 .. Len(ls) |-> 1]
    BY <1>1, <1>2
  <2>3. Len(ran) = 0
    BY <1>2
  <2> QED
    BY <1>1, <2>1, <2>2, <2>3, FirstPlace
<1>6. Recorded'
  BY <1>2 DEF Recorded
<1>7. AllRun'
  <2> SUFFICES ASSUME pc' = "done" PROVE Len(ran) = CombinedIn(ls)
    BY <1>2 DEF AllRun
  <2>1. PICK m \in 1 .. Len(ls) : ls[m] = <<>>
    BY <1>1, <1>2
  <2> QED
    BY <1>1, <1>2, <2>1, NoPlace
<1>8. ParsedFirst'
  BY <1>2 DEF ParsedFirst, IsComp, Combinations, Parsers, AllKnown
<1>9. EndedThere'
  BY <1>2 DEF EndedThere
<1> QED
  BY <1>3, <1>4, <1>5, <1>6, <1>7, <1>8, <1>9 DEF IInv

\* A program ends by an exception or a trap.
LEMMA GiveUpStep ==
  ASSUME IInv, pc \in {"start", "loop"}, NEW end \in {"terminated", "trapped"}, GiveUp(end),
         IsComp => \/ pc = "start" /\ options.raster = "zero"
                   \/ pc = "loop" /\ MayEnd
  PROVE  IInv'
<1>1. UNCHANGED <<options, lists, at, ran>> /\ pc' = end
  BY DEF GiveUp
<1>2. Laid'
  BY <1>1 DEF IInv, Laid, Begun, Ranges, IsComp, Combinations
<1>3. Recorded'
  <2>1. \A p : CodecsAt(p)' = CodecsAt(p)
    BY <1>1 DEF CodecsAt, IsComp
  <2> QED
    BY <1>1, <2>1 DEF IInv, Recorded
<1>4. Looping' /\ AllRun'
  BY <1>1 DEF Looping, AllRun
<1>5. ParsedFirst'
  BY <1>1 DEF IInv, ParsedFirst, Begun, IsComp, Combinations, Parsers, AllKnown
<1>6. EndedThere'
  <2>1. MayEnd' = MayEnd /\ IsComp' = IsComp
    BY <1>1 DEF MayEnd, ConfigKnown, MayTrap, TrapsForSure, IsComp
  <2>2. pc = "loop" => RankIn(lists, at) = Len(ran) + 1
    BY DEF IInv, Looping
  <2> QED
    BY <1>1, <2>1, <2>2 DEF EndedThere
<1> QED
  BY <1>1, <1>2, <1>3, <1>4, <1>5, <1>6 DEF IInv, Ends

\* The codecs of a configuration or a combination.
LEMMA CodecsAtType ==
  ASSUME IInv, pc = "loop"
  PROVE  CodecsAt(at) \in Seq(Codec)
<1>1. lists = Ranges /\ Listed(lists) /\ IsPlace(at, lists)
  BY RangesFacts DEF IInv, Laid, Begun, Looping
<1>2. \A m \in 1 .. Len(lists) : at[m] \in 1 .. Len(lists[m])
  BY <1>1, PlaceType
<1>3. CASE IsComp
  <2>1. Len(lists) = 3 /\ lists[1] \in Seq(STRING) /\ at[1] \in 1 .. Len(lists[1])
    <3>1. Len(Ranges) = 3 /\ \A m \in 1 .. 3 : Ranges[m] \in Seq(STRING)
      BY <1>3, RangesFacts DEF IInv
    <3> HIDE DEF IInv
    <3>2. 1 \in 1 .. Len(lists)
      BY <1>1, <3>1
    <3> QED
      BY <1>1, <1>2, <3>1, <3>2
  <2> DEFINE name == lists[1][at[1]]
             S == STRING
  <2>2. name \in S /\ S \subseteq Text
    BY <2>1 DEF Text
  <2> HIDE DEF name, S
  <2>3. Cascades(<<name>>) \in Seq(Codec) /\ NonCascaded \in Seq(Codec)
    BY <2>2, CascadesFacts, NonCascadedFacts
  <2> QED
    BY <1>3, <2>3 DEF CodecsAt, BuildCodecsForComposite, name
<1>4. CASE ~ IsComp
  <2>1. Len(lists) = 6 /\ lists[4] \in Seq(Codec) /\ lists[5] \in Seq(Codec)
    BY <1>1, <1>4, RangesFacts DEF IInv
  <2>2. at[4] \in 1 .. Len(lists[4]) /\ at[5] \in 1 .. Len(lists[5])
    BY <1>2, <2>1
  <2>3. lists[4][at[4]] \in Codec /\ lists[5][at[5]] \in Codec
    BY <2>1, <2>2
  <2> QED
    BY <1>4, <2>3 DEF CodecsAt
<1> QED
  BY <1>3, <1>4

\* What is at the indices is run, and the loops go on or end.
LEMMA RunStep ==
  ASSUME IInv, pc = "loop", GoOn, UNCHANGED <<options, lists>>,
         ran' = Append(ran, [at |-> at, codecs |-> CodecsAt(at)])
  PROVE  IInv'
<1> DEFINE entry == [at |-> at, codecs |-> CodecsAt(at)]
           E == [at : Seq(Nat), codecs : Seq(Codec)]
<1>1. /\ lists = Ranges /\ Listed(lists) /\ IsPlace(at, lists)
      /\ RankIn(lists, at) = Len(ran) + 1 /\ ran \in Seq(E)
  BY RangesFacts DEF IInv, Laid, Begun, Looping
<1>2. entry \in E
  BY <1>1, PlaceType, CodecsAtType
<1>3. entry.at = at /\ entry.codecs = CodecsAt(at)
  OBVIOUS
<1> HIDE DEF entry, E
<1>4. /\ ran' \in Seq(E) /\ Len(ran) \in Nat /\ Len(ran') = Len(ran) + 1
      /\ \A n \in 1 .. Len(ran) : ran'[n] = ran[n]
      /\ ran'[Len(ran) + 1] = entry
  BY <1>1, <1>2 DEF entry
<1>5. \A p : CodecsAt(p)' = CodecsAt(p)
  BY DEF CodecsAt, IsComp
<1>6. Recorded'
  <2> SUFFICES ASSUME NEW n \in 1 .. Len(ran')
               PROVE  /\ IsPlace(ran'[n].at, lists)
                      /\ RankIn(lists, ran'[n].at) = n
                      /\ ran'[n].codecs = CodecsAt(ran'[n].at)
    BY <1>5 DEF Recorded
  <2>1. CASE n \in 1 .. Len(ran)
    BY <1>4, <2>1 DEF IInv, Recorded
  <2>2. CASE n = Len(ran) + 1
    BY <1>1, <1>3, <1>4, <2>2
  <2> QED
    BY <1>4, <2>1, <2>2
<1>7. Laid'
  <2>1. Ranges' = Ranges
    BY DEF Ranges, IsComp, Combinations
  <2>2. pc' # "start"
    BY DEF GoOn
  <2> QED
    BY <1>1, <2>1, <2>2 DEF Laid
<1>8. DOMAIN at = 1 .. Len(lists)
  BY <1>1, PlaceType
<1>9. ASSUME AtLast PROVE Looping' /\ AllRun'
  <2>1. pc' = "done" /\ \A m \in 1 .. Len(lists) : at[m] = Len(lists[m])
    BY <1>8, <1>9 DEF AtLast, GoOn
  <2>2. RankIn(lists, at) = CombinedIn(lists)
    BY <1>1, <2>1, LastPlace
  <2> QED
    BY <1>1, <1>4, <2>1, <2>2 DEF Looping, AllRun
<1>10. ASSUME ~ AtLast PROVE Looping' /\ AllRun'
  <2>1. /\ pc' = "loop" /\ at' = Advance(at)
        /\ ~ \A m \in 1 .. Len(lists) : at[m] = Len(lists[m])
    BY <1>8, <1>10 DEF AtLast, GoOn
  <2>2. IsPlace(at', lists) /\ RankIn(lists, at') = RankIn(lists, at) + 1
    BY <1>1, <2>1, NextPlace
  <2> QED
    BY <1>1, <1>4, <2>1, <2>2 DEF Looping, AllRun
<1>11. Looping' /\ AllRun'
  BY <1>9, <1>10
<1>12. ParsedFirst' /\ EndedThere'
  <2>1. pc' \notin {"terminated", "trapped"}
    BY DEF GoOn
  <2> QED
    BY <2>1 DEF IInv, ParsedFirst, Begun, EndedThere, IsComp, Combinations, Parsers, AllKnown
<1>13. pc' \in {"start", "loop"} \cup Ends /\ options' \in OptionSets
  BY DEF GoOn, IInv, Ends
<1> QED
  BY <1>4, <1>6, <1>7, <1>11, <1>12, <1>13 DEF IInv, E

LEMMA NextIInv == IInv /\ [Next]_vars => IInv'
<1> SUFFICES ASSUME IInv, [Next]_vars PROVE IInv'
  OBVIOUS
<1>1. CASE StartPipeline
  <2>1. pc = "start" /\ ~ IsComp
    BY <1>1 DEF StartPipeline
  <2>2. CASE \A m \in 1 .. 3 : AllKnown(Combinations[m], Parsers[m])
    <3>1. Begin(Ranges)
      BY <1>1, <2>1, <2>2 DEF StartPipeline, BeginPipeline, Ranges
    <3> QED
      BY <2>1, <2>2, <3>1, BeginStep
  <2>3. CASE ~ \A m \in 1 .. 3 : AllKnown(Combinations[m], Parsers[m])
    <3>1. GiveUp("terminated")
      BY <1>1, <2>3 DEF StartPipeline
    <3> QED
      BY <2>1, <3>1, GiveUpStep
  <2> QED
    BY <2>2, <2>3
<1>2. CASE RunOneCombination
  <2>1. ran' = Append(ran, [at |-> at, codecs |-> CodecsAt(at)])
    BY <1>2 DEF RunOneCombination, CodecsAt
  <2> QED
    BY <1>2, <2>1, RunStep DEF RunOneCombination
<1>3. CASE CombinationThrows \/ CombinationTraps \/ StartPipelineTraps
  BY <1>3, GiveUpStep DEF CombinationThrows, CombinationTraps, StartPipelineTraps
<1>4. CASE StartComp
  <2>1. pc = "start" /\ IsComp /\ Begin(Ranges)
    BY <1>4 DEF StartComp, Ranges
  <2> QED
    BY <2>1, BeginStep
<1>5. CASE RunBenchConfig
  <2>1. ran' = Append(ran, [at |-> at, codecs |-> CodecsAt(at)])
    BY <1>5 DEF RunBenchConfig, InConfig, Record, CodecsAt
  <2> QED
    BY <1>5, <2>1, RunStep DEF RunBenchConfig, InConfig
<1>6. CASE ConfigThrows
  <2>1. ran' = Append(ran, [at |-> at, codecs |-> CodecsAt(at)])
    BY <1>6 DEF ConfigThrows, InConfig, Record, CodecsAt
  <2> QED
    BY <1>6, <2>1, RunStep DEF ConfigThrows, InConfig
<1>7. CASE StartCompTraps \/ ConfigTraps \/ ParseThrows
  BY <1>7, GiveUpStep DEF StartCompTraps, ConfigTraps, InConfig, ParseThrows, MayEnd
<1>8. CASE UNCHANGED vars
  <2>1. UNCHANGED <<options, pc, lists, at, ran>>
    BY <1>8 DEF vars
  <2>2. \A p : CodecsAt(p)' = CodecsAt(p)
    BY <2>1 DEF CodecsAt, IsComp
  <2>3. Recorded'
    BY <2>1, <2>2 DEF IInv, Recorded
  <2>4. EndedThere'
    BY <2>1 DEF IInv, EndedThere, MayEnd, ConfigKnown, MayTrap, TrapsForSure, IsComp
  <2> QED
    BY <2>1, <2>3, <2>4 DEF IInv, Laid, Begun, Ranges, Looping, AllRun, ParsedFirst,
                            IsComp, Combinations, Parsers, AllKnown
<1> QED
  BY <1>1, <1>2, <1>3, <1>4, <1>5, <1>6, <1>7, <1>8 DEF Next, Stopped

LEMMA InvariantHolds == Spec => []IInv
BY InitIInv, NextIInv, PTL DEF Spec
-------------------------------------------------------------------------------
(***************************************************************************)
(* However many names each list has, the n-th thing a program runs is the  *)
(* n-th of its nested loops, and a program that is done has run them all.  *)
(***************************************************************************)
THEOREM InOrder == Spec => []RunsAllInOrder
<1>1. (\A p : Rank(p) = RankIn(lists, p)) /\ Combined = CombinedIn(lists)
  BY DEF Rank, RankIn, Combined, CombinedIn
<1>2. IInv => RunsAllInOrder
  <2> SUFFICES ASSUME IInv PROVE RunsAllInOrder
    OBVIOUS
  <2>1. DOMAIN ran = 1 .. Len(ran)
    BY DEF IInv
  <2> QED
    BY <1>1, <2>1 DEF IInv, Recorded, AllRun, RunsAllInOrder
<1> QED
  BY <1>2, InvariantHolds, PTL

(***************************************************************************)
(* For every command line of bench_pipeline: an ordering or transformation *)
(* that is not known, wherever it stands, keeps everything from running.   *)
(***************************************************************************)
THEOREM NothingRunsUnparsed == Spec => []UnknownNamesRunNothing
<1>1. IInv => UnknownNamesRunNothing
  BY DEF IInv, ParsedFirst, Begun, UnknownNamesRunNothing
<1> QED
  BY <1>1, InvariantHolds, PTL

(***************************************************************************)
(* OnlyANameOrATrapEndsComp: whatever fails and however often, bench_comp  *)
(* ends early only at a name it does not know or at a configuration that   *)
(* divides by zero, and has run what its loops have before it.             *)
(***************************************************************************)
THEOREM OnlyNamesAndTrapsEnd == Spec => []OnlyANameOrATrapEndsComp
<1>1. \A p : Rank(p) = RankIn(lists, p)
  BY DEF Rank, RankIn
<1>2. IInv => OnlyANameOrATrapEndsComp
  <2> SUFFICES ASSUME IInv PROVE OnlyANameOrATrapEndsComp
    OBVIOUS
  <2>1. Len(ran) \in Nat
    BY DEF IInv
  <2>2. RankIn(lists, at) = Len(ran) + 1 => Len(ran) = Rank(at) - 1
    BY <1>1, <2>1
  <2> QED
    BY <2>2 DEF IInv, EndedThere, MayEnd, OnlyANameOrATrapEndsComp
<1> QED
  BY <1>2, InvariantHolds, PTL

(***************************************************************************)
(* For all pools whose codecs have different names, a pair of codecs meets *)
(* each combination and pattern of bench_pipeline once: a selection keeps  *)
(* no codec twice, so equal codecs stand at equal indices.                 *)
(***************************************************************************)
THEOREM PairsMeetOnce ==
  ASSUME DistinctNames
  PROVE  Spec => []NoPairTwice
<1>1. IInv => NoPairTwice
  <2> SUFFICES ASSUME IInv, ~ IsComp, NEW i \in 1 .. Len(ran), NEW j \in 1 .. Len(ran),
                      SamePlace(ran[i], ran[j]), ran[i].codecs = ran[j].codecs
               PROVE  i = j
    <3>1. DOMAIN ran = 1 .. Len(ran)
      BY DEF IInv
    <3> QED
      BY <3>1 DEF NoPairTwice
  <2> DEFINE p == ran[i].at
             q == ran[j].at
  <2>1. /\ IsPlace(p, lists) /\ RankIn(lists, p) = i /\ ran[i].codecs = CodecsAt(p)
        /\ IsPlace(q, lists) /\ RankIn(lists, q) = j /\ ran[j].codecs = CodecsAt(q)
    BY DEF IInv, Recorded
  <2>2. ran # <<>>
    BY DEF IInv
  <2>3. lists = Ranges /\ options \in OptionSets
    BY <2>2 DEF IInv, Laid, Begun
  <2>4. /\ Listed(lists) /\ Len(lists) = 6
        /\ lists[4] = SelectCodecsByName(BuildAllCodecs, options.initial)
        /\ lists[5] = SelectCodecsByName(BuildAllCodecs, options.again)
    BY <2>3, RangesFacts
  <2>5. NoRepeats(lists[4]) /\ NoRepeats(lists[5])
    BY <2>4, PoolType, PoolDistinct, SelectionDistinct
  <2>6. p[1] = q[1] /\ p[2] = q[2] /\ p[3] = q[3] /\ p[6] = q[6]
    BY DEF SamePlace
  <2> HIDE DEF p, q
  <2>7. lists[4][p[4]] = lists[4][q[4]] /\ lists[5][p[5]] = lists[5][q[5]]
    <3>1. CodecsAt(p) = <<lists[4][p[4]], lists[5][p[5]]>>
      BY DEF CodecsAt
    <3>2. CodecsAt(q) = <<lists[4][q[4]], lists[5][q[5]]>>
      BY DEF CodecsAt
    <3>3. CodecsAt(p) = CodecsAt(q)
      BY <2>1
    <3> QED
      BY <3>1, <3>2, <3>3
  <2>8. /\ p \in Seq(Nat) /\ q \in Seq(Nat) /\ DOMAIN p = 1 .. 6 /\ DOMAIN q = 1 .. 6
        /\ p[4] \in 1 .. Len(lists[4]) /\ q[4] \in 1 .. Len(lists[4])
        /\ p[5] \in 1 .. Len(lists[5]) /\ q[5] \in 1 .. Len(lists[5])
    BY <2>1, <2>4, PlaceType
  <2>9. p[4] = q[4] /\ p[5] = q[5]
    BY <2>5, <2>7, <2>8 DEF NoRepeats
  <2>10. \A m \in 1 .. 6 : p[m] = q[m]
    BY <2>6, <2>9
  <2>11. p = q
    <3>1. p \in [1 .. 6 -> Nat] /\ q \in [1 .. 6 -> Nat]
      BY <2>1, <2>4 DEF IsPlace, Digits
    <3> QED
      BY <2>10, <3>1
  <2> QED
    BY <2>1, <2>11
<1> QED
  BY <1>1, InvariantHolds, PTL

(***************************************************************************)
(* For all pools and command lines, a composite name that names a codec    *)
(* brings codecs that no other composite name brings.                      *)
(***************************************************************************)
THEOREM CompositesApart == Spec => []CompositesShareNoCodec
<1>1. ASSUME NEW x \in STRING, NEW y \in STRING, x # y, IsCodecName(x)
      PROVE  ToSet(BuildCodecsForComposite(x)) \cap ToSet(BuildCodecsForComposite(y)) = {}
  <2>1. x \in Text /\ y \in Text
    BY DEF Text
  <2>2. \A z : IsCodecName(z) <=> \E j \in 1 .. Len(NonCascaded) : NonCascaded[j] = <<z>>
    <3> DEFINE s == NonCascaded
    <3>1. DOMAIN s = 1 .. Len(s)
      BY NonCascadedFacts
    <3> HIDE DEF s
    <3>2. \A c : c \in ToSet(s) <=> \E j \in 1 .. Len(s) : s[j] = c
      BY <3>1 DEF ToSet
    <3>3. \A z : <<z>> \in ToSet(s) <=> \E j \in 1 .. Len(s) : s[j] = <<z>>
      BY <3>2
    <3> QED
      BY <3>3 DEF IsCodecName, s
  <2>3. \A c \in ToSet(NonCascaded) : \E z \in Text : c = Single(z)
    BY NonCascadedFacts DEF ToSet
  <2>4. ASSUME NEW z \in Text
        PROVE  \A c \in ToSet(Cascades(<<z>>)) : \E w \in Text : c = Pair(z, w)
    BY CascadesFacts DEF ToSet
  <2>5. BuildCodecsForComposite(x) = Cascades(<<x>>)
    BY <1>1, <2>2 DEF BuildCodecsForComposite
  <2>6. \/ BuildCodecsForComposite(y) = Cascades(<<y>>)
        \/ BuildCodecsForComposite(y) = NonCascaded
    BY DEF BuildCodecsForComposite
  <2>7. ToSet(Cascades(<<x>>)) \cap ToSet(Cascades(<<y>>)) = {}
    <3> SUFFICES ASSUME NEW c \in ToSet(Cascades(<<x>>)), c \in ToSet(Cascades(<<y>>))
                 PROVE  FALSE
      OBVIOUS
    <3>1. PICK w \in Text : c = Pair(x, w)
      BY <2>1, <2>4
    <3>2. PICK v \in Text : c = Pair(y, v)
      BY <2>1, <2>4
    <3> QED
      BY <1>1, <2>1, <3>1, <3>2, CodecFacts
  <2>8. ToSet(Cascades(<<x>>)) \cap ToSet(NonCascaded) = {}
    <3> SUFFICES ASSUME NEW c \in ToSet(Cascades(<<x>>)), c \in ToSet(NonCascaded)
                 PROVE  FALSE
      OBVIOUS
    <3>1. PICK w \in Text : c = Pair(x, w)
      BY <2>1, <2>4
    <3>2. PICK z \in Text : c = Single(z)
      BY <2>3
    <3> QED
      BY <2>1, <3>1, <3>2, CodecFacts
  <2> QED
    BY <2>5, <2>6, <2>7, <2>8
<1>2. IInv => CompositesShareNoCodec
  <2> SUFFICES ASSUME IInv, IsComp, NEW i \in 1 .. Len(ran), NEW j \in 1 .. Len(ran),
                      lists[1][ran[i].at[1]] # lists[1][ran[j].at[1]],
                      ToSet(ran[i].codecs) \cap ToSet(ran[j].codecs) # {}
               PROVE  /\ ~ IsCodecName(lists[1][ran[i].at[1]])
                      /\ ~ IsCodecName(lists[1][ran[j].at[1]])
    <3>1. DOMAIN ran = 1 .. Len(ran)
      BY DEF IInv
    <3> QED
      BY <3>1 DEF CompositesShareNoCodec
  <2> DEFINE name(n) == lists[1][ran[n].at[1]]
  <2>1. ran # <<>>
    BY DEF IInv
  <2>2. lists = Ranges /\ options \in OptionSets
    BY <2>1 DEF IInv, Laid, Begun
  <2>3. Listed(lists) /\ Len(lists) = 3 /\ lists[1] \in Seq(STRING)
    BY <2>2, RangesFacts
  <2>4. ASSUME NEW n \in 1 .. Len(ran)
        PROVE  name(n) \in STRING /\ ran[n].codecs = BuildCodecsForComposite(name(n))
    <3>1. IsPlace(ran[n].at, lists) /\ ran[n].codecs = CodecsAt(ran[n].at)
      BY DEF IInv, Recorded
    <3>2. ran[n].at[1] \in 1 .. Len(lists[1])
      BY <2>3, <3>1, PlaceType
    <3> QED
      BY <2>3, <3>1, <3>2 DEF CodecsAt
  <2> QED
    BY <1>1, <2>4
<1> QED
  BY <1>2, InvariantHolds, PTL
================================================================================

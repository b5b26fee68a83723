-------------------------- MODULE VectorClientProofs --------------------------
(***************************************************************************)
(* For every width of the registers, of the words and of size_t: which     *)
(* classes read or write past the end of a block, which blocks come back,  *)
(* and what is stored.                                                     *)
(***************************************************************************)
EXTENDS VectorClient, LogicalCodecsProofs

(***************************************************************************)
(* One symbol, read by a decoder that repeats the sign bit: it stands for  *)
(* some word, and for the one that was encoded exactly when that one is    *)
(* narrow.                                                                 *)
(***************************************************************************)
LEMMA SymbolOfWord ==
  ASSUME NEW d \in Word
  PROVE  /\ Symbol(d) \in Word /\ Symbol(d) = ToSigned(Zigzag(d))
         /\ ToUnsigned(Symbol(d)) = Zigzag(d)
         /\ Recover(Symbol(d)) = d
<1>1. Wrap(d) = d
  BY HalfAssumption DEF Word, Wrap
<1>2. Zigzag(d) \in UWord
  BY ZigzagRange
<1> QED
  BY <1>1, <1>2, CastRoundTrip, ZigzagRoundTrip DEF Symbol, Recover

LEMMA SignedIsWord == \A e \in Word : RecoverSigned(e) \in Word
<1> SUFFICES ASSUME NEW u \in UWord PROVE UnzigzagArithmetic(u) \in Word
  BY CastRoundTrip DEF RecoverSigned
<1>1. ToSigned(u) \div 2 \in Word
  BY HalfAssumption DEF UWord, Word, ToSigned
<1> DEFINE halved == ToUnsigned(ToSigned(u) \div 2)
<1>2. halved \in UWord
  BY <1>1, CastRoundTrip
<1> HIDE DEF halved
<1>3. Complement(halved) \in UWord
  BY <1>2, HalfAssumption DEF Complement, UWord
<1> QED
  BY <1>2, <1>3, CastRoundTrip DEF UnzigzagArithmetic, halved

LEMMA SignedRecovers ==
  ASSUME NEW d \in Word
  PROVE  RecoverSigned(Symbol(d)) = d <=> Narrow(d)
<1> DEFINE u == Zigzag(d)
           s == ToSigned(u)
           halved == ToUnsigned(s \div 2)
<1>1. RecoverSigned(Symbol(d)) = ToSigned(IF u % 2 = 1 THEN Complement(halved) ELSE halved)
  BY SymbolOfWord DEF RecoverSigned, UnzigzagArithmetic
<1>2. u = IF d >= 0 THEN 2 * d ELSE -2 * d - 1
  BY ZigzagValue
<1> HIDE DEF u
<1>3. CASE d >= 0 /\ 2 * d < Half
  <2>1. u = 2 * d /\ u % 2 = 0 /\ s = 2 * d
    BY <1>2, <1>3, HalfAssumption DEF Word, ToSigned
  <2>2. s \div 2 = d
    BY <2>1, HalfAssumption DEF Word
  <2> QED
    BY <1>1, <1>3, <2>1, <2>2, HalfAssumption DEF Word, ToSigned, ToUnsigned, Narrow
<1>4. CASE d >= 0 /\ 2 * d >= Half
  <2>1. u = 2 * d /\ u % 2 = 0 /\ s = 2 * (d - Half)
    BY <1>2, <1>4, HalfAssumption DEF Word, ToSigned
  <2>2. s \div 2 = d - Half
    BY <2>1, HalfAssumption DEF Word
  <2> QED
    BY <1>1, <1>4, <2>1, <2>2, HalfAssumption DEF Word, ToSigned, ToUnsigned, Narrow
<1>5. CASE d < 0 /\ -Half <= 2 * d
  <2>1. u = -2 * d - 1 /\ u % 2 = 1 /\ s = 2 * (-d - 1) + 1
    BY <1>2, <1>5, HalfAssumption DEF Word, ToSigned
  <2>2. s \div 2 = -d - 1
    BY <2>1, HalfAssumption DEF Word
  <2> QED
    BY <1>1, <1>5, <2>1, <2>2, HalfAssumption
       DEF Word, ToSigned, ToUnsigned, Narrow, Complement
<1>6. CASE d < 0 /\ 2 * d < -Half
  <2>1. u = -2 * d - 1 /\ u % 2 = 1 /\ s = 2 * (-d - 1 - Half) + 1
    BY <1>2, <1>6, HalfAssumption DEF Word, ToSigned
  <2>2. s \div 2 = -d - 1 - Half
    BY <2>1, HalfAssumption DEF Word
  <2> QED
    BY <1>1, <1>6, <2>1, <2>2, HalfAssumption
       DEF Word, ToSigned, ToUnsigned, Narrow, Complement
<1> QED
  BY <1>3, <1>4, <1>5, <1>6, HalfAssumption DEF Word

(***************************************************************************)
(* Adding to the same word undoes the subtraction, for that difference     *)
(* and for no other.                                                       *)
(***************************************************************************)
LEMMA DifferenceFacts ==
  ASSUME NEW a \in Word, NEW b \in Word
  PROVE  /\ Wrap(a - b) \in Word
         /\ Symbol(a - b) = Symbol(Wrap(a - b))
         /\ \A d \in Word : Wrap(d + b) = a <=> d = Wrap(a - b)
<1>1. Wrap(a - b) \in Word /\ Wrap(Wrap(a - b)) = Wrap(a - b)
  BY HalfAssumption DEF Word, Wrap
<1>2. \A d \in Word : Wrap(d + b) = a <=> d = Wrap(a - b)
  BY HalfAssumption DEF Word, Wrap
<1> QED
  BY <1>1, <1>2 DEF Symbol

(***************************************************************************)
(* The unsigned `length - lanes` of the strict loops is the difference     *)
(* itself for a block that fills a register.                               *)
(***************************************************************************)
LEMMA SizeMinusExact ==
  ASSUME NEW n \in Nat, NEW m \in Nat, n < SizeModulus, m <= n
  PROVE  SizeMinus(n, m) = n - m
BY LanesAssumption DEF SizeMinus

(***************************************************************************)
(* A register of a strict loop ends before the last value of the block.    *)
(***************************************************************************)
LEMMA StrictInside ==
  ASSUME NEW n \in Nat, NEW lanes \in Nat, NEW first \in Nat \ {0},
         n < SizeModulus, lanes <= n,
         NEW s \in StrictRegisters(first, n, lanes)
  PROVE  s \in Int /\ s + lanes - 1 < n
<1>1. SizeMinus(n, lanes) = n - lanes
  BY SizeMinusExact
<1>2. s \in Int /\ s - 1 < SizeMinus(n, lanes)
  BY LanesAssumption DEF StrictRegisters
<1> QED
  BY <1>1, <1>2

(***************************************************************************)
(* No register leaves its block, of any class and any length, but those of *)
(* DeltaCodecSSE42 and FORCodecSSE42 for a block shorter than a register.  *)
(***************************************************************************)
LEMMA RegistersInside ==
  ASSUME NEW x \in Schemes, NEW i \in Isas, NEW n \in Nat, n < SizeModulus,
         Overruns(x, i, n)
  PROVE  /\ i = "sse42" /\ x \in {"delta", "for"}
         /\ 0 < n /\ n < Lanes["sse42"]
<1> DEFINE lanes == Lanes[i]
<1>1. lanes \in Nat /\ lanes >= 2
  BY LanesAssumption
<1>2. PICK s \in Registers(x, i, n) : s + lanes - 1 > n
  BY DEF Overruns
<1> HIDE DEF lanes
<1>3. n # 0 /\ x # "rle"
  <2>1. DeltaRegisters(i, 0) = {} /\ ForRegisters(i, 0) = {}
    BY DEF DeltaRegisters, ForRegisters
  <2>2. Registers(x, i, 0) = {}
    BY <2>1 DEF Registers, Schemes
  <2>3. n # 0
    BY <2>2, <1>2
  <2>4. x # "rle"
    BY <1>2 DEF Registers
  <2> QED
    BY <2>3, <2>4
<1>4. CASE n < lanes
  <2>1. CASE i = "sse42"
    BY <2>1, <1>3, <1>4 DEF Schemes, lanes
  <2>2. CASE i # "sse42"
    <3>1. DeltaRegisters(i, n) = {}
      BY <2>2, <1>4 DEF DeltaRegisters, lanes
    <3>2. x = "for" /\ s \in WholeRegisters(n, lanes)
      BY <3>1, <2>2, <1>2, <1>3 DEF Registers, ForRegisters, Schemes, lanes
    <3> QED
      BY <3>2, <1>1, <1>2 DEF WholeRegisters
  <2> QED
    BY <2>1, <2>2
<1>5. CASE lanes <= n
  <2>1. CASE s \in WholeRegisters(n, lanes)
    BY <2>1, <1>1, <1>2 DEF WholeRegisters
  <2>2. CASE s \in StrictRegisters(1, n, lanes)
    <3>1. s \in Int /\ s + lanes - 1 < n
      BY <2>2, <1>1, <1>5, StrictInside
    <3> QED
      BY <3>1, <1>1, <1>2
  <2>3. CASE s \in StrictRegisters(Heads(i, n) + 1, n, lanes)
    <3>1. Heads(i, n) + 1 \in Nat \ {0}
      BY <1>1 DEF Heads, lanes
    <3>2. s \in Int /\ s + lanes - 1 < n
      BY <2>3, <3>1, <1>1, <1>5, StrictInside
    <3> QED
      BY <3>2, <1>1, <1>2
  <2> QED
    BY <2>1, <2>2, <2>3, <1>2, <1>3 DEF Registers, DeltaRegisters, ForRegisters, Schemes, lanes
<1> QED
  BY <1>1, <1>4, <1>5

-------------------------------------------------------------------------------
(***************************************************************************)
(* The strengthening: what is written is blocks, and an overrun happened   *)
(* on the last of them.                                                    *)
(***************************************************************************)
OverrunInv ==
  /\ scheme \in Schemes /\ isa \in Isas
  /\ written \in Seq(Blocks[scheme])
  /\ overrun => written # <<>> /\ Overruns(scheme, isa, Len(Block))

LEMMA OverrunInvHolds == Spec => []OverrunInv
<1>1. Init => OverrunInv
  BY DEF Init, OverrunInv
<1>2. OverrunInv /\ [Next]_vars => OverrunInv'
  <2> SUFFICES ASSUME OverrunInv, [Next]_vars PROVE OverrunInv'
    OBVIOUS
  <2>1. ASSUME NEW b \in Blocks[scheme], Encode(b) PROVE OverrunInv'
    BY <2>1 DEF OverrunInv, Encode
  <2>2. ASSUME NEW b \in Blocks[scheme], EncodeOverruns(b) PROVE OverrunInv'
    <3>1. written' \in Seq(Blocks[scheme]) /\ written' # <<>> /\ Block' = b
      BY <2>2 DEF OverrunInv, EncodeOverruns, Block
    <3> QED
      BY <2>2, <3>1 DEF OverrunInv, EncodeOverruns
  <2>3. CASE Decode
    BY <2>3 DEF OverrunInv, Decode, Block
  <2>4. CASE ClearObject
    BY <2>4 DEF OverrunInv, ClearObject
  <2>5. CASE UNCHANGED vars
    BY <2>5 DEF OverrunInv, vars, Block
  <2> QED
    BY <2>1, <2>2, <2>3, <2>4, <2>5 DEF Next
<1> QED
  BY <1>1, <1>2, PTL DEF Spec

(***************************************************************************)
(* Whatever blocks a caller encodes, however often and in whatever order,  *)
(* only the two SSE classes can leave a block, and only a short one.       *)
(***************************************************************************)
THEOREM OverrunOnlyShortSse == Spec => []OnlyShortSseBlocksOverrun
<1>1. OverrunInv => OnlyShortSseBlocksOverrun
  <2> SUFFICES ASSUME OverrunInv, overrun PROVE OnlyShortSseBlocksOverrun
    BY DEF OnlyShortSseBlocksOverrun
  <2>1. Block \in Blocks[scheme]
    BY DEF OverrunInv, Block
  <2>2. scheme \in Schemes /\ isa \in Isas /\ Overruns(scheme, isa, Len(Block))
    BY DEF OverrunInv
  <2>3. Len(Block) \in Nat /\ Len(Block) < SizeModulus
    <3>1. Block \in Seq(Word) /\ Len(Block) < SizeModulus
      BY <2>1, <2>2, VectorClientAssumption
    <3> QED
      BY <3>1
  <2> QED
    BY <2>2, <2>3, RegistersInside DEF OnlyShortSseBlocksOverrun
<1> QED
  BY <1>1, OverrunInvHolds, PTL

-------------------------------------------------------------------------------
(***************************************************************************)
(* Delta: a difference is taken to a position before its own, which the    *)
(* decoder has therefore already written.                                  *)
(***************************************************************************)
LEMMA AnchorBefore ==
  ASSUME NEW i \in Isas, NEW n \in Nat, NEW p \in 1 .. n
  PROVE  Anchor(i, n, p) \in 0 .. p - 1
<1>1. Lanes[i] \in Nat /\ Lanes[i] >= 2
  BY LanesAssumption
<1>2. Heads(i, n) \in Nat \ {0}
  BY <1>1 DEF Heads
<1>3. CASE InRegister(i, n, p) = {}
  BY <1>2, <1>3 DEF Anchor
<1>4. CASE InRegister(i, n, p) # {}
  <2> DEFINE s == CHOOSE r \in InRegister(i, n, p) : TRUE
  <2>1. s \in InRegister(i, n, p)
    BY <1>4
  <2> HIDE DEF s
  <2>2. /\ s \in Int /\ s <= p /\ p < s + Lanes[i] /\ n # 0
        /\ (i = "sse42" \/ n >= Lanes[i])
        /\ s >= Heads(i, n) + 1
    BY <2>1, <1>1, <1>2, LanesAssumption DEF InRegister, DeltaRegisters, StrictRegisters
  <2>3. Anchor(i, n, p) = CASE i = "sse42"  -> AnchorSse(s, p)
                            [] i = "avx2"   -> AnchorAvx2(s, p)
                            [] i = "avx512" -> AnchorAvx512(s, p)
    BY <1>4 DEF Anchor, s
  <2>4. CASE i = "sse42"
    BY <1>2, <2>2, <2>3, <2>4 DEF AnchorSse
  <2>5. CASE i = "avx2"
    <3>1. s >= Lanes["avx2"] + 1 /\ Lanes["avx2"] >= 2
      BY <1>1, <2>2, <2>5 DEF Heads
    <3>2. Anchor(i, n, p) = AnchorAvx2(s, p)
      BY <2>3, <2>5
    <3>3. (p - s) % 2 \in 0 .. 1 /\ Lanes["avx2"] \in Nat
      BY <2>2, <1>1, <2>5
    <3> QED
      BY <2>2, <3>1, <3>2, <3>3 DEF AnchorAvx2
  <2>6. CASE i = "avx512"
    <3>1. s >= Lanes["avx512"] + 1 /\ Lanes["avx512"] >= 2 /\ Lanes["avx512"] \in Nat
      BY <1>1, <2>2, <2>6 DEF Heads
    <3>2. Anchor(i, n, p) = AnchorAvx512(s, p)
      BY <2>3, <2>6
    <3> QED
      BY <2>2, <3>1, <3>2 DEF AnchorAvx512
  <2> QED
    BY <2>4, <2>5, <2>6 DEF Isas
<1> QED
  BY <1>3, <1>4

(***************************************************************************)
(* The symbols are words, one for each value.                              *)
(***************************************************************************)
Base(i, f, n, p) == IF Anchor(i, n, p) = 0 THEN 0 ELSE f[Anchor(i, n, p)]

LEMMA BaseType ==
  ASSUME NEW i \in Isas, NEW n \in Nat, NEW p \in 1 .. n, NEW f,
         \A q \in 1 .. p - 1 : f[q] \in Word
  PROVE  Base(i, f, n, p) \in Word
<1>1. Anchor(i, n, p) # 0 => Anchor(i, n, p) \in 1 .. p - 1
  BY AnchorBefore
<1>2. 0 \in Word
  BY HalfAssumption DEF Word
<1> QED
  BY <1>1, <1>2 DEF Base

LEMMA VecDeltaSymbolsAre ==
  ASSUME NEW i \in Isas, NEW in \in Seq(Word)
  PROVE  /\ VecDeltaSymbols(i, in) \in Seq(Word)
         /\ Len(VecDeltaSymbols(i, in)) = Len(in)
         /\ \A p \in 1 .. Len(in) :
              /\ Base(i, in, Len(in), p) \in Word
              /\ DeltaOf(i, in, p) = Wrap(in[p] - Base(i, in, Len(in), p))
              /\ DeltaOf(i, in, p) \in Word
              /\ ~ Copied(i, Len(in)) => VecDeltaSymbols(i, in)[p] = Symbol(DeltaOf(i, in, p))
<1> DEFINE n == Len(in)
<1>1. n \in Nat /\ \A p \in 1 .. n : in[p] \in Word
  BY ElementOfSeq, LenProperties
<1>2. ASSUME NEW p \in 1 .. n
      PROVE  /\ Base(i, in, n, p) \in Word
             /\ DeltaOf(i, in, p) = Wrap(in[p] - Base(i, in, n, p))
             /\ DeltaOf(i, in, p) \in Word
             /\ Symbol(DeltaOf(i, in, p)) \in Word
  <2>1. Base(i, in, n, p) \in Word
    BY <1>1, BaseType
  <2>2. DeltaOf(i, in, p) = Wrap(in[p] - Base(i, in, n, p))
    BY DEF DeltaOf, Base, n
  <2>3. in[p] \in Word
    BY <1>1
  <2>4. DeltaOf(i, in, p) \in Word
    BY <2>1, <2>2, <2>3, DifferenceFacts
  <2> QED
    BY <2>1, <2>2, <2>4, SymbolOfWord
<1> DEFINE symbols == [p \in 1 .. n |-> Symbol(DeltaOf(i, in, p))]
<1>3. symbols \in Seq(Word) /\ Len(symbols) = n
  BY <1>1, <1>2
<1>4. VecDeltaSymbols(i, in) = IF Copied(i, n) THEN in ELSE symbols
  BY DEF VecDeltaSymbols
<1>5. \A p \in 1 .. n : symbols[p] = Symbol(DeltaOf(i, in, p))
  OBVIOUS
<1> HIDE DEF symbols
<1> QED
  BY <1>2, <1>3, <1>4, <1>5

(***************************************************************************)
(* The decoding loop: a word for every value asked for, each from a word   *)
(* it wrote before.                                                        *)
(***************************************************************************)
Undone(i, stored, n, p) ==
  IF ShiftsInZero(i, n, p) THEN Recover(stored[p]) ELSE RecoverSigned(stored[p])

LEMMA VecDeltaDecodeIs ==
  ASSUME NEW i \in Isas, NEW stored \in Seq(Word), NEW n \in Nat, n <= Len(stored),
         ~ Copied(i, n)
  PROVE  LET got == VecDeltaDecode(i, stored, n)
         IN  /\ got \in Seq(Word) /\ Len(got) = n
             /\ \A p \in 1 .. n : /\ Undone(i, stored, n, p) \in Word
                                  /\ got[p] = Wrap(Undone(i, stored, n, p) + Base(i, got, n, p))
<1> DEFINE S == 1 .. n
           from == [p \in S |-> Anchor(i, n, p)]
           base == 0
           D == Word
           step == [p \in S |-> [x \in D |-> Wrap(Undone(i, stored, n, p) + x)]]
           rank == [p \in S |-> p]
<1>1. \A p \in S : Undone(i, stored, n, p) \in Word
  <2> TAKE p \in S
  <2>1. stored[p] \in Word
    BY ElementOfSeq
  <2> QED
    BY <2>1, RecoverType, SignedIsWord DEF Undone
<1>2. base \in D /\ rank \in [S -> 1 .. n]
  BY HalfAssumption DEF Word
<1>3. step \in [S -> [D -> D]]
  BY <1>1, RecoverType
<1>4. \A p \in S : from[p] = Anchor(i, n, p) /\ from[p] \in 0 .. p - 1
  BY AnchorBefore
<1>5. \A p \in S : /\ from[p] \in S => rank[from[p]] < rank[p]
                   /\ from[p] \in S <=> Anchor(i, n, p) # 0
  BY <1>4
<1>6. \A p \in S : \A x \in D : step[p][x] = Wrap(Undone(i, stored, n, p) + x)
  OBVIOUS
<1> HIDE DEF from, base, D, step, rank
<1>7. PICK f : Solves(f, S, D, base, from, step)
  <2> HIDE DEF S
  <2> QED
    BY <1>2, <1>3, <1>5, RecursionHasSolution
<1>8. f \in [S -> Word]
  BY <1>7 DEF Solves, D
<1>9. ASSUME NEW p \in S
      PROVE  f[p] = Wrap(Undone(i, stored, n, p) + Base(i, f, n, p))
  <2>1. Base(i, f, n, p) = IF from[p] \in S THEN f[from[p]] ELSE base
    BY <1>4, <1>5 DEF Base, base
  <2>2. Base(i, f, n, p) \in D
    BY <1>8, BaseType DEF D
  <2>3. f[p] = step[p][Base(i, f, n, p)]
    BY <1>7, <2>1 DEF Solves
  <2> QED
    BY <1>6, <2>2, <2>3
<1> DEFINE Round(g) == [p \in 1 .. n |->
              LET a == Anchor(i, n, p)
                  d == IF ShiftsInZero(i, n, p) THEN Recover(stored[p])
                                                ELSE RecoverSigned(stored[p])
              IN  Wrap(d + (IF a = 0 THEN 0 ELSE g[a]))]
           got == CHOOSE g : g = Round(g)
<1>10. VecDeltaDecode(i, stored, n) = got
  BY DEF VecDeltaDecode
<1>11. \A g : \A p \in 1 .. n : Round(g)[p] = Wrap(Undone(i, stored, n, p) + Base(i, g, n, p))
  BY DEF Undone, Base
<1>12. f = Round(f)
  <2>1. f = [p \in 1 .. n |-> f[p]]
    BY <1>8
  <2>2. Round(f) = [p \in 1 .. n |-> Round(f)[p]]
    OBVIOUS
  <2>3. \A p \in 1 .. n : f[p] = Round(f)[p]
    BY <1>9, <1>11
  <2> HIDE DEF Round
  <2> QED
    BY <2>1, <2>2, <2>3, Zenon
<1>13. got = Round(got)
  BY <1>12
<1>14. got = [p \in 1 .. n |-> got[p]]
  BY <1>13
<1> HIDE DEF got
<1>15. \A p \in 1 .. n : got[p] = Wrap(Undone(i, stored, n, p) + Base(i, got, n, p))
  <2> TAKE p \in 1 .. n
  <2>1. got[p] = Round(got)[p]
    BY <1>13
  <2> HIDE DEF Round
  <2> QED
    BY <1>11, <2>1
<1> HIDE DEF Round
<1>16. \A p \in 1 .. n : got[p] \in Word
  <2> DEFINE bad == {p \in 1 .. n : got[p] \notin Word}
  <2> SUFFICES ASSUME bad # {} PROVE FALSE
    OBVIOUS
  <2>1. bad \in SUBSET Nat
    OBVIOUS
  <2> HIDE DEF bad
  <2>2. PICK m \in bad : \A k \in bad : m <= k
    BY <2>1, LeastElement
  <2> USE DEF bad
  <2>3. m \in 1 .. n /\ got[m] \notin Word
    OBVIOUS
  <2>4. \A q \in 1 .. m - 1 : got[q] \in Word
    BY <2>2, <2>3
  <2> HIDE DEF bad
  <2>5. Base(i, got, n, m) \in Word
    BY <2>3, <2>4, BaseType
  <2> QED
    BY <1>1, <1>15, <2>3, <2>5, RecoverType
<1>17. got \in Seq(Word) /\ Len(got) = n
  BY <1>14, <1>16
<1> QED
  BY <1>1, <1>10, <1>15, <1>17

(***************************************************************************)
(* A block's symbols decode to the block exactly when each that is read    *)
(* with an arithmetic shift stands for a narrow difference: the first      *)
(* value that came out wrong would be taken to one that came out right.    *)
(***************************************************************************)
THEOREM VecDeltaRoundTrip ==
  ASSUME NEW i \in Isas, NEW in \in Seq(Word)
  PROVE  LET n   == Len(in)
             got == VecDeltaDecode(i, VecDeltaSymbols(i, in), n)
         IN  /\ got \in Seq(Word)
             /\ got = in <=> \/ Copied(i, n)
                             \/ \A p \in 1 .. n :
                                  ShiftsInZero(i, n, p) \/ Narrow(DeltaOf(i, in, p))
<1> DEFINE n == Len(in)
           stored == VecDeltaSymbols(i, in)
           got == VecDeltaDecode(i, stored, n)
<1>1. n \in Nat /\ \A p \in 1 .. n : in[p] \in Word
  BY ElementOfSeq, LenProperties
<1>2. CASE Copied(i, n)
  <2>1. stored = in
    BY <1>2 DEF VecDeltaSymbols
  <2>2. got = SubSeq(in, 1, n)
    BY <1>2, <2>1 DEF VecDeltaDecode
  <2>3. SubSeq(in, 1, n) = in
    OBVIOUS
  <2> QED
    BY <1>2, <2>2, <2>3
<1>3. CASE ~ Copied(i, n)
  <2>1. /\ stored \in Seq(Word) /\ Len(stored) = n
        /\ \A p \in 1 .. n : /\ Base(i, in, n, p) \in Word
                             /\ DeltaOf(i, in, p) = Wrap(in[p] - Base(i, in, n, p))
                             /\ DeltaOf(i, in, p) \in Word
                             /\ stored[p] = Symbol(DeltaOf(i, in, p))
    BY <1>3, VecDeltaSymbolsAre
  <2> HIDE DEF stored, n
  <2>2. /\ got \in Seq(Word) /\ Len(got) = n
        /\ \A p \in 1 .. n : /\ Undone(i, stored, n, p) \in Word
                             /\ got[p] = Wrap(Undone(i, stored, n, p) + Base(i, got, n, p))
    BY <1>1, <1>3, <2>1, VecDeltaDecodeIs
  <2> HIDE DEF got
  <2>3. \A p \in 1 .. n : Undone(i, stored, n, p) = DeltaOf(i, in, p)
                            <=> ShiftsInZero(i, n, p) \/ Narrow(DeltaOf(i, in, p))
    <3> TAKE p \in 1 .. n
    <3>1. DeltaOf(i, in, p) \in Word /\ stored[p] = Symbol(DeltaOf(i, in, p))
      BY <2>1
    <3> QED
      BY <3>1, SymbolOfWord, SignedRecovers DEF Undone
  <2>4. \A p \in 1 .. n : \A d \in Word :
          Wrap(d + Base(i, in, n, p)) = in[p] <=> d = DeltaOf(i, in, p)
    <3> TAKE p \in 1 .. n
    <3>1. in[p] \in Word /\ Base(i, in, n, p) \in Word
      BY <1>1, <2>1
    <3>2. \A d \in Word : Wrap(d + Base(i, in, n, p)) = in[p]
                            <=> d = Wrap(in[p] - Base(i, in, n, p))
      BY <3>1, DifferenceFacts
    <3> QED
      BY <2>1, <3>2
  <2>5. ASSUME \A p \in 1 .. n : Undone(i, stored, n, p) = DeltaOf(i, in, p)
        PROVE  \A p \in 1 .. n : got[p] = in[p]
    <3> DEFINE bad == {p \in 1 .. n : got[p] # in[p]}
    <3> SUFFICES ASSUME bad # {} PROVE FALSE
      OBVIOUS
    <3>1. bad \in SUBSET Nat
      OBVIOUS
    <3> HIDE DEF bad
    <3>2. PICK m \in bad : \A k \in bad : m <= k
      BY <3>1, LeastElement
    <3> USE DEF bad
    <3>3. m \in 1 .. n /\ got[m] # in[m]
      OBVIOUS
    <3>4. \A q \in 1 .. m - 1 : got[q] = in[q]
      BY <1>1, <3>2, <3>3
    <3> HIDE DEF bad
    <3>5. Base(i, got, n, m) = Base(i, in, n, m)
      <4>1. Anchor(i, n, m) \in 0 .. m - 1
        BY <1>1, <3>3, AnchorBefore
      <4> QED
        BY <3>3, <3>4, <4>1, <1>1 DEF Base
    <3> QED
      BY <2>1, <2>2, <2>4, <2>5, <3>3, <3>5
  <2>6. ASSUME got = in
        PROVE  \A p \in 1 .. n : Undone(i, stored, n, p) = DeltaOf(i, in, p)
    BY <2>2, <2>4, <2>6
  <2>7. (\A p \in 1 .. n : got[p] = in[p]) => got = in
    BY <2>2, SeqEqual DEF n
  <2>8. got = in <=> \A p \in 1 .. n : ShiftsInZero(i, n, p) \/ Narrow(DeltaOf(i, in, p))
    BY <2>3, <2>5, <2>6, <2>7
  <2> QED
    BY <1>3, <2>2, <2>8 DEF stored, n, got
<1> QED
  BY <1>2, <1>3

-------------------------------------------------------------------------------
\* Registers start a whole number of registers apart.
LEMMA MultipleLeavesNothing ==
  ASSUME NEW m \in Nat \ {0}, NEW q \in Nat
  PROVE  (m * q) % m = 0
<1>1. \A k \in Int : (k * m) % m = 0
  OBVIOUS
<1>2. m * q = q * m
  OBVIOUS
<1> QED
  BY <1>1, <1>2

LEMMA AtMultiples ==
  ASSUME NEW l \in Nat \ {0}, NEW a \in Nat \ {0}, NEW b \in Nat \ {0},
         (a - 1) % l = 0, (b - 1) % l = 0, a < b
  PROVE  a + l <= b
<1>1. a - 1 = l * ((a - 1) \div l) /\ b - 1 = l * ((b - 1) \div l)
  OBVIOUS
<1> DEFINE x == (a - 1) \div l
           y == (b - 1) \div l
<1>2. x \in Nat /\ y \in Nat
  OBVIOUS
<1> HIDE DEF x, y
<1>3. a - 1 = l * x /\ b - 1 = l * y
  BY <1>1 DEF x, y
<1>4. x < y
  <2>1. x >= y => l * x >= l * y
    BY <1>2
  <2> QED
    BY <1>2, <1>3, <2>1
<1>5. l * y >= l * (x + 1) /\ l * (x + 1) = l * x + l
  BY <1>2, <1>4
<1> QED
  BY <1>2, <1>3, <1>5

(***************************************************************************)
(* Frame of reference.  The registers follow one another from the first    *)
(* value on, so what they leave is the rest: the minimum over both is the  *)
(* minimum.                                                                *)
(***************************************************************************)
LEMMA ForRegistersFromTheFirst ==
  ASSUME NEW i \in Isas, NEW n \in Nat
  PROVE  /\ ForRegisters(i, n) \in SUBSET (Nat \ {0})
         /\ \A s \in ForRegisters(i, n) :
              /\ (s - 1) % Lanes[i] = 0
              /\ \A r \in 1 .. s : (r - 1) % Lanes[i] = 0 => r \in ForRegisters(i, n)
<1>1. Lanes[i] \in Nat /\ SizeModulus \in Nat
  BY LanesAssumption
<1>2. CASE ForRegisters(i, n) = {}
  BY <1>2
<1>3. CASE n # 0 /\ ForRegisters(i, n) = WholeRegisters(n, Lanes[i])
  BY <1>1, <1>3 DEF WholeRegisters
<1>4. CASE n # 0 /\ ForRegisters(i, n) = StrictRegisters(1, n, Lanes[i])
  <2> DEFINE bound == SizeMinus(n, Lanes[i])
  <2>1. bound \in Int
    BY <1>1, LanesAssumption DEF SizeMinus
  <2> HIDE DEF bound
  <2>2. ForRegisters(i, n) = {s \in 1 .. SizeModulus : (s - 1) % Lanes[i] = 0 /\ s - 1 < bound}
    BY <1>4 DEF StrictRegisters, bound
  <2> QED
    BY <1>1, <2>1, <2>2
<1> QED
  BY <1>2, <1>3, <1>4 DEF ForRegisters

LEMMA RegistersAndTail ==
  ASSUME NEW i \in Isas, NEW in \in Seq(Word), ~ Overruns("for", i, Len(in))
  PROVE  InLanes(i, in) \cup InTail(i, in) = ToSet(in)
<1> DEFINE n == Len(in)
           l == Lanes[i]
           R == ForRegisters(i, n)
<1>1. n \in Nat /\ l \in Nat \ {0} /\ ToSet(in) = {in[p] : p \in 1 .. n}
  BY LanesAssumption, LenProperties DEF ToSet
<1>2. /\ R \in SUBSET (Nat \ {0})
      /\ \A s \in R : /\ (s - 1) % l = 0
                      /\ \A r \in 1 .. s : (r - 1) % l = 0 => r \in R
  BY <1>1, ForRegistersFromTheFirst
<1>3. \A s \in R : s + l - 1 <= n
  BY <1>1, <1>2 DEF Overruns, Registers
<1> DEFINE visited == UNION {s .. s + l - 1 : s \in R}
           left == {q \in 1 .. n : \A s \in R : s + l <= q}
<1>4. InLanes(i, in) = {in[p] : p \in visited} /\ InTail(i, in) = {in[p] : p \in left}
  BY DEF InLanes, InTail
<1> HIDE DEF n, l, R
<1>5. \A p : p \in visited <=> \E s \in R : p \in s .. s + l - 1
  OBVIOUS
<1>6. \A p : p \in left <=> p \in 1 .. n /\ \A s \in R : s + l <= p
  OBVIOUS
<1> HIDE DEF visited, left
<1>7. visited \cup left \subseteq 1 .. n
  BY <1>1, <1>2, <1>3, <1>5, <1>6
<1>8. ASSUME NEW p \in 1 .. n, p \notin visited PROVE p \in left
  <2> SUFFICES ASSUME NEW s \in R PROVE s + l <= p
    BY <1>6
  <2> DEFINE a == p - ((p - 1) % l)
  <2>1. /\ a \in Nat \ {0} /\ a <= p /\ p < a + l
        /\ (a - 1) % l = 0
    <3>1. p - 1 \in Nat /\ (p - 1) % l \in 0 .. l - 1 /\ (p - 1) % l <= p - 1
      BY <1>1
    <3>2. a - 1 = (p - 1) - ((p - 1) % l)
      BY <1>1, <3>1
    <3>3. ((p - 1) - ((p - 1) % l)) % l = 0
      <4> DEFINE q == (p - 1) \div l
      <4>1. q \in Nat /\ p - 1 = l * q + ((p - 1) % l)
        BY <1>1, <3>1
      <4> HIDE DEF q
      <4>2. (p - 1) - ((p - 1) % l) = l * q
        BY <1>1, <3>1, <4>1
      <4>3. (l * q) % l = 0
        BY <1>1, <4>1, MultipleLeavesNothing
      <4> QED
        BY <4>2, <4>3
    <3> QED
      BY <1>1, <3>1, <3>2, <3>3
  <2> HIDE DEF a
  <2>2. a \notin R
    BY <1>1, <1>5, <1>8, <2>1
  <2>3. s \in Nat \ {0} /\ (s - 1) % l = 0
    BY <1>2
  <2>4. s < a
    <3>1. a <= s => a \in 1 .. s
      BY <2>1, <2>3
    <3> QED
      BY <1>2, <2>1, <2>2, <2>3, <3>1
  <2>5. s + l <= a
    BY <1>1, <2>1, <2>3, <2>4, AtMultiples
  <2> QED
    BY <1>1, <2>1, <2>3, <2>5
<1>9. visited \cup left = 1 .. n
  BY <1>7, <1>8
<1> QED
  BY <1>1, <1>4, <1>9

\* The least of some words is not changed by adding INT_MAX to them.
LEMMA ReferenceIsMinimum ==
  ASSUME NEW i \in Isas, NEW in \in Seq(Word), in # <<>>, ~ Overruns("for", i, Len(in))
  PROVE  Reference(i, in) = Min(ToSet(in))
<1> DEFINE S == ToSet(in)
           m == Min(S)
           T == {Half - 1} \cup S
<1>1. Reference(i, in) = Min(T)
  <2>1. {Half - 1} \cup InLanes(i, in) \cup InTail(i, in) = T
    BY RegistersAndTail
  <2> QED
    BY <2>1 DEF Reference
<1>2. S \in SUBSET Word /\ S # {}
  <2>1. \A p \in 1 .. Len(in) : in[p] \in Word
    BY ElementOfSeq
  <2>2. 1 \in 1 .. Len(in)
    BY EmptySeq, LenProperties
  <2> QED
    BY <2>1, <2>2, LenProperties DEF ToSet
<1> DEFINE shifted == {x + Half : x \in S}
<1>3. PICK k \in S : \A y \in S : k <= y
  <2>1. shifted \in SUBSET Nat /\ shifted # {}
    BY <1>2, HalfAssumption DEF Word
  <2> HIDE DEF shifted
  <2>2. PICK a \in shifted : \A b \in shifted : a <= b
    BY <2>1, LeastElement
  <2>3. PICK k \in S : a = k + Half
    BY DEF shifted
  <2>4. ASSUME NEW y \in S PROVE k <= y
    <3>1. a <= y + Half
      BY <2>2 DEF shifted
    <3> QED
      BY <1>2, <2>3, <3>1, HalfAssumption DEF Word
  <2> QED
    BY <2>4
<1>4. m \in S /\ \A y \in S : m <= y
  BY <1>3 DEF Min
<1> HIDE DEF m, S
<1>5. m \in T /\ \A y \in T : m <= y
  BY <1>2, <1>4, HalfAssumption DEF Word
<1>6. T \in SUBSET Int
  BY <1>2, HalfAssumption DEF Word
<1> HIDE DEF T
<1>7. Min(T) \in T /\ \A y \in T : Min(T) <= y
  BY <1>5 DEF Min
<1>8. Min(T) = m
  <2>1. Min(T) <= m /\ m <= Min(T)
    BY <1>5, <1>7
  <2>2. Min(T) \in Int /\ m \in Int
    BY <1>5, <1>6, <1>7
  <2> HIDE DEF m
  <2> QED
    BY <2>1, <2>2
<1> QED
  BY <1>1, <1>8 DEF m, S

(***************************************************************************)
(* What the registers store is what the scalar codec pushes.               *)
(***************************************************************************)
LEMMA VecForIsFor ==
  ASSUME NEW i \in Isas, NEW in \in Seq(Word), in # <<>>, ~ Overruns("for", i, Len(in)),
         NEW data
  PROVE  VecForEncode(i, data, in) = ForSymbols(in)
BY ReferenceIsMinimum DEF VecForEncode, ForSymbols

(***************************************************************************)
(* A block decodes to itself exactly when every value is a narrow distance *)
(* from its minimum: all of them are read with an arithmetic shift.        *)
(***************************************************************************)
THEOREM VecForRoundTrip ==
  ASSUME NEW i \in Isas, NEW in \in Seq(Word), in # <<>>, ~ Overruns("for", i, Len(in))
  PROVE  LET n     == Len(in)
             got == VecForDecode(ForSymbols(in), n)
         IN  /\ got \in Seq(Word)
             /\ got = in <=> \A p \in 1 .. n : Narrow(Wrap(in[p] - Reference(i, in)))
<1> DEFINE n == Len(in)
           data == ForSymbols(in)
           got == VecForDecode(data, n)
           r == Min(ToSet(in))
<1>1. n \in Nat /\ \A p \in 1 .. n : in[p] \in Word
  BY ElementOfSeq, LenProperties
<1>2. /\ data[1] = r /\ r \in Word
      /\ \A p \in 1 .. n : data[p + 1] = Symbol(in[p] - r)
  BY ForSymbolsType, ReferenceType
<1>3. Reference(i, in) = r
  BY ReferenceIsMinimum
<1>4. got = [p \in 1 .. n |-> Wrap(RecoverSigned(data[p + 1]) + data[1])]
  BY DEF VecForDecode
<1> HIDE DEF data, r, got, n
<1>5. ASSUME NEW p \in 1 .. n
      PROVE  /\ Wrap(RecoverSigned(data[p + 1]) + data[1]) \in Word
             /\ Wrap(RecoverSigned(data[p + 1]) + data[1]) = in[p]
                  <=> Narrow(Wrap(in[p] - r))
  <2> DEFINE d == Wrap(in[p] - r)
             e == RecoverSigned(data[p + 1])
  <2>1. /\ d \in Word /\ Symbol(in[p] - r) = Symbol(d)
        /\ \A x \in Word : Wrap(x + r) = in[p] <=> x = d
    BY <1>1, <1>2, DifferenceFacts
  <2> HIDE DEF d
  <2>2. data[p + 1] = Symbol(d)
    BY <1>2, <2>1
  <2>3. e \in Word /\ (e = d <=> Narrow(d))
    BY <2>1, <2>2, SymbolOfWord, SignedIsWord, SignedRecovers
  <2> HIDE DEF e
  <2>4. Wrap(e + r) \in Word
    BY <1>2, <2>3, RecoverType
  <2> QED
    BY <1>2, <2>1, <2>3, <2>4 DEF d, e
<1>6. got \in Seq(Word) /\ Len(got) = n
  <2> DEFINE value(p) == Wrap(RecoverSigned(data[p + 1]) + data[1])
  <2>1. got = [p \in 1 .. n |-> value(p)]
    BY <1>4
  <2>2. \A p \in 1 .. n : value(p) \in Word
    BY <1>5
  <2> HIDE DEF value
  <2> QED
    BY <1>1, <2>1, <2>2
<1>7. \A p \in 1 .. n : got[p] = in[p] <=> Narrow(Wrap(in[p] - r))
  BY <1>4, <1>5
<1>8. got = in <=> \A p \in 1 .. n : got[p] = in[p]
  BY <1>1, <1>6, SeqEqual DEF n
<1> QED
  BY <1>3, <1>6, <1>7, <1>8 DEF got, data, n

-------------------------------------------------------------------------------
(***************************************************************************)
(* Run length.  A loop over lengths that only grow ends in one that every  *)
(* round it takes leaves good.                                             *)
(***************************************************************************)
Lengthens(g, n, next, last) ==
  g = [r \in 1 .. n |-> IF next[r] \in 1 .. n THEN g[next[r]] ELSE last[r]]

LEMMA LengtheningEnds ==
  ASSUME NEW n \in Nat, NEW next, NEW last \in [1 .. n -> Nat],
         \A r \in 1 .. n : next[r] \in 1 .. n => r < next[r]
  PROVE  \E g : Lengthens(g, n, next, last)
<1> DEFINE S == 1 .. n
           D == Nat
           base == 0
           step == [r \in S |-> [y \in D |-> IF next[r] \in S THEN y ELSE last[r]]]
           rank == [r \in S |-> n + 1 - r]
<1>1. rank \in [S -> 1 .. n] /\ base \in D /\ step \in [S -> [D -> D]]
  OBVIOUS
<1>2. \A r \in S : next[r] \in S => rank[next[r]] < rank[r]
  OBVIOUS
<1>3. \A r \in S : \A y \in D : step[r][y] = IF next[r] \in S THEN y ELSE last[r]
  OBVIOUS
<1> HIDE DEF D, base, step, rank, S
<1>4. PICK f : Solves(f, S, D, base, next, step)
  BY <1>1, <1>2, RecursionHasSolution
<1>5. ASSUME NEW r \in S PROVE f[r] = IF next[r] \in S THEN f[next[r]] ELSE last[r]
  <2> DEFINE y == IF next[r] \in S THEN f[next[r]] ELSE base
  <2>1. f[r] = step[r][y] /\ y \in D
    BY <1>1, <1>4 DEF Solves
  <2> QED
    BY <1>3, <2>1
<1>6. f = [r \in S |-> f[r]]
  BY <1>4 DEF Solves
<1>7. f = [r \in S |-> IF next[r] \in S THEN f[next[r]] ELSE last[r]]
  BY <1>5, <1>6, Zenon
<1> QED
  BY <1>7 DEF Lengthens, S

LEMMA LengtheningDelivers ==
  ASSUME NEW n \in Nat, NEW next, NEW last, NEW g, Lengthens(g, n, next, last),
         NEW I \in SUBSET (1 .. n), NEW Good,
         \A r \in I : next[r] \in 1 .. n => r < next[r] /\ next[r] \in I,
         \A r \in I : next[r] \notin 1 .. n => last[r] \in Good
  PROVE  \A r \in I : g[r] \in Good
<1>1. \A r \in 1 .. n : g[r] = IF next[r] \in 1 .. n THEN g[next[r]] ELSE last[r]
  BY DEF Lengthens
<1> DEFINE bad == {q \in 0 .. n : n - q \in I /\ g[n - q] \notin Good}
<1>2. bad = {}
  <2> SUFFICES ASSUME bad # {} PROVE FALSE
    OBVIOUS
  <2>1. bad \in SUBSET Nat
    OBVIOUS
  <2> HIDE DEF bad
  <2>2. PICK q \in bad : \A k \in bad : q <= k
    BY <2>1, LeastElement
  <2> USE DEF bad
  <2> DEFINE r == n - q
  <2>3. r \in I /\ r \in 1 .. n /\ g[r] \notin Good /\ q \in 0 .. n
    BY <2>2
  <2>4. next[r] \in 1 .. n
    BY <1>1, <2>3
  <2>5. r < next[r] /\ next[r] \in I /\ g[next[r]] \notin Good
    BY <1>1, <2>3, <2>4
  <2> DEFINE k == n - next[r]
  <2>6. k \in 0 .. n /\ n - k = next[r] /\ k < q
    BY <2>3, <2>4, <2>5
  <2>7. k \in bad
    BY <2>5, <2>6
  <2> QED
    BY <2>2, <2>3, <2>6, <2>7
<1>3. ASSUME NEW r \in I PROVE g[r] \in Good
  <2>1. n - r \in 0 .. n /\ n - (n - r) = r
    OBVIOUS
  <2>2. n - r \notin bad
    BY <1>2
  <2> QED
    BY <2>1, <2>2
<1> QED
  BY <1>3

(***************************************************************************)
(* A run of r equal values starts at p.                                    *)
(***************************************************************************)
RunsFor(in, p, r) ==
  /\ r \in 1 .. Len(in) /\ p + r - 1 <= Len(in)
  /\ \A k \in p .. p + r - 1 : in[k] = in[p]

\* Neighbours that are equal one after another are equal to the first.
LEMMA NeighboursEqual ==
  ASSUME NEW in, NEW a \in Nat, NEW b \in Nat,
         \A k \in a + 1 .. b : in[k] = in[k - 1]
  PROVE  \A k \in a .. b : in[k] = in[a]
<1> DEFINE differ == {k \in a .. b : in[k] # in[a]}
<1> SUFFICES ASSUME differ # {} PROVE FALSE
  OBVIOUS
<1>1. differ \in SUBSET Nat
  OBVIOUS
<1> HIDE DEF differ
<1>2. PICK k \in differ : \A j \in differ : k <= j
  BY <1>1, LeastElement
<1> USE DEF differ
<1>3. k \in a + 1 .. b /\ k - 1 \in a .. b /\ k - 1 \notin differ
  BY <1>2
<1> QED
  BY <1>2, <1>3

LEMMA RunExtends ==
  ASSUME NEW in \in Seq(Word), NEW p \in 1 .. Len(in), NEW r, RunsFor(in, p, r),
         NEW m \in Nat, p + r + m - 1 <= Len(in),
         \A j \in 0 .. m - 1 : in[p + r + j] = in[p + r + j - 1]
  PROVE  RunsFor(in, p, r + m)
<1>1. r \in 1 .. Len(in) /\ Len(in) \in Nat /\ \A k \in p .. p + r - 1 : in[k] = in[p]
  BY LenProperties DEF RunsFor
<1> DEFINE a == p + r - 1
           b == p + r + m - 1
<1>2. a \in Nat /\ b \in Nat
  BY <1>1
<1>3. \A k \in a + 1 .. b : in[k] = in[k - 1]
  <2> TAKE k \in a + 1 .. b
  <2> DEFINE j == k - (p + r)
  <2>1. j \in 0 .. m - 1 /\ p + r + j = k /\ p + r + j - 1 = k - 1
    BY <1>1
  <2> HIDE DEF j
  <2>2. in[p + r + j] = in[p + r + j - 1]
    BY <2>1
  <2> QED
    BY <2>1, <2>2
<1>4. \A k \in a .. b : in[k] = in[a]
  <2> HIDE DEF a, b
  <2> QED
    BY <1>2, <1>3, NeighboursEqual
<1>5. in[a] = in[p]
  BY <1>1
<1>6. ASSUME NEW k \in p .. p + (r + m) - 1 PROVE in[k] = in[p]
  <2>1. k \in p .. p + r - 1 \/ k \in a .. b
    BY <1>1
  <2> QED
    BY <1>1, <1>4, <1>5, <2>1
<1> QED
  BY <1>1, <1>6 DEF RunsFor

\* The registers find a part of the run, and never more than the run.
LEMMA ByRegistersRuns ==
  ASSUME NEW x \in Isas, NEW in \in Seq(Word), NEW p \in 1 .. Len(in)
  PROVE  RunsFor(in, p, ByRegisters(x, in, p))
<1> DEFINE n == Len(in)
           l == Lanes[x]
           unequal(r) == (0 .. l - 1) \ EqualLanes(x, in, p + r)
           beyond(r) == p + r + l - 1 > n
           next == [r \in 1 .. n |-> IF ~ beyond(r) /\ unequal(r) = {} THEN r + l ELSE 0]
           last == [r \in 1 .. n |-> IF beyond(r) \/ unequal(r) = {} THEN r
                                     ELSE r + Min(unequal(r))]
           Round(g) == [r \in 1 .. n |->
                          IF beyond(r) THEN r
                          ELSE IF unequal(r) = {} THEN g[r + l] ELSE r + Min(unequal(r))]
           run == CHOOSE g : g = Round(g)
<1>1. n \in Nat /\ l \in Nat \ {0} /\ n >= 1
  BY LanesAssumption, LenProperties
<1>2. ByRegisters(x, in, p) = run[1]
  BY DEF ByRegisters
<1>3. ASSUME NEW r, unequal(r) # {}
      PROVE  /\ Min(unequal(r)) \in unequal(r)
             /\ Min(unequal(r)) \in 0 .. l - 1
             /\ \A j \in 0 .. Min(unequal(r)) - 1 : j \notin unequal(r)
  <2> DEFINE U == unequal(r)
  <2>1. U \in SUBSET Nat /\ U \subseteq 0 .. l - 1
    BY <1>1
  <2> HIDE DEF U
  <2>2. \E m \in U : \A k \in U : m <= k
    BY <1>3, <2>1, LeastElement DEF U
  <2>3. Min(U) \in U /\ \A k \in U : Min(U) <= k
    BY <2>2 DEF Min
  <2>4. Min(U) \in 0 .. l - 1
    BY <2>1, <2>3
  <2>5. \A j \in 0 .. Min(U) - 1 : j \notin U
    BY <1>1, <2>3, <2>4
  <2> QED
    BY <2>3, <2>4, <2>5 DEF U
<1>4. \A r, j : j \in 0 .. l - 1 /\ j \notin unequal(r) => in[p + r + j] = in[p + r + j - 1]
  BY DEF EqualLanes
<1> HIDE DEF unequal, n, l
<1>5. last \in [1 .. n -> Nat]
  BY <1>1, <1>3
<1>6. \A r \in 1 .. n : IF ~ beyond(r) /\ unequal(r) = {}
                        THEN next[r] = r + l /\ next[r] \in 1 .. n
                        ELSE next[r] \notin 1 .. n
  BY <1>1 DEF n
<1>7. \A r \in 1 .. n : next[r] \in 1 .. n => r < next[r]
  BY <1>1, <1>6
<1>8. ASSUME NEW g PROVE Lengthens(g, n, next, last) <=> g = Round(g)
  <2>1. \A r \in 1 .. n : (IF next[r] \in 1 .. n THEN g[next[r]] ELSE last[r])
           = IF beyond(r) THEN r
             ELSE IF unequal(r) = {} THEN g[r + l] ELSE r + Min(unequal(r))
    BY <1>6
  <2> HIDE DEF beyond, next, last
  <2>2. [r \in 1 .. n |-> IF next[r] \in 1 .. n THEN g[next[r]] ELSE last[r]] = Round(g)
    BY <2>1
  <2> QED
    BY <2>2 DEF Lengthens
<1> HIDE DEF Round
<1>9. Lengthens(run, n, next, last)
  <2>1. \E g : Lengthens(g, n, next, last)
    <3> HIDE DEF next, last
    <3> QED
      BY <1>1, <1>5, <1>7, LengtheningEnds
  <2>2. \E g : g = Round(g)
    BY <1>8, <2>1
  <2> QED
    BY <1>8, <2>2
<1> HIDE DEF run
<1> DEFINE I == {r \in 1 .. n : RunsFor(in, p, r)}
<1>10. ASSUME NEW r \in I
       PROVE  IF next[r] \in 1 .. n THEN r < next[r] /\ next[r] \in I ELSE last[r] \in I
  <2>1. r \in 1 .. n /\ RunsFor(in, p, r)
    BY <1>10
  <2>2. \A q : RunsFor(in, p, q) => q \in I
    BY DEF RunsFor, n
  <2>3. CASE ~ beyond(r) /\ unequal(r) = {}
    <3>1. \A j \in 0 .. l - 1 : in[p + r + j] = in[p + r + j - 1]
      BY <1>4, <2>3
    <3>2. l \in Nat /\ p + r + l - 1 <= Len(in)
      BY <1>1, <2>1, <2>3 DEF n
    <3>3. RunsFor(in, p, r + l)
      BY <2>1, <3>1, <3>2, RunExtends
    <3> QED
      BY <1>6, <1>7, <2>1, <2>2, <2>3, <3>3
  <2>4. CASE beyond(r)
    BY <1>6, <2>1, <2>4
  <2>5. CASE ~ beyond(r) /\ unequal(r) # {}
    <3> DEFINE m == Min(unequal(r))
    <3>1. m \in 0 .. l - 1 /\ \A j \in 0 .. m - 1 : j \notin unequal(r)
      BY <1>3, <2>5
    <3>2. last[r] = r + m
      BY <2>1, <2>5
    <3> HIDE DEF m
    <3>3. \A j \in 0 .. m - 1 : in[p + r + j] = in[p + r + j - 1]
      <4> TAKE j \in 0 .. m - 1
      <4>1. j \in 0 .. l - 1 /\ j \notin unequal(r)
        BY <1>1, <3>1
      <4> QED
        BY <1>4, <4>1
    <3>5. m \in Nat /\ p + r + m - 1 <= Len(in)
      BY <1>1, <2>1, <2>5, <3>1 DEF n
    <3>4. RunsFor(in, p, r + m)
      BY <2>1, <3>3, <3>5, RunExtends
    <3> QED
      BY <1>6, <2>1, <2>2, <2>5, <3>2, <3>4
  <2> QED
    BY <2>3, <2>4, <2>5
<1>11. 1 \in I
  BY <1>1 DEF RunsFor, n
<1>12. run[1] \in I
  <2>1. I \in SUBSET (1 .. n)
    OBVIOUS
  <2> HIDE DEF I, next, last, beyond
  <2>2. /\ \A r \in I : next[r] \in 1 .. n => r < next[r] /\ next[r] \in I
        /\ \A r \in I : next[r] \notin 1 .. n => last[r] \in I
    BY <1>10
  <2>3. \A r \in I : run[r] \in I
    BY <1>1, <1>9, <2>1, <2>2, LengtheningDelivers
  <2> QED
    BY <1>11, <2>3
<1> QED
  BY <1>2, <1>12

\* The loop over single values finds the rest of it.
LEMMA RunLengthIs ==
  ASSUME NEW x \in Isas, NEW in \in Seq(Word), NEW p \in 1 .. Len(in)
  PROVE  LET r == RunLength(x, in, p)
         IN  RunsFor(in, p, r) /\ (p + r <= Len(in) => in[p + r] # in[p])
<1> DEFINE n == Len(in)
           b == ByRegisters(x, in, p)
           on(r) == p + r <= n /\ in[p + r] = in[p]
           next == [r \in 1 .. n |-> IF on(r) THEN r + 1 ELSE 0]
           last == [r \in 1 .. n |-> r]
           Round(g) == [r \in 1 .. n |-> IF on(r) THEN g[r + 1] ELSE r]
           run == CHOOSE g : g = Round(g)
<1>1. n \in Nat /\ p \in 1 .. n
  BY LenProperties
<1>2. RunsFor(in, p, b)
  BY ByRegistersRuns
<1>3. b \in 1 .. n /\ b <= n - p + 1
  BY <1>1, <1>2 DEF RunsFor
<1> HIDE DEF b
<1>4. RunLength(x, in, p) = run[b]
  <2>1. Min({b, n - p + 1}) = b
    <3> DEFINE S == {b, n - p + 1}
    <3>1. b \in S /\ \A y \in S : b <= y
      BY <1>3
    <3>2. S \in SUBSET Int
      BY <1>1, <1>3
    <3> HIDE DEF S
    <3>3. Min(S) \in S /\ \A y \in S : Min(S) <= y
      BY <3>1 DEF Min
    <3>4. Min(S) <= b /\ b <= Min(S) /\ Min(S) \in Int /\ b \in Int
      BY <3>1, <3>2, <3>3
    <3>5. Min(S) = b
      BY <3>4
    <3> QED
      BY <3>5 DEF S
  <2> QED
    BY <2>1 DEF RunLength, b
<1> HIDE DEF n
<1>5. \A r \in 1 .. n : IF on(r) THEN next[r] = r + 1 /\ next[r] \in 1 .. n
                                 ELSE next[r] \notin 1 .. n
  BY <1>1
<1>6. ASSUME NEW g PROVE Lengthens(g, n, next, last) <=> g = Round(g)
  <2>1. \A r \in 1 .. n : (IF next[r] \in 1 .. n THEN g[next[r]] ELSE last[r])
                            = IF on(r) THEN g[r + 1] ELSE r
    BY <1>5
  <2> HIDE DEF on, next, last
  <2>2. [r \in 1 .. n |-> IF next[r] \in 1 .. n THEN g[next[r]] ELSE last[r]] = Round(g)
    BY <2>1
  <2> QED
    BY <2>2 DEF Lengthens
<1> HIDE DEF Round
<1>7. Lengthens(run, n, next, last)
  <2>1. last \in [1 .. n -> Nat] /\ \A r \in 1 .. n : next[r] \in 1 .. n => r < next[r]
    BY <1>5
  <2>2. \E g : Lengthens(g, n, next, last)
    <3> HIDE DEF next, last
    <3> QED
      BY <1>1, <2>1, LengtheningEnds
  <2>3. \E g : g = Round(g)
    BY <1>6, <2>2
  <2> QED
    BY <1>6, <2>3
<1> HIDE DEF run
<1> DEFINE I == {r \in 1 .. n : RunsFor(in, p, r)}
           Good == {r \in 1 .. n : RunsFor(in, p, r) /\ ~ on(r)}
<1>8. ASSUME NEW r \in I, next[r] \in 1 .. n PROVE r < next[r] /\ next[r] \in I
  <2>1. r \in 1 .. n /\ RunsFor(in, p, r) /\ on(r) /\ next[r] = r + 1
    BY <1>5, <1>8
  <2>2. in[p + r - 1] = in[p]
    BY <1>1, <2>1 DEF RunsFor
  <2>3. \A j \in 0 .. 1 - 1 : in[p + r + j] = in[p + r + j - 1]
    <3> TAKE j \in 0 .. 1 - 1
    <3>1. p + r + j = p + r /\ p + r + j - 1 = p + r - 1
      BY <1>1, <2>1
    <3> QED
      BY <2>1, <2>2, <3>1
  <2>4. 1 \in Nat /\ p + r + 1 - 1 <= Len(in)
    BY <1>1, <2>1 DEF n
  <2> DEFINE m == 1
  <2>5. m \in Nat /\ p + r + m - 1 <= Len(in) /\ m = 1
        /\ \A j \in 0 .. m - 1 : in[p + r + j] = in[p + r + j - 1]
    BY <2>3, <2>4
  <2> HIDE DEF m
  <2>6. RunsFor(in, p, r + m)
    BY <2>1, <2>5, RunExtends
  <2> QED
    BY <1>8, <2>1, <2>5, <2>6
<1>9. ASSUME NEW r \in I, next[r] \notin 1 .. n PROVE last[r] \in Good
  BY <1>5, <1>9
<1>10. b \in I
  BY <1>2, <1>3
<1>11. run[b] \in Good
  <2>1. I \in SUBSET (1 .. n)
    OBVIOUS
  <2> HIDE DEF I, Good, next, last, on
  <2>2. \A r \in I : run[r] \in Good
    BY <1>1, <1>7, <1>8, <1>9, <2>1, LengtheningDelivers
  <2> QED
    BY <1>10, <2>2
<1> QED
  BY <1>4, <1>11 DEF n

\* Where a run ends and another begins, the value changes.
LEMMA BoundsDiffer ==
  ASSUME NEW in \in Seq(Word), in # <<>>, NEW k \in 2 .. NumRuns(in)
  PROVE  in[Bounds(in)[k]] # in[Bounds(in)[k] - 1]
<1> DEFINE n == Len(in)
           starts == {i \in 1 .. n : i = 1 \/ in[i] # in[i - 1]}
           R == Listed(starts)
           m == Cardinality(starts)
<1>1. NumRuns(in) \in 1 .. n /\ n \in Nat
      /\ k - 1 \in 1 .. NumRuns(in) /\ Bounds(in)[k - 1] \in 1 .. n
      /\ Bounds(in)[k - 1] < Bounds(in)[(k - 1) + 1]
  BY BoundsFacts, LenProperties
<1>2. RunStarts(in) = R
  BY DEF RunStarts, Listed, Rank
<1>3. starts \in SUBSET (1 .. n)
  OBVIOUS
<1>4. \A i \in starts : i = 1 \/ in[i] # in[i - 1]
  OBVIOUS
<1> HIDE DEF starts, n
<1>5. R \in Seq(1 .. n) /\ Len(R) = m /\ \A j \in 1 .. m : R[j] \in starts
  BY <1>1, <1>3, ListedInOrder
<1> HIDE DEF R, m
<1>6. k \in 1 .. m /\ m = NumRuns(in)
  BY <1>1, <1>2, <1>5 DEF NumRuns
<1>7. Bounds(in)[k] = R[k]
  BY <1>1, <1>2, <1>5, <1>6 DEF Bounds
<1>8. R[k] \in starts /\ R[k] # 1
  BY <1>1, <1>3, <1>5, <1>6, <1>7
<1> QED
  BY <1>4, <1>7, <1>8

(***************************************************************************)
(* So the run found at a place where a run begins ends where the next one  *)
(* begins.                                                                 *)
(***************************************************************************)
LEMMA RunLengthAtBounds ==
  ASSUME NEW x \in Isas, NEW in \in Seq(Word), in # <<>>, NEW k \in 1 .. NumRuns(in)
  PROVE  RunLength(x, in, Bounds(in)[k]) = Bounds(in)[k + 1] - Bounds(in)[k]
<1> DEFINE n == Len(in)
           m == NumRuns(in)
           p == Bounds(in)[k]
           e == Bounds(in)[k + 1]
           r == RunLength(x, in, p)
<1>1. /\ n \in Nat /\ m \in 1 .. n /\ p \in 1 .. n /\ e \in 1 .. n + 1 /\ p < e
      /\ \A i \in p .. e - 1 : in[i] = in[p]
      /\ Bounds(in)[m + 1] = n + 1
  BY BoundsFacts, LenProperties
<1>2. e <= n => in[e] # in[e - 1]
  <2> SUFFICES ASSUME e <= n PROVE in[e] # in[e - 1]
    OBVIOUS
  <2>1. k + 1 \in 2 .. m
    BY <1>1
  <2> HIDE DEF m
  <2> QED
    BY <2>1, BoundsDiffer DEF m
<1> HIDE DEF p, e, n, m
<1>3. RunsFor(in, p, r) /\ (p + r <= n => in[p + r] # in[p])
  BY <1>1, RunLengthIs DEF n
<1> HIDE DEF r
<1>4. r \in 1 .. n /\ p + r - 1 <= n /\ \A i \in p .. p + r - 1 : in[i] = in[p]
  BY <1>3 DEF RunsFor, n
<1>5. ~ (p + r < e)
  <2> SUFFICES ASSUME p + r < e PROVE FALSE
    OBVIOUS
  <2>1. p + r \in p .. e - 1 /\ p + r <= n
    BY <1>1, <1>4
  <2> QED
    BY <1>1, <1>3, <2>1
<1>6. ~ (e < p + r)
  <2> SUFFICES ASSUME e < p + r PROVE FALSE
    OBVIOUS
  <2>1. e \in p .. p + r - 1 /\ e - 1 \in p .. p + r - 1 /\ e <= n
    BY <1>1, <1>4
  <2> QED
    BY <1>2, <1>4, <2>1
<1>7. r = e - p
  BY <1>1, <1>4, <1>5, <1>6
<1> QED
  BY <1>7 DEF r, e, p

(***************************************************************************)
(* The pairs pushed are those of RLECodec: from the run at the end on      *)
(* backwards, each puts its pair before those of the runs after it.        *)
(***************************************************************************)
THEOREM VecRlePairsAreRlePairs ==
  ASSUME NEW x \in Isas, NEW in \in Seq(Word)
  PROVE  VecRlePairs(x, in) = IF in = <<>> THEN <<>> ELSE RlePairs(in)
<1> DEFINE n == Len(in)
           S == 1 .. n + 1
           D == Seq(Int)
           base == <<>>
           length(p) == RunLength(x, in, p)
           next == [p \in S |-> IF p > n THEN 0 ELSE p + length(p)]
           step == [p \in S |-> [y \in D |-> IF p > n THEN <<>> ELSE <<in[p], length(p)>> \o y]]
           rank == [p \in S |-> n + 2 - p]
           Round(g) == [p \in S |-> IF p > n THEN <<>>
                                    ELSE <<in[p], length(p)>> \o g[p + length(p)]]
           from == CHOOSE g : g = Round(g)
<1>1. n \in Nat /\ \A p \in 1 .. n : in[p] \in Int
  BY ElementOfSeq, LenProperties, HalfAssumption DEF Word
<1>2. VecRlePairs(x, in) = from[1]
  BY DEF VecRlePairs
<1>3. \A p \in 1 .. n : length(p) \in 1 .. n /\ p + length(p) \in S
  <2> TAKE p \in 1 .. n
  <2>1. RunsFor(in, p, length(p))
    BY RunLengthIs
  <2> QED
    BY <1>1, <2>1 DEF RunsFor
<1> HIDE DEF length, n
<1>4. step \in [S -> [D -> D]] /\ base \in D
  <2>1. ASSUME NEW p \in S, NEW y \in D, ~ (p > n)
        PROVE  <<in[p], length(p)>> \o y \in D
    <3>1. in[p] \in Int /\ length(p) \in Int
      BY <1>1, <1>3, <2>1
    <3>2. <<in[p], length(p)>> \in Seq(Int)
      BY <3>1
    <3> QED
      BY <3>2
  <2>2. <<>> \in D
    OBVIOUS
  <2> HIDE DEF D
  <2> QED
    BY <2>1, <2>2
<1>6. \A p \in S : IF p > n THEN next[p] \notin S
                            ELSE next[p] = p + length(p) /\ next[p] \in S
  <2> TAKE p \in S
  <2>1. next[p] = IF p > n THEN 0 ELSE p + length(p)
    OBVIOUS
  <2> HIDE DEF next
  <2> QED
    BY <1>1, <1>3, <2>1
<1>5. rank \in [S -> 1 .. n + 1]
      /\ \A p \in S : next[p] \in S => rank[next[p]] < rank[p]
  <2>1. \A p \in S : rank[p] = n + 2 - p
    OBVIOUS
  <2>2. rank \in [S -> 1 .. n + 1]
    BY <1>1
  <2>3. ASSUME NEW p \in S, next[p] \in S PROVE rank[next[p]] < rank[p]
    <3>1. ~ (p > n)
      BY <1>6, <2>3
    <3>2. p \in 1 .. n /\ next[p] = p + length(p) /\ length(p) \in 1 .. n
      BY <1>1, <1>3, <1>6, <3>1
    <3> HIDE DEF next, rank
    <3> QED
      BY <1>1, <2>1, <2>3, <3>2
  <2> QED
    BY <2>2, <2>3
<1>7. \A p \in S : \A y \in D :
        step[p][y] = IF p > n THEN <<>> ELSE <<in[p], length(p)>> \o y
  OBVIOUS
<1>8. \E f : f = Round(f)
  <2> HIDE DEF S, D, base, next, step, rank
  <2>0. n + 1 \in Nat
    BY <1>1
  <2>1. PICK f : Solves(f, S, D, base, next, step)
    BY <1>4, <1>5, <2>0, RecursionHasSolution
  <2>2. f \in [S -> D]
    BY <2>1 DEF Solves
  <2>3. ASSUME NEW p \in S
        PROVE  f[p] = IF p > n THEN <<>> ELSE <<in[p], length(p)>> \o f[p + length(p)]
    <3> DEFINE y == IF next[p] \in S THEN f[next[p]] ELSE base
    <3>1. f[p] = step[p][y] /\ y \in D
      BY <1>4, <2>1, <2>2 DEF Solves
    <3>2. ~ (p > n) => y = f[p + length(p)]
      BY <1>6
    <3> HIDE DEF y
    <3>3. f[p] = IF p > n THEN <<>> ELSE <<in[p], length(p)>> \o y
      BY <1>7, <3>1
    <3> QED
      BY <3>2, <3>3
  <2>4. f = [p \in S |-> f[p]]
    BY <2>2
  <2>5. f = Round(f)
    BY <2>3, <2>4, Zenon
  <2> HIDE DEF Round
  <2> QED
    BY <2>5
<1>9. from = Round(from)
  <2> HIDE DEF Round
  <2> QED
    BY <1>8
<1> HIDE DEF from
<1>10. \A p \in S : from[p] = IF p > n THEN <<>>
                              ELSE <<in[p], length(p)>> \o from[p + length(p)]
  <2> TAKE p \in S
  <2>1. from[p] = Round(from)[p]
    BY <1>9
  <2> QED
    BY <2>1
<1>11. CASE in = <<>>
  <2>1. n = 0
    BY <1>11 DEF n
  <2> QED
    BY <1>2, <1>10, <1>11, <2>1
<1>12. CASE in # <<>>
  <2> DEFINE pairs == RlePairs(in)
             m == NumRuns(in)
             B == Bounds(in)
             rest(k) == [j \in 1 .. 2 * (m + 1 - k) |-> pairs[2 * (k - 1) + j]]
             P == {q \in 0 .. m : from[B[m + 1 - q]] = rest(m + 1 - q)}
  <2>1. /\ pairs \in Seq(Int) /\ Len(pairs) = 2 * m
        /\ \A k \in 1 .. m : pairs[2 * k - 1] = in[B[k]] /\ pairs[2 * k] = B[k + 1] - B[k]
    BY <1>12, RlePairsAre
  <2>2. /\ m \in 1 .. n /\ B[1] = 1 /\ B[m + 1] = n + 1
        /\ \A k \in 1 .. m : /\ B[k] \in 1 .. n /\ B[k + 1] \in 1 .. n + 1
                             /\ length(B[k]) = B[k + 1] - B[k]
    BY <1>12, BoundsFacts, RunLengthAtBounds DEF n, length
  <2> HIDE DEF pairs, m, B
  <2>3. ASSUME NEW k \in 1 .. m + 1
        PROVE  /\ rest(k) \in Seq(Int) /\ Len(rest(k)) = 2 * (m + 1 - k)
               /\ \A j \in 1 .. 2 * (m + 1 - k) : rest(k)[j] = pairs[2 * (k - 1) + j]
    <3>1. 2 * (m + 1 - k) \in Nat
      BY <2>2
    <3>2. \A j \in 1 .. 2 * (m + 1 - k) : pairs[2 * (k - 1) + j] \in Int
      <4> TAKE j \in 1 .. 2 * (m + 1 - k)
      <4>1. 2 * (k - 1) + j \in 1 .. 2 * m
        BY <2>2
      <4> QED
        BY <2>1, <4>1, ElementOfSeq
    <3> QED
      BY <3>1, <3>2
  <2> HIDE DEF rest
  <2>4. 0 \in P
    <3>1. m + 1 \in 1 .. m + 1 /\ m + 1 - 0 = m + 1 /\ n + 1 \in S /\ n + 1 > n
      BY <1>1, <2>2
    <3>2. from[B[m + 1]] = <<>>
      BY <1>10, <2>2, <3>1
    <3>3. rest(m + 1) \in Seq(Int) /\ Len(rest(m + 1)) = 0
      BY <2>2, <2>3, <3>1
    <3>4. rest(m + 1) = <<>>
      BY <3>3, EmptySeq
    <3> QED
      BY <2>2, <3>1, <3>2, <3>4
  <2>5. ASSUME NEW q \in 1 .. m, q - 1 \in P PROVE q \in P
    <3> DEFINE k == m + 1 - q
    <3>1. k \in 1 .. m /\ k \in 1 .. m + 1 /\ k + 1 \in 1 .. m + 1 /\ m + 1 - (q - 1) = k + 1
      BY <2>2
    <3> HIDE DEF k
    <3>2. from[B[k + 1]] = rest(k + 1)
      BY <2>5, <3>1
    <3>3. B[k] \in 1 .. n /\ B[k + 1] \in Int /\ length(B[k]) = B[k + 1] - B[k]
      BY <2>2, <3>1
    <3>4. B[k] \in S /\ ~ (B[k] > n) /\ B[k] + length(B[k]) = B[k + 1]
      BY <1>1, <3>3
    <3>5. from[B[k]] = <<in[B[k]], length(B[k])>> \o rest(k + 1)
      BY <1>10, <3>2, <3>4
    <3> DEFINE pair == <<in[B[k]], length(B[k])>>
    <3>6. pair \in Seq(Int) /\ Len(pair) = 2 /\ pair[1] = in[B[k]] /\ pair[2] = B[k + 1] - B[k]
      BY <1>1, <3>3
    <3>7. from[B[k]] = pair \o rest(k + 1)
      BY <3>5
    <3> HIDE DEF pair
    <3>8. /\ rest(k) \in Seq(Int) /\ Len(rest(k)) = 2 * (m + 1 - k)
          /\ \A j \in 1 .. 2 * (m + 1 - k) : rest(k)[j] = pairs[2 * (k - 1) + j]
      BY <2>3, <3>1
    <3>9. /\ rest(k + 1) \in Seq(Int) /\ Len(rest(k + 1)) = 2 * (m + 1 - (k + 1))
          /\ \A j \in 1 .. 2 * (m + 1 - (k + 1)) : rest(k + 1)[j] = pairs[2 * ((k + 1) - 1) + j]
      BY <2>3, <3>1
    <3>10. Len(rest(k)) = Len(pair) + Len(rest(k + 1))
      <4>1. m \in Int /\ k \in Int
        BY <2>2, <3>1
      <4>2. 2 * (m + 1 - k) = 2 + 2 * (m + 1 - (k + 1))
        BY <4>1
      <4> QED
        BY <3>6, <3>8, <3>9, <4>2
    <3>11. \A j \in 1 .. Len(pair) : rest(k)[j] = pair[j]
      <4>1. 1 \in 1 .. 2 * (m + 1 - k) /\ 2 \in 1 .. 2 * (m + 1 - k)
            /\ 2 * (k - 1) + 1 = 2 * k - 1 /\ 2 * (k - 1) + 2 = 2 * k
        BY <2>2, <3>1
      <4>2. rest(k)[1] = pair[1] /\ rest(k)[2] = pair[2]
        BY <2>1, <3>1, <3>6, <3>8, <4>1
      <4> QED
        BY <3>6, <4>2
    <3>12. \A j \in 1 .. Len(rest(k + 1)) : rest(k)[Len(pair) + j] = rest(k + 1)[j]
      <4> TAKE j \in 1 .. Len(rest(k + 1))
      <4>1. /\ j \in 1 .. 2 * (m + 1 - (k + 1)) /\ 2 + j \in 1 .. 2 * (m + 1 - k)
            /\ 2 * (k - 1) + (2 + j) = 2 * ((k + 1) - 1) + j
        BY <2>2, <3>1, <3>9
      <4> QED
        BY <3>6, <3>8, <3>9, <4>1
    <3>13. rest(k) = pair \o rest(k + 1)
      BY <3>6, <3>8, <3>9, <3>10, <3>11, <3>12, ConcatIs
    <3>14. q \in 0 .. m
      BY <2>2
    <3> QED
      BY <3>7, <3>13, <3>14 DEF k
  <2>6. m \in P
    <3> HIDE DEF P
    <3>1. m \in Nat /\ m \in 0 .. m
      BY <2>2
    <3>2. \A q \in 0 .. m : q \in P
      BY <2>4, <2>5, <3>1, Onward
    <3> QED
      BY <3>1, <3>2
  <2>7. from[1] = rest(1)
    <3>1. m + 1 - m = 1
      BY <2>2
    <3> QED
      BY <2>2, <2>6, <3>1
  <2>8. rest(1) = pairs
    <3>1. 1 \in 1 .. m + 1 /\ 2 * (m + 1 - 1) = 2 * m
      BY <2>2
    <3>2. rest(1) \in Seq(Int) /\ Len(rest(1)) = Len(pairs)
      BY <2>1, <2>3, <3>1
    <3>3. \A j \in 1 .. Len(pairs) : rest(1)[j] = pairs[j]
      <4> TAKE j \in 1 .. Len(pairs)
      <4>1. j \in 1 .. 2 * (m + 1 - 1) /\ 2 * (1 - 1) + j = j
        BY <2>1, <3>1
      <4> QED
        BY <2>3, <3>1, <4>1
    <3> QED
      BY <2>1, <3>2, <3>3, SeqEqual
  <2> QED
    BY <1>2, <1>12, <2>7, <2>8 DEF pairs
<1> QED
  BY <1>11, <1>12

-------------------------------------------------------------------------------
(***************************************************************************)
(* What an object holds, scheme by scheme.  The run length codecs keep the *)
(* pairs of earlier blocks below the elements AllocEncoded resized to:     *)
(* how many pairs from the front spell out something is a matter of which  *)
(* blocks remain.                                                          *)
(***************************************************************************)
LastOf(ws) == ws[Len(ws)]

SlotsHeld(i, n) == n \div Lanes[i] + 1

RemainsIn(i, ws, k) ==
  /\ ws[k] # <<>>
  /\ \A j \in k + 1 .. Len(ws) : SlotsHeld(i, Len(ws[j])) > SlotsHeld(i, Len(ws[k]))

StaleBefore(i, ws, z) ==
  \E k \in 1 .. Len(ws) : RemainsIn(i, ws, k) /\ SlotsHeld(i, Len(ws[k])) < z

SpeltBefore(data, z) == \E q \in 1 .. z : 2 * q <= Len(data) /\ data[2 * q] # 0

PairsStored(i, data, ws) ==
  /\ \E y \in Nat : PairsIn(data, y)
  /\ ws # <<>> => \E pre : /\ PairsIn(pre, SlotsHeld(i, Len(LastOf(ws))))
                           /\ data = pre \o PairsOf(LastOf(ws))
  /\ \A z \in Nat : SpeltBefore(data, z) <=> StaleBefore(i, ws, z)

Holds(x, i, data, ws) ==
  /\ ws # <<>> => ~ Overruns(x, i, Len(LastOf(ws)))
  /\ x = "delta" /\ ws # <<>> => data = VecDeltaSymbols(i, LastOf(ws))
  /\ x = "for" /\ ws # <<>> /\ LastOf(ws) # <<>> => data = ForSymbols(LastOf(ws))
  /\ x = "rle" => PairsStored(i, data, ws)

LEMMA SlotsFacts ==
  ASSUME NEW i \in Isas, NEW n \in Nat
  PROVE  SlotsHeld(i, n) \in Nat \ {0} /\ RleSlots(i, n) = 2 * SlotsHeld(i, n)
<1>1. Lanes[i] \in Nat \ {0}
  BY LanesAssumption
<1>2. n \div Lanes[i] \in Nat
  BY <1>1
<1> QED
  BY <1>2 DEF SlotsHeld, RleSlots

\* resize(n) keeps what there is of the first n elements and adds zeros.
LEMMA ResizeIs ==
  ASSUME NEW data \in Seq(Word), NEW n \in Nat
  PROVE  /\ Resize(data, n) \in Seq(Word) /\ Len(Resize(data, n)) = n
         /\ \A j \in 1 .. n : Resize(data, n)[j] = IF j <= Len(data) THEN data[j] ELSE 0
<1>1. \A j \in 1 .. n : (IF j <= Len(data) THEN data[j] ELSE 0) \in Word
  BY HalfAssumption, ElementOfSeq DEF Word
<1> QED
  BY <1>1 DEF Resize

LEMMA ResizedPairs ==
  ASSUME NEW data \in Seq(Word), NEW y \in Nat, PairsIn(data, y), NEW h \in Nat
  PROVE  /\ PairsIn(Resize(data, 2 * h), h)
         /\ \A q \in 1 .. h : Resize(data, 2 * h)[2 * q]
                                = IF 2 * q <= Len(data) THEN data[2 * q] ELSE 0
<1> DEFINE r == Resize(data, 2 * h)
<1>1. /\ r \in Seq(Word) /\ Len(r) = 2 * h
      /\ \A j \in 1 .. 2 * h : r[j] = IF j <= Len(data) THEN data[j] ELSE 0
  <2>1. 2 * h \in Nat
    OBVIOUS
  <2> HIDE DEF r
  <2> QED
    BY <2>1, ResizeIs DEF r
<1>2. Len(data) = 2 * y /\ \A k \in 1 .. y : data[2 * k - 1] \in Word /\ data[2 * k] \in Nat
  BY DEF PairsIn
<1> HIDE DEF r
<1>3. \A k \in 1 .. h : /\ r[2 * k - 1] \in Word /\ r[2 * k] \in Nat
                        /\ r[2 * k] = IF 2 * k <= Len(data) THEN data[2 * k] ELSE 0
  <2> TAKE k \in 1 .. h
  <2>1. 2 * k - 1 \in 1 .. 2 * h /\ 2 * k \in 1 .. 2 * h
    OBVIOUS
  <2>2. 0 \in Word
    BY HalfAssumption DEF Word
  <2>3. CASE k <= y
    <3>1. 2 * k - 1 <= Len(data) /\ 2 * k <= Len(data) /\ k \in 1 .. y
      BY <1>2, <2>3
    <3> QED
      BY <1>1, <1>2, <2>1, <3>1
  <2>4. CASE k > y
    <3>1. ~ (2 * k - 1 <= Len(data)) /\ ~ (2 * k <= Len(data))
      BY <1>2, <2>4
    <3> QED
      BY <1>1, <2>1, <2>2, <3>1
  <2> QED
    BY <2>3, <2>4
<1>4. r \in Seq(Int)
  BY <1>1, HalfAssumption DEF Word
<1>5. PairsIn(r, h)
  BY <1>1, <1>3, <1>4 DEF PairsIn
<1> QED
  BY <1>3, <1>5 DEF r

\* The pairs of a block that an int32_t can count are words.
LEMMA PairsOfType ==
  ASSUME NEW b \in Seq(Word), Len(b) < Half
  PROVE  PairsOf(b) \in Seq(Word)
<1> DEFINE m == RunsOf(b)
           p == PairsOf(b)
<1>1. /\ m \in Nat /\ p \in Seq(Int) /\ Len(p) = 2 * m
      /\ \A k \in 1 .. m : p[2 * k - 1] \in Word /\ p[2 * k] \in 1 .. Len(b)
  BY PairsOfFacts DEF PairsIn
<1> HIDE DEF m, p
<1>2. \A j \in 1 .. Len(p) : p[j] \in Word
  <2> TAKE j \in 1 .. Len(p)
  <2>1. CASE j % 2 = 0
    <3>1. j \div 2 \in 1 .. m /\ 2 * (j \div 2) = j
      BY <1>1, <2>1
    <3>2. p[j] \in 1 .. Len(b)
      BY <1>1, <3>1
    <3> QED
      BY <3>2, HalfAssumption DEF Word
  <2>2. CASE j % 2 = 1
    <3>1. (j + 1) \div 2 \in 1 .. m /\ 2 * ((j + 1) \div 2) - 1 = j
      BY <1>1, <2>2
    <3> QED
      BY <1>1, <3>1
  <2> QED
    BY <1>1, <2>1, <2>2
<1> QED
  BY <1>1, <1>2 DEF p

\* Each element of pairs that follow pairs.
Joined(data, pre, y, pairs, m) ==
  /\ \A j \in 1 .. 2 * y : data[j] = pre[j]
  /\ \A j \in 2 * y + 1 .. 2 * y + 2 * m : data[j] = pairs[j - 2 * y]

LEMMA PairsJoined ==
  ASSUME NEW y \in Nat, NEW m \in Nat, NEW pre, PairsIn(pre, y), NEW pairs, PairsIn(pairs, m)
  PROVE  Joined(pre \o pairs, pre, y, pairs, m)
<1> DEFINE D == Int
<1>1. pre \in Seq(D) /\ Len(pre) = 2 * y /\ pairs \in Seq(D) /\ Len(pairs) = 2 * m
  BY DEF PairsIn
<1> HIDE DEF D
<1>2. \A i \in 1 .. Len(pre) + Len(pairs) :
        (pre \o pairs)[i] = IF i <= Len(pre) THEN pre[i] ELSE pairs[i - Len(pre)]
  BY <1>1, ConcatProperties
<1> QED
  BY <1>1, <1>2 DEF Joined

\* One encoding puts its own pairs after those it was left room for.
LEMMA SpeltAfter ==
  ASSUME NEW data \in Seq(Word), NEW y \in Nat, PairsIn(data, y), NEW h \in Nat,
         NEW b \in Seq(Word), NEW z \in Nat
  PROVE  SpeltBefore(Resize(data, 2 * h) \o PairsOf(b), z)
           <=> IF z <= h THEN SpeltBefore(data, z)
               ELSE b # <<>> \/ SpeltBefore(data, h)
<1> DEFINE m == RunsOf(b)
           pre == Resize(data, 2 * h)
           pairs == PairsOf(b)
           new == pre \o pairs
<1>1. /\ m \in Nat /\ PairsIn(pairs, m) /\ (b # <<>> => m >= 1)
      /\ \A k \in 1 .. m : pairs[2 * k] \in 1 .. Len(b)
      /\ b = <<>> => m = 0
  BY PairsOfFacts DEF RunsOf
<1>2. /\ PairsIn(pre, h)
      /\ \A q \in 1 .. h : pre[2 * q] = IF 2 * q <= Len(data) THEN data[2 * q] ELSE 0
  BY ResizedPairs
<1> HIDE DEF m, pre, pairs
<1>3. /\ PairsIn(new, h + m)
      /\ \A k \in 1 .. h : new[2 * k] = pre[2 * k]
      /\ \A k \in 1 .. m : new[2 * (h + k)] = pairs[2 * k]
  <2>1. m \in Nat /\ PairsIn(pairs, m) /\ PairsIn(pre, h)
    BY <1>1, <1>2
  <2> HIDE DEF new
  <2>2. PairsIn(pre \o pairs, h + m)
    BY <2>1, PairsConcat
  <2>3. Joined(pre \o pairs, pre, h, pairs, m)
    BY <2>1, PairsJoined
  <2>4. /\ new = pre \o pairs
        /\ \A j \in 1 .. 2 * h : new[j] = pre[j]
        /\ \A j \in 2 * h + 1 .. 2 * h + 2 * m : new[j] = pairs[j - 2 * h]
    BY <2>3 DEF new, Joined
  <2>5. ASSUME NEW k \in 1 .. h PROVE new[2 * k] = pre[2 * k]
    <3>1. 2 * k \in 1 .. 2 * h
      OBVIOUS
    <3> QED
      BY <2>4, <3>1
  <2>6. ASSUME NEW k \in 1 .. m PROVE new[2 * (h + k)] = pairs[2 * k]
    <3>1. /\ 2 * (h + k) \in 2 * h + 1 .. 2 * h + 2 * m
          /\ 2 * (h + k) - 2 * h = 2 * k
      BY <2>1
    <3> QED
      BY <2>4, <3>1
  <2> QED
    BY <2>2, <2>4, <2>5, <2>6
<1>4. Len(new) = 2 * (h + m)
  BY <1>3 DEF PairsIn
<1> HIDE DEF new
<1>5. ASSUME NEW q \in 1 .. h
      PROVE  2 * q <= Len(new) /\ (new[2 * q] # 0 <=> 2 * q <= Len(data) /\ data[2 * q] # 0)
  BY <1>1, <1>2, <1>3, <1>4
<1>6. CASE z <= h
  <2>1. \A q \in 1 .. z : q \in 1 .. h
    BY <1>6
  <2> QED
    BY <1>5, <1>6, <2>1 DEF SpeltBefore, new, pre, pairs
<1>7. CASE z > h
  <2>1. ASSUME SpeltBefore(new, z), b = <<>> PROVE SpeltBefore(data, h)
    <3>1. PICK q \in 1 .. z : 2 * q <= Len(new) /\ new[2 * q] # 0
      BY <2>1 DEF SpeltBefore
    <3>2. q \in 1 .. h
      BY <1>1, <1>4, <2>1, <3>1
    <3> QED
      BY <1>5, <3>1, <3>2 DEF SpeltBefore
  <2>2. ASSUME SpeltBefore(data, h) PROVE SpeltBefore(new, z)
    <3>1. \A q \in 1 .. h : q \in 1 .. z
      BY <1>7
    <3> QED
      BY <1>5, <2>2, <3>1 DEF SpeltBefore
  <2>3. ASSUME b # <<>> PROVE SpeltBefore(new, z)
    <3>1. 1 \in 1 .. m /\ h + 1 \in 1 .. z /\ 2 * (h + 1) <= Len(new)
      BY <1>1, <1>4, <1>7, <2>3
    <3>2. new[2 * (h + 1)] = pairs[2 * 1] /\ pairs[2 * 1] \in 1 .. Len(b)
      BY <1>1, <1>3, <3>1
    <3>3. new[2 * (h + 1)] # 0
      BY <3>2
    <3> QED
      BY <3>1, <3>3 DEF SpeltBefore
  <2> QED
    BY <1>7, <2>1, <2>2, <2>3 DEF new, pre, pairs
<1> QED
  BY <1>6, <1>7

\* Which blocks remain changes with it in the same way.
LEMMA StaleAfter ==
  ASSUME NEW i \in Isas, NEW ws \in Seq(Seq(Word)), NEW b \in Seq(Word), NEW z \in Nat
  PROVE  StaleBefore(i, Append(ws, b), z)
           <=> IF z <= SlotsHeld(i, Len(b)) THEN StaleBefore(i, ws, z)
               ELSE b # <<>> \/ StaleBefore(i, ws, SlotsHeld(i, Len(b)))
<1> DEFINE N == Len(ws)
           us == Append(ws, b)
           h == SlotsHeld(i, Len(b))
           s(k) == SlotsHeld(i, Len(us[k]))
<1>1. /\ N \in Nat /\ Len(us) = N + 1 /\ us[N + 1] = b
      /\ \A k \in 1 .. N : us[k] = ws[k] /\ ws[k] \in Seq(Word)
  OBVIOUS
<1>2. h \in Nat /\ \A k \in 1 .. N + 1 : s(k) \in Nat
  <2>1. \A k \in 1 .. N + 1 : us[k] \in Seq(Word)
    BY <1>1
  <2>2. \A k \in 1 .. N + 1 : Len(us[k]) \in Nat
    BY <2>1
  <2>3. ASSUME NEW n \in Nat PROVE SlotsHeld(i, n) \in Nat
    BY SlotsFacts
  <2> HIDE DEF us
  <2>4. \A k \in 1 .. N + 1 : s(k) \in Nat
    BY <2>2, <2>3
  <2> QED
    BY <2>3, <2>4
<1>3. s(N + 1) = h /\ \A k \in 1 .. N : SlotsHeld(i, Len(ws[k])) = s(k)
  BY <1>1
<1>4. ASSUME NEW k \in 1 .. N PROVE RemainsIn(i, us, k) <=> RemainsIn(i, ws, k) /\ h > s(k)
  <2>1. \A j \in k + 1 .. N + 1 : j = N + 1 \/ (j \in k + 1 .. N /\ j \in 1 .. N)
    <3>1. N \in Nat
      BY <1>1
    <3> HIDE DEF N, us, h, s
    <3> QED
      BY <3>1
  <2>2. N + 1 \in k + 1 .. N + 1 /\ \A j \in k + 1 .. N : j \in 1 .. N /\ j \in k + 1 .. N + 1
    BY <1>1
  <2>3. RemainsIn(i, us, k) <=> us[k] # <<>> /\ \A j \in k + 1 .. N + 1 : s(j) > s(k)
    BY <1>1 DEF RemainsIn
  <2>4. RemainsIn(i, ws, k) <=> us[k] # <<>> /\ \A j \in k + 1 .. N : s(j) > s(k)
    BY <1>1, <1>3, <2>2 DEF RemainsIn
  <2> HIDE DEF s, us, h
  <2> QED
    BY <1>3, <2>1, <2>2, <2>3, <2>4
<1>5. RemainsIn(i, us, N + 1) <=> b # <<>>
  <2>1. (N + 1) + 1 .. N + 1 = {}
    BY <1>1
  <2> QED
    BY <1>1, <2>1 DEF RemainsIn
<1>6. StaleBefore(i, us, z) <=> \E k \in 1 .. N + 1 : RemainsIn(i, us, k) /\ s(k) < z
  BY <1>1 DEF StaleBefore
<1>7. \A w : StaleBefore(i, ws, w) <=> \E k \in 1 .. N : RemainsIn(i, ws, k) /\ s(k) < w
  BY <1>3 DEF StaleBefore
<1> HIDE DEF s, us, h, N
<1>8. CASE z <= h
  <2>1. ASSUME StaleBefore(i, us, z) PROVE StaleBefore(i, ws, z)
    <3>1. PICK k \in 1 .. N + 1 : RemainsIn(i, us, k) /\ s(k) < z
      BY <1>6, <2>1
    <3>2. k \in 1 .. N
      BY <1>1, <1>2, <1>3, <1>8, <3>1
    <3> QED
      BY <1>4, <1>7, <3>1, <3>2
  <2>2. ASSUME StaleBefore(i, ws, z) PROVE StaleBefore(i, us, z)
    <3>1. PICK k \in 1 .. N : RemainsIn(i, ws, k) /\ s(k) < z
      BY <1>7, <2>2
    <3>2. k \in 1 .. N + 1 /\ h > s(k)
      BY <1>1, <1>2, <1>8, <3>1
    <3> QED
      BY <1>4, <1>6, <3>1, <3>2
  <2> QED
    BY <1>8, <2>1, <2>2 DEF us, h
<1>9. CASE z > h
  <2>1. ASSUME StaleBefore(i, us, z), b = <<>> PROVE StaleBefore(i, ws, h)
    <3>1. PICK k \in 1 .. N + 1 : RemainsIn(i, us, k) /\ s(k) < z
      BY <1>6, <2>1
    <3>2. k \in 1 .. N
      BY <1>1, <1>5, <2>1, <3>1
    <3> QED
      BY <1>4, <1>7, <3>1, <3>2
  <2>2. ASSUME StaleBefore(i, ws, h) PROVE StaleBefore(i, us, z)
    <3>1. PICK k \in 1 .. N : RemainsIn(i, ws, k) /\ s(k) < h
      BY <1>7, <2>2
    <3>2. k \in 1 .. N + 1 /\ s(k) < z
      BY <1>1, <1>2, <1>9, <3>1
    <3> QED
      BY <1>4, <1>6, <3>1, <3>2
  <2>3. ASSUME b # <<>> PROVE StaleBefore(i, us, z)
    <3>1. N + 1 \in 1 .. N + 1
      BY <1>1
    <3> QED
      BY <1>3, <1>5, <1>6, <1>9, <2>3, <3>1
  <2> QED
    BY <1>2, <1>9, <2>1, <2>2, <2>3 DEF us, h
<1> QED
  BY <1>2, <1>8, <1>9 DEF us, h

(***************************************************************************)
(* AllocEncoded and EncodeArray of each class keep what an object holds.   *)
(***************************************************************************)
LEMMA EncodesPairs ==
  ASSUME NEW i \in Isas, NEW data \in Seq(Word), NEW ws \in Seq(Seq(Word)),
         PairsStored(i, data, ws), NEW b \in Seq(Word), Len(b) < Half
  PROVE  /\ VecRleEncode(i, data, b) \in Seq(Word)
         /\ PairsStored(i, VecRleEncode(i, data, b), Append(ws, b))
<1> DEFINE h == SlotsHeld(i, Len(b))
           m == RunsOf(b)
           pre == Resize(data, 2 * h)
           pairs == PairsOf(b)
           us == Append(ws, b)
<1>1. h \in Nat /\ RleSlots(i, Len(b)) = 2 * h
  BY SlotsFacts, LenProperties
<1>2. VecRlePairs(i, b) = pairs
  BY VecRlePairsAreRlePairs DEF PairsOf
<1>3. LastOf(us) = b /\ us # <<>>
  <2>1. Len(us) = Len(ws) + 1 /\ us[Len(ws) + 1] = b
    OBVIOUS
  <2> QED
    BY <2>1 DEF LastOf
<1>4. PICK y \in Nat : PairsIn(data, y)
  BY DEF PairsStored
<1>5. m \in Nat /\ PairsIn(pairs, m) /\ pairs \in Seq(Word)
  BY PairsOfFacts, PairsOfType
<1> HIDE DEF h
<1>6. 2 * h \in Nat
  BY <1>1
<1>7. PairsIn(pre, h) /\ pre \in Seq(Word)
  BY <1>1, <1>4, <1>6, ResizedPairs, ResizeIs
<1>8. \A z \in Nat : SpeltBefore(pre \o pairs, z)
                       <=> IF z <= h THEN SpeltBefore(data, z)
                           ELSE b # <<>> \/ SpeltBefore(data, h)
  BY <1>1, <1>4, SpeltAfter
<1>9. \A z \in Nat : StaleBefore(i, us, z)
                       <=> IF z <= h THEN StaleBefore(i, ws, z)
                           ELSE b # <<>> \/ StaleBefore(i, ws, h)
  BY StaleAfter DEF h
<1>10. \A z \in Nat : SpeltBefore(data, z) <=> StaleBefore(i, ws, z)
  BY DEF PairsStored
<1>11. VecRleEncode(i, data, b) = pre \o pairs
  BY <1>1, <1>2 DEF VecRleEncode
<1> HIDE DEF m, pre, pairs, us
<1>12. pre \o pairs \in Seq(Word)
  BY <1>5, <1>7
<1>13. PairsIn(pre \o pairs, h + m) /\ h + m \in Nat
  BY <1>1, <1>5, <1>7, PairsConcat
<1>14. \A z \in Nat : SpeltBefore(pre \o pairs, z) <=> StaleBefore(i, us, z)
  BY <1>1, <1>8, <1>9, <1>10
<1>15. PairsStored(i, pre \o pairs, us)
  <2>1. \E w \in Nat : PairsIn(pre \o pairs, w)
    BY <1>13
  <2>2. \E p : PairsIn(p, SlotsHeld(i, Len(LastOf(us)))) /\ pre \o pairs = p \o PairsOf(LastOf(us))
    BY <1>3, <1>7 DEF h, pairs
  <2> QED
    BY <1>14, <2>1, <2>2 DEF PairsStored
<1> QED
  BY <1>11, <1>12, <1>15 DEF us

LEMMA EncodeHolds ==
  ASSUME NEW x \in Schemes, NEW i \in Isas, NEW data \in Seq(Word),
         NEW ws \in Seq(Seq(Word)), Holds(x, i, data, ws),
         NEW b \in Seq(Word), Len(b) < Half, ~ Overruns(x, i, Len(b))
  PROVE  /\ VecEncode(x, i, data, b) \in Seq(Word)
         /\ Holds(x, i, VecEncode(x, i, data, b), Append(ws, b))
<1>1. LastOf(Append(ws, b)) = b
  BY DEF LastOf
<1>2. CASE x = "delta"
  <2>1. VecEncode(x, i, data, b) = VecDeltaSymbols(i, b)
    BY <1>2 DEF VecEncode
  <2>2. VecDeltaSymbols(i, b) \in Seq(Word)
    BY VecDeltaSymbolsAre
  <2> QED
    BY <1>1, <1>2, <2>1, <2>2 DEF Holds
<1>3. CASE x = "for"
  <2>1. VecEncode(x, i, data, b) = VecForEncode(i, data, b)
    BY <1>3 DEF VecEncode
  <2>2. CASE b = <<>>
    <3>1. VecForEncode(i, data, b) \in Seq(Word)
      BY <2>2, ResizeIs DEF VecForEncode
    <3> QED
      BY <1>1, <1>3, <2>1, <2>2, <3>1 DEF Holds
  <2>3. CASE b # <<>>
    <3>1. VecForEncode(i, data, b) = ForSymbols(b)
      BY <1>3, <2>3, VecForIsFor
    <3>2. ForSymbols(b) \in Seq(Word)
      BY <2>3, ForSymbolsType
    <3> QED
      BY <1>1, <1>3, <2>1, <3>1, <3>2 DEF Holds
  <2> QED
    BY <2>2, <2>3
<1>4. CASE x = "rle"
  <2>1. VecEncode(x, i, data, b) = VecRleEncode(i, data, b)
    BY <1>4 DEF VecEncode
  <2>2. PairsStored(i, data, ws)
    BY <1>4 DEF Holds
  <2>3. /\ VecRleEncode(i, data, b) \in Seq(Word)
        /\ PairsStored(i, VecRleEncode(i, data, b), Append(ws, b))
    BY <2>2, EncodesPairs
  <2> QED
    BY <1>1, <1>4, <2>1, <2>3 DEF Holds
<1> QED
  BY <1>2, <1>3, <1>4 DEF Schemes

\* A fresh or a cleared object.
LEMMA NothingHeld ==
  ASSUME NEW x \in Schemes, NEW i \in Isas
  PROVE  Holds(x, i, <<>>, <<>>)
<1>1. PairsIn(<<>>, 0)
  BY DEF PairsIn
<1>2. \A z \in Nat : ~ SpeltBefore(<<>>, z)
  BY DEF SpeltBefore
<1>3. \A z \in Nat : ~ StaleBefore(i, <<>>, z)
  BY DEF StaleBefore
<1>4. PairsStored(i, <<>>, <<>>)
  BY <1>1, <1>2, <1>3 DEF PairsStored
<1> QED
  BY <1>4 DEF Holds

(***************************************************************************)
(* DecodeArray delivers words, and the last block exactly under the        *)
(* condition its class states.                                             *)
(***************************************************************************)
LEMMA DecodeDelivers ==
  ASSUME NEW x \in Schemes, NEW i \in Isas, NEW data \in Seq(Word),
         NEW ws \in Seq(Seq(Word)), ws # <<>>, Holds(x, i, data, ws)
  PROVE  LET b   == LastOf(ws)
             got == VecDecode(x, i, data, Len(b))
         IN  /\ got \in Seq(Word)
             /\ x = "delta" => (got = b <=> \/ Copied(i, Len(b))
                                            \/ \A p \in 1 .. Len(b) :
                                                 \/ ShiftsInZero(i, Len(b), p)
                                                 \/ Narrow(DeltaOf(i, b, p)))
             /\ x = "for" => (got = b <=> \A p \in 1 .. Len(b) :
                                            Narrow(Wrap(b[p] - Reference(i, b))))
             /\ x = "rle" => (got = b <=> ~ StaleBefore(i, ws, SlotsHeld(i, Len(b))))
<1> DEFINE b == LastOf(ws)
           n == Len(b)
           got == VecDecode(x, i, data, n)
<1>1. b \in Seq(Word) /\ n \in Nat
  <2>1. Len(ws) \in 1 .. Len(ws)
    OBVIOUS
  <2>2. b \in Seq(Word)
    BY <2>1 DEF LastOf
  <2> QED
    BY <2>2
<1>2. ~ Overruns(x, i, n)
  BY DEF Holds
<1>3. /\ x = "delta" => data = VecDeltaSymbols(i, b)
      /\ x = "for" /\ b # <<>> => data = ForSymbols(b)
      /\ x = "rle" => PairsStored(i, data, ws)
  BY DEF Holds
<1> HIDE DEF b
<1>4. CASE x = "delta"
  <2>1. got = VecDeltaDecode(i, VecDeltaSymbols(i, b), n)
    BY <1>3, <1>4 DEF VecDecode
  <2>2. /\ got \in Seq(Word)
        /\ got = b <=> \/ Copied(i, n)
                       \/ \A p \in 1 .. n : ShiftsInZero(i, n, p) \/ Narrow(DeltaOf(i, b, p))
    BY <1>1, <2>1, VecDeltaRoundTrip
  <2> QED
    BY <1>4, <2>2 DEF b
<1>5. CASE x = "for"
  <2>1. got = VecForDecode(data, n)
    BY <1>5 DEF VecDecode
  <2>2. CASE b = <<>>
    <3>1. n = 0 /\ got = <<>>
      BY <2>1, <2>2 DEF VecForDecode
    <3> HIDE DEF got, n
    <3>2. got \in Seq(Word) /\ \A p \in 1 .. n : FALSE
      BY <3>1
    <3>3. got = b <=> \A p \in 1 .. n : Narrow(Wrap(b[p] - Reference(i, b)))
      BY <2>2, <3>1, <3>2
    <3>4. x # "delta" /\ x # "rle"
      BY <1>5
    <3> QED
      BY <3>2, <3>3, <3>4 DEF b, got, n
  <2>3. CASE b # <<>>
    <3>1. got = VecForDecode(ForSymbols(b), n)
      BY <1>3, <1>5, <2>1, <2>3
    <3>2. /\ got \in Seq(Word)
          /\ got = b <=> \A p \in 1 .. n : Narrow(Wrap(b[p] - Reference(i, b)))
      BY <1>1, <1>2, <1>5, <2>3, <3>1, VecForRoundTrip
    <3> QED
      BY <1>5, <3>2 DEF b
  <2> QED
    BY <2>2, <2>3
<1>6. CASE x = "rle"
  <2> DEFINE h == SlotsHeld(i, n)
  <2>1. got = RleDecode(data)
    BY <1>6 DEF VecDecode, VecRleDecode
  <2>2. PICK pre : PairsIn(pre, h) /\ data = pre \o PairsOf(b)
    BY <1>3, <1>6 DEF PairsStored, b
  <2>3. SpeltBefore(data, h) <=> StaleBefore(i, ws, h)
    BY <1>1, <1>3, <1>6, SlotsFacts DEF PairsStored
  <2>4. h \in Nat \ {0}
    BY <1>1, SlotsFacts
  <2> HIDE DEF h
  <2>5. got \in Seq(Word) /\ (got = b <=> \A k \in 1 .. h : pre[2 * k] = 0)
    BY <1>1, <2>1, <2>2, <2>4, RleAfterStale
  <2>6. RunsOf(b) \in Nat /\ PairsIn(PairsOf(b), RunsOf(b))
    BY <1>1, PairsOfFacts
  <2>7. /\ PairsIn(data, h + RunsOf(b))
        /\ \A k \in 1 .. h : data[2 * k] = pre[2 * k]
    <3> DEFINE m == RunsOf(b)
               pairs == PairsOf(b)
    <3>1. h \in Nat /\ m \in Nat /\ PairsIn(pairs, m) /\ PairsIn(pre, h) /\ data = pre \o pairs
      BY <2>2, <2>4, <2>6
    <3> HIDE DEF m, pairs
    <3>2. PairsIn(pre \o pairs, h + m)
      BY <3>1, PairsConcat
    <3>3. Joined(pre \o pairs, pre, h, pairs, m)
      BY <3>1, PairsJoined
    <3>4. \A j \in 1 .. 2 * h : data[j] = pre[j]
      BY <3>1, <3>3 DEF Joined
    <3>5. ASSUME NEW k \in 1 .. h PROVE data[2 * k] = pre[2 * k]
      <4>1. 2 * k \in 1 .. 2 * h
        BY <3>1
      <4> QED
        BY <3>4, <4>1
    <3> QED
      BY <3>1, <3>2, <3>5 DEF m
  <2>8. \A k \in 1 .. h : 2 * k <= Len(data)
    <3>1. Len(data) = 2 * (h + RunsOf(b))
      BY <2>7 DEF PairsIn
    <3> QED
      BY <2>4, <2>6, <3>1
  <2>9. SpeltBefore(data, h) <=> \E k \in 1 .. h : pre[2 * k] # 0
    BY <2>7, <2>8 DEF SpeltBefore
  <2> QED
    BY <1>6, <2>3, <2>5, <2>9 DEF b, h
<1> QED
  BY <1>4, <1>5, <1>6 DEF Schemes

-------------------------------------------------------------------------------
(***************************************************************************)
(* The inductive invariant: what an object holds is said by the blocks it  *)
(* has encoded since it was fresh, and what it delivered by what it holds. *)
(***************************************************************************)
IInv ==
  /\ TypeOK
  /\ ~ overrun => Holds(scheme, isa, held, written)
  /\ out # Nothing => /\ ~ overrun /\ written # <<>>
                      /\ out = VecDecode(scheme, isa, held, Len(Block))

LEMMA BlocksAreWords ==
  ASSUME NEW x \in Schemes, NEW b \in Blocks[x]
  PROVE  b \in Seq(Word) /\ Len(b) < Half
BY VectorClientAssumption

LEMMA WrittenAreWords ==
  ASSUME TypeOK
  PROVE  /\ written \in Seq(Seq(Word))
         /\ written # <<>> => Block \in Seq(Word) /\ Len(Block) \in Nat
<1>1. \A k \in 1 .. Len(written) : written[k] \in Seq(Word)
  <2> TAKE k \in 1 .. Len(written)
  <2>1. written[k] \in Blocks[scheme]
    BY DEF TypeOK
  <2> QED
    BY <2>1, BlocksAreWords DEF TypeOK
<1>2. written \in Seq(Seq(Word))
  BY <1>1 DEF TypeOK
<1>3. written # <<>> => Len(written) \in 1 .. Len(written)
  BY <1>2
<1> QED
  BY <1>1, <1>2, <1>3 DEF Block

LEMMA InitIInv == Init => IInv
<1> SUFFICES ASSUME Init PROVE IInv
  OBVIOUS
<1>1. Holds(scheme, isa, held, written)
  BY NothingHeld DEF Init
<1>2. TypeOK
  <2>1. held \in Seq(Word) /\ written \in Seq(Blocks[scheme])
    BY DEF Init
  <2> QED
    BY <2>1 DEF Init, TypeOK
<1>3. out = Nothing
  BY DEF Init
<1> QED
  BY <1>1, <1>2, <1>3 DEF IInv

LEMMA NextIInv == IInv /\ [Next]_vars => IInv'
<1> SUFFICES ASSUME IInv, [Next]_vars PROVE IInv'
  OBVIOUS
<1>1. TypeOK /\ scheme \in Schemes /\ isa \in Isas /\ held \in Seq(Word)
  BY DEF IInv, TypeOK
<1>2. written \in Seq(Seq(Word))
  BY <1>1, WrittenAreWords
<1>3. ASSUME NEW b \in Blocks[scheme], Encode(b) PROVE IInv'
  <2>1. b \in Seq(Word) /\ Len(b) < Half
    BY <1>1, BlocksAreWords
  <2>2. ~ overrun /\ Holds(scheme, isa, held, written) /\ ~ Overruns(scheme, isa, Len(b))
    BY <1>3 DEF IInv, Encode
  <2>3. /\ VecEncode(scheme, isa, held, b) \in Seq(Word)
        /\ Holds(scheme, isa, VecEncode(scheme, isa, held, b), Append(written, b))
    BY <1>1, <1>2, <2>1, <2>2, EncodeHolds
  <2>4. TypeOK'
    BY <1>1, <1>3, <2>3 DEF TypeOK, Encode
  <2>5. Holds(scheme, isa, held, written)'
    BY <1>3, <2>3 DEF Encode
  <2>6. out' = Nothing
    BY <1>3 DEF Encode
  <2> QED
    BY <2>4, <2>5, <2>6 DEF IInv
<1>4. ASSUME NEW b \in Blocks[scheme], EncodeOverruns(b) PROVE IInv'
  <2>1. TypeOK'
    BY <1>1, <1>4 DEF TypeOK, EncodeOverruns
  <2>2. overrun' /\ out' = Nothing
    BY <1>4 DEF EncodeOverruns
  <2> QED
    BY <2>1, <2>2 DEF IInv
<1>5. CASE Decode
  <2>1. ~ overrun /\ Holds(scheme, isa, held, written) /\ written # <<>>
    BY <1>5 DEF IInv, Decode
  <2>2. VecDecode(scheme, isa, held, Len(Block)) \in Seq(Word)
    BY <1>1, <1>2, <2>1, DecodeDelivers DEF Block, LastOf
  <2>3. TypeOK'
    BY <1>1, <1>5, <2>2 DEF TypeOK, Decode
  <2>4. /\ scheme' = scheme /\ isa' = isa /\ held' = held /\ written' = written
        /\ overrun' = overrun /\ Block' = Block
        /\ out' = VecDecode(scheme, isa, held, Len(Block))
    BY <1>5 DEF Decode, Block
  <2> QED
    BY <2>1, <2>3, <2>4 DEF IInv
<1>6. CASE ClearObject
  <2>1. Holds(scheme, isa, <<>>, <<>>)
    BY <1>1, NothingHeld
  <2>2. TypeOK'
    BY <1>1, <1>6 DEF TypeOK, ClearObject
  <2>3. Holds(scheme, isa, held, written)'
    BY <1>6, <2>1 DEF ClearObject
  <2>4. out' = Nothing
    BY <1>6 DEF ClearObject
  <2> QED
    BY <2>2, <2>3, <2>4 DEF IInv
<1>7. CASE UNCHANGED vars
  <2>1. /\ scheme' = scheme /\ isa' = isa /\ held' = held /\ written' = written
        /\ overrun' = overrun /\ Block' = Block /\ out' = out
    BY <1>7 DEF vars, Block
  <2> QED
    BY <2>1 DEF IInv, TypeOK
<1> QED
  BY <1>3, <1>4, <1>5, <1>6, <1>7 DEF Next

LEMMA IInvHolds == Spec => []IInv
BY InitIInv, NextIInv, PTL DEF Spec

(***************************************************************************)
(* Whatever an object is used for, what it holds and delivers are words.   *)
(***************************************************************************)
THEOREM TypeCorrect == Spec => []TypeOK
<1>1. IInv => TypeOK
  BY DEF IInv
<1> QED
  BY <1>1, IInvHolds, PTL

(***************************************************************************)
(* The delta and frame of reference classes deliver the last block exactly *)
(* when the differences their arithmetic shifts decode are narrow, at      *)
(* every width and register size, however the object was used before.      *)
(***************************************************************************)
THEOREM VectorRoundTrips == Spec => []RoundTripsExactlyWhenNarrow
<1>1. IInv => RoundTripsExactlyWhenNarrow
  <2> SUFFICES ASSUME IInv, out # Nothing, scheme # "rle"
               PROVE  out = Block
                        <=> \A p \in 1 .. Len(Block) : DecodedSigned(p) => Narrow(Difference(p))
    BY DEF RoundTripsExactlyWhenNarrow
  <2>1. /\ TypeOK /\ scheme \in Schemes /\ isa \in Isas /\ held \in Seq(Word)
        /\ written # <<>> /\ Holds(scheme, isa, held, written)
        /\ out = VecDecode(scheme, isa, held, Len(Block))
    BY DEF IInv, TypeOK
  <2>2. written \in Seq(Seq(Word)) /\ Block = LastOf(written)
    BY <2>1, WrittenAreWords DEF Block, LastOf
  <2>3. CASE scheme = "delta"
    <3>1. out = Block <=> \/ Copied(isa, Len(Block))
                          \/ \A p \in 1 .. Len(Block) :
                               \/ ShiftsInZero(isa, Len(Block), p)
                               \/ Narrow(DeltaOf(isa, Block, p))
      BY <2>1, <2>2, <2>3, DecodeDelivers
    <3>2. \A p : /\ DecodedSigned(p) <=> /\ ~ Copied(isa, Len(Block))
                                         /\ ~ ShiftsInZero(isa, Len(Block), p)
                 /\ Difference(p) = DeltaOf(isa, Block, p)
      BY <2>3 DEF DecodedSigned, Difference
    <3> QED
      BY <3>1, <3>2
  <2>4. CASE scheme = "for"
    <3>1. out = Block
            <=> \A p \in 1 .. Len(Block) : Narrow(Wrap(Block[p] - Reference(isa, Block)))
      BY <2>1, <2>2, <2>4, DecodeDelivers
    <3>2. \A p : /\ DecodedSigned(p)
                 /\ Difference(p) = Wrap(Block[p] - Reference(isa, Block))
      BY <2>4 DEF DecodedSigned, Difference
    <3> QED
      BY <3>1, <3>2
  <2> QED
    BY <2>1, <2>3, <2>4 DEF Schemes
<1> QED
  BY <1>1, IInvHolds, PTL

(***************************************************************************)
(* A run length object delivers the last block exactly when every block    *)
(* since the last clean-up that was not empty has been cut off: some later *)
(* block asked AllocEncoded for no more elements.                          *)
(***************************************************************************)
THEOREM RleHeals == Spec => []RleHealsUnlessBlocksGrow
<1>1. IInv => RleHealsUnlessBlocksGrow
  <2> SUFFICES ASSUME IInv, out # Nothing, scheme = "rle"
               PROVE  out = Block <=> \A k \in 1 .. Len(written) - 1 : ~ Remains(k)
    BY DEF RleHealsUnlessBlocksGrow
  <2> DEFINE N == Len(written)
             s(k) == SlotsHeld(isa, Len(written[k]))
  <2>1. /\ TypeOK /\ scheme \in Schemes /\ isa \in Isas /\ held \in Seq(Word)
        /\ written # <<>> /\ Holds(scheme, isa, held, written)
        /\ out = VecDecode(scheme, isa, held, Len(Block))
    BY DEF IInv, TypeOK
  <2>2. written \in Seq(Seq(Word)) /\ Block = LastOf(written)
    BY <2>1, WrittenAreWords DEF Block, LastOf
  <2>3. out = Block <=> ~ StaleBefore(isa, written, SlotsHeld(isa, Len(Block)))
    BY <2>1, <2>2, DecodeDelivers
  <2>4. N \in Nat \ {0} /\ SlotsHeld(isa, Len(Block)) = s(N)
    BY <2>1, <2>2 DEF Block
  <2>5. \A k \in 1 .. N : s(k) \in Nat /\ RleSlots(isa, Len(written[k])) = 2 * s(k)
    <3> TAKE k \in 1 .. N
    <3>1. Len(written[k]) \in Nat
      BY <2>2
    <3> QED
      BY <2>1, <3>1, SlotsFacts
  <2>6. ASSUME NEW k \in 1 .. N - 1 PROVE Remains(k) <=> RemainsIn(isa, written, k)
    <3>1. k \in 1 .. N /\ \A j \in k + 1 .. N : j \in 1 .. N
      BY <2>4
    <3>2. \A j \in k + 1 .. N : RleSlots(isa, Len(written[j])) > RleSlots(isa, Len(written[k]))
                                  <=> s(j) > s(k)
      <4> HIDE DEF s
      <4> QED
        BY <2>5, <3>1
    <3> QED
      BY <3>2 DEF Remains, RemainsIn
  <2>7. ASSUME NEW k \in 1 .. N, RemainsIn(isa, written, k)
        PROVE  s(k) < s(N) <=> k \in 1 .. N - 1
    <3>1. CASE k = N
      BY <2>4, <2>5, <3>1
    <3>2. CASE k # N
      <4>1. N \in k + 1 .. N /\ k \in 1 .. N - 1
        BY <2>4, <3>2
      <4>2. s(N) > s(k)
        BY <2>7, <4>1 DEF RemainsIn
      <4> QED
        BY <2>4, <2>5, <4>1, <4>2
    <3> QED
      BY <3>1, <3>2
  <2>8. StaleBefore(isa, written, s(N)) <=> \E k \in 1 .. N : /\ RemainsIn(isa, written, k)
                                                              /\ s(k) < s(N)
    BY DEF StaleBefore
  <2>9. \A k \in 1 .. N - 1 : k \in 1 .. N
    BY <2>4
  <2> HIDE DEF s, N
  <2>10. StaleBefore(isa, written, s(N)) <=> \E k \in 1 .. N - 1 : Remains(k)
    BY <2>6, <2>7, <2>8, <2>9
  <2> QED
    BY <2>3, <2>4, <2>10 DEF N
<1> QED
  BY <1>1, IInvHolds, PTL

(***************************************************************************)
(* What a vectorised object stores for a block that is not empty is what   *)
(* the scalar codec pushes for it, after the room of a run length codec.   *)
(***************************************************************************)
THEOREM StoresAsScalar == Spec => []AgreesWithScalar
<1>1. IInv => AgreesWithScalar
  <2> SUFFICES ASSUME IInv, written # <<>>, Block # <<>>, ~ overrun
               PROVE  CASE scheme = "delta" -> Len(held) = Len(DeltaSymbols(Block))
                        [] scheme = "for"   -> held = ForSymbols(Block)
                        [] scheme = "rle"   ->
                             SubSeq(held, RleSlots(isa, Len(Block)) + 1, Len(held))
                               = RlePairs(Block)
    BY DEF AgreesWithScalar
  <2>1. /\ TypeOK /\ scheme \in Schemes /\ isa \in Isas /\ held \in Seq(Word)
        /\ Holds(scheme, isa, held, written)
    BY DEF IInv, TypeOK
  <2>2. Block \in Seq(Word) /\ Len(Block) \in Nat /\ Block = LastOf(written)
    BY <2>1, WrittenAreWords DEF Block, LastOf
  <2>3. CASE scheme = "delta"
    <3>1. held = VecDeltaSymbols(isa, Block)
      BY <2>2, <2>3, <2>1 DEF Holds
    <3>2. Len(VecDeltaSymbols(isa, Block)) = Len(Block)
      BY <2>1, <2>2, VecDeltaSymbolsAre
    <3>3. Len(DeltaSymbols(Block)) = Len(Block)
      BY <2>2, DeltaSymbolsType
    <3> QED
      BY <2>3, <3>1, <3>2, <3>3
  <2>4. CASE scheme = "for"
    <3>1. held = ForSymbols(Block)
      BY <2>2, <2>4, <2>1 DEF Holds
    <3> QED
      BY <2>4, <3>1
  <2>5. CASE scheme = "rle"
    <3> DEFINE h == SlotsHeld(isa, Len(Block))
               m == RunsOf(Block)
               pairs == PairsOf(Block)
               D == Int
    <3>1. h \in Nat /\ RleSlots(isa, Len(Block)) = 2 * h
      BY <2>1, <2>2, SlotsFacts
    <3>2. PICK pre : PairsIn(pre, h) /\ held = pre \o pairs
      BY <2>1, <2>2, <2>5 DEF Holds, PairsStored
    <3>3. PairsIn(pairs, m) /\ m \in Nat /\ m >= 1 /\ pairs = RlePairs(Block)
      BY <2>2, PairsOfFacts DEF PairsOf
    <3> HIDE DEF h, m, pairs
    <3>4. pre \in Seq(D) /\ Len(pre) = 2 * h /\ pairs \in Seq(D) /\ Len(pairs) = 2 * m
      BY <3>2, <3>3 DEF PairsIn
    <3> HIDE DEF D
    <3> DEFINE a == Len(pre) + 1
               z == Len(pre) + Len(pairs)
    <3>5. /\ a \in Len(pre) + 1 .. Len(pre) + Len(pairs)
          /\ z \in Len(pre) + 1 .. Len(pre) + Len(pairs)
          /\ a - Len(pre) = 1 /\ z - Len(pre) = Len(pairs)
          /\ a = 2 * h + 1
      BY <3>1, <3>3, <3>4
    <3>6. Len(held) = z
      BY <3>2, <3>4, ConcatProperties
    <3> HIDE DEF a, z
    <3>7. SubSeq(pre \o pairs, a, z) = SubSeq(pairs, a - Len(pre), z - Len(pre))
      BY <3>4, <3>5, SubSeqOfConcat2
    <3>8. SubSeq(pairs, 1, Len(pairs)) = pairs
      BY <3>4, SubSeqFull
    <3>9. SubSeq(held, RleSlots(isa, Len(Block)) + 1, Len(held)) = pairs
      BY <3>1, <3>2, <3>5, <3>6, <3>7, <3>8
    <3> QED
      BY <2>5, <3>3, <3>9
  <2> QED
    BY <2>1, <2>3, <2>4, <2>5 DEF Schemes
<1> QED
  BY <1>1, IInvHolds, PTL
===============================================================================

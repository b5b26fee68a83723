-------------------------- MODULE LogicalCodecsProofs --------------------------
(***************************************************************************)
(* Every array survives a DeltaCodec, a FORCodec and an RLECodec: at every *)
(* word width and at every length, what DecodeArray writes is what         *)
(* EncodeArray was given, wrapped differences included.  The last part is  *)
(* about the objects built from these codecs, bare and in cascades, and is *)
(* what the proofs of CodecClient and BenchComp share.                     *)
(***************************************************************************)
EXTENDS CodecObjects, TLAPS, SequenceTheorems, FiniteSetTheorems,
        WellFoundedInduction

(***************************************************************************)
(* The zigzag transform of the encoders is undone by the logical shift of  *)
(* the decoders, for each of the 2^w words.                                *)
(***************************************************************************)
LEMMA ZigzagRange == \A d \in Word : Zigzag(d) \in UWord
  BY HalfAssumption DEF Word, UWord, Zigzag, ToUnsigned, Wrap, Complement

\* The word (d << 1) ^ (d >> 31) is 2d for d >= 0 and -2d - 1 for d < 0.
LEMMA ZigzagValue ==
  \A d \in Word : Zigzag(d) = IF d >= 0 THEN 2 * d ELSE -2 * d - 1
  BY HalfAssumption DEF Word, Zigzag, ToUnsigned, Wrap, Complement

\* (z >> 1) ^ -(z & 1) undoes (d << 1) ^ (d >> 31) on every word.
THEOREM ZigzagRoundTrip == \A d \in Word : Unzigzag(Zigzag(d)) = d
<1> SUFFICES ASSUME NEW d \in Word PROVE Unzigzag(Zigzag(d)) = d
  OBVIOUS
<1>1. CASE d >= 0
  <2>1. Zigzag(d) = 2 * d
    BY <1>1, ZigzagValue
  <2>2. (2 * d) % 2 = 0 /\ (2 * d) \div 2 = d
    BY <1>1, HalfAssumption DEF Word
  <2> QED
    BY <2>1, <2>2, HalfAssumption DEF Unzigzag, ToSigned, Word
<1>2. CASE d < 0
  <2>1. Zigzag(d) = -2 * d - 1
    BY <1>2, ZigzagValue, HalfAssumption DEF Word
  <2>2. (-2 * d - 1) % 2 = 1 /\ (-2 * d - 1) \div 2 = -d - 1
    BY <1>2, HalfAssumption DEF Word
  <2> QED
    BY <1>2, <2>1, <2>2, HalfAssumption DEF Unzigzag, ToSigned, Word, Complement
<1> QED
  BY <1>1, <1>2, HalfAssumption DEF Word

\* The static_casts between int32_t and uint32_t are inverse to each other.
LEMMA CastRoundTrip == /\ \A u \in UWord : /\ ToSigned(u) \in Word
                                           /\ ToUnsigned(ToSigned(u)) = u
                       /\ \A v \in Word : ToUnsigned(v) \in UWord
  BY HalfAssumption DEF Word, UWord, ToSigned, ToUnsigned

(***************************************************************************)
(* One symbol of either codec: the difference of two words is recovered    *)
(* from its symbol by adding the subtrahend back, whether or not the       *)
(* subtraction wrapped.                                                    *)
(***************************************************************************)
LEMMA SymbolRecovered ==
  ASSUME NEW a \in Word, NEW b \in Word
  PROVE  /\ Symbol(a - b) \in Word
         /\ Wrap(Recover(Symbol(a - b)) + b) = a
<1> DEFINE d == Wrap(a - b)
<1>1. d \in Word
  BY HalfAssumption DEF Word, Wrap
<1>2. Wrap(d + b) = a
  BY HalfAssumption DEF Word, Wrap
<1>3. Zigzag(d) \in UWord
  BY <1>1, ZigzagRange
<1> HIDE DEF d
<1>4. Symbol(a - b) = ToSigned(Zigzag(d))
  BY DEF Symbol, d
<1>5. Recover(Symbol(a - b)) = d
  BY <1>1, <1>3, <1>4, CastRoundTrip, ZigzagRoundTrip DEF Recover
<1> QED
  BY <1>2, <1>3, <1>4, <1>5, CastRoundTrip

(***************************************************************************)
(* A set of natural numbers has a least element: the form in which the     *)
(* proofs below reason along an array.                                     *)
(***************************************************************************)
LEMMA LeastElement ==
  ASSUME NEW S \in SUBSET Nat, S # {}
  PROVE  \E m \in S : \A k \in S : m <= k
<1>1. PICK m \in S : \A k \in S : <<k, m>> \notin OpToRel(<, Nat)
  BY WFMin, NatLessThanWellFounded
<1>2. \A k \in S : ~ (k < m)
  BY <1>1 DEF OpToRel
<1> QED
  BY <1>2

(***************************************************************************)
(* Facts that hold at 0 and are handed on hold throughout.                 *)
(***************************************************************************)
LEMMA Onward ==
  ASSUME NEW n \in Nat, NEW P, 0 \in P, \A k \in 1 .. n : k - 1 \in P => k \in P
  PROVE  \A k \in 0 .. n : k \in P
<1> DEFINE missing == {k \in 0 .. n : k \notin P}
<1> SUFFICES ASSUME missing # {} PROVE FALSE
  OBVIOUS
<1>1. missing \in SUBSET Nat
  OBVIOUS
<1> HIDE DEF missing
<1>2. PICK m \in missing : \A k \in missing : m <= k
  BY <1>1, LeastElement
<1> USE DEF missing
<1>3. m \in 1 .. n /\ m - 1 \in 0 .. n /\ m - 1 \notin missing
  BY <1>2
<1> QED
  BY <1>2, <1>3

(***************************************************************************)
(* A loop that computes each place from one of lower rank, if from any,    *)
(* computes something: solutions for the lower ranks extend.               *)
(***************************************************************************)
Solves(f, S, D, base, from, step) ==
  /\ f \in [S -> D]
  /\ \A p \in S : f[p] = step[p][IF from[p] \in S THEN f[from[p]] ELSE base]

LEMMA RecursionHasSolution ==
  ASSUME NEW S, NEW D, NEW n \in Nat, NEW rank \in [S -> 1 .. n], NEW base \in D,
         NEW from, NEW step \in [S -> [D -> D]],
         \A p \in S : from[p] \in S => rank[from[p]] < rank[p]
  PROVE  \E f : Solves(f, S, D, base, from, step)
<1> DEFINE value(f, p) == step[p][IF from[p] \in S THEN f[from[p]] ELSE base]
           solved == {k \in 0 .. n : \E f \in [S -> D] :
                        \A p \in S : rank[p] <= k => f[p] = value(f, p)}
<1>1. 0 \in solved
  <2> DEFINE f == [p \in S |-> base]
  <2>1. f \in [S -> D]
    OBVIOUS
  <2>2. \A p \in S : rank[p] <= 0 => f[p] = value(f, p)
    OBVIOUS
  <2> HIDE DEF value, f
  <2>3. \E g \in [S -> D] : \A p \in S : rank[p] <= 0 => g[p] = value(g, p)
    BY <2>1, <2>2
  <2>4. 0 \in 0 .. n
    OBVIOUS
  <2> QED
    BY <2>3, <2>4
<1>2. ASSUME NEW k \in 1 .. n, k - 1 \in solved PROVE k \in solved
  <2>1. PICK f \in [S -> D] : \A p \in S : rank[p] <= k - 1 => f[p] = value(f, p)
    BY <1>2
  <2> DEFINE g == [p \in S |-> IF rank[p] = k THEN value(f, p) ELSE f[p]]
  <2>2. \A p \in S : value(f, p) \in D
    OBVIOUS
  <2>3. g \in [S -> D]
    BY <2>2
  <2>4. ASSUME NEW p \in S, rank[p] <= k PROVE g[p] = value(g, p)
    <3>1. from[p] \in S => g[from[p]] = f[from[p]]
      BY <2>4
    <3>2. value(g, p) = value(f, p)
      BY <3>1
    <3>3. CASE rank[p] = k
      BY <3>2, <3>3
    <3>4. CASE rank[p] # k
      <4>1. rank[p] <= k - 1 /\ g[p] = f[p]
        BY <2>4, <3>4
      <4> QED
        BY <2>1, <3>2, <4>1
    <3> QED
      BY <3>3, <3>4
  <2> HIDE DEF g, value
  <2>5. k \in 0 .. n
    OBVIOUS
  <2> QED
    BY <2>3, <2>4, <2>5
<1>3. n \in solved
  <2> HIDE DEF solved
  <2>1. \A k \in 0 .. n : k \in solved
    BY <1>1, <1>2, Onward
  <2> QED
    BY <2>1
<1>4. PICK f \in [S -> D] : \A p \in S : rank[p] <= n => f[p] = value(f, p)
  BY <1>3
<1> QED
  BY <1>4 DEF Solves

(***************************************************************************)
(* The symbols of an array are words, one per value.                       *)
(***************************************************************************)
LEMMA DeltaSymbolsType ==
  ASSUME NEW in \in Seq(Word)
  PROVE  DeltaSymbols(in) \in Seq(Word) /\ Len(DeltaSymbols(in)) = Len(in)
<1>1. \A i \in 1 .. Len(in) :
        (IF i = 1 THEN in[1] ELSE Symbol(in[i] - in[i - 1])) \in Word
  <2> SUFFICES ASSUME NEW i \in 1 .. Len(in), i # 1
               PROVE  Symbol(in[i] - in[i - 1]) \in Word
    OBVIOUS
  <2>1. in[i] \in Word /\ in[i - 1] \in Word
    OBVIOUS
  <2> QED
    BY <2>1, SymbolRecovered
<1> QED
  BY <1>1 DEF DeltaSymbols

\* Any word read as a symbol stands for a word, and sums stay words.
LEMMA RecoverType ==
  /\ \A e \in Word : Recover(e) \in Word
  /\ \A a, b \in Word : Wrap(a + b) \in Word
<1>1. ASSUME NEW u \in UWord PROVE Unzigzag(u) \in Word
  <2>1. u \div 2 \in 0 .. Half - 1
    BY HalfAssumption DEF UWord
  <2> QED
    BY <2>1, HalfAssumption DEF Unzigzag, ToSigned, Complement, Word
<1>2. \A e \in Word : Recover(e) \in Word
  BY <1>1, CastRoundTrip DEF Recover
<1> QED
  BY <1>2, HalfAssumption DEF Word, Wrap

(***************************************************************************)
(* The decoding loop of a DeltaCodec computes words, one from the one      *)
(* before, for as many values as it is asked and has symbols for.  A       *)
(* solution of the equations exists at every length: else there would be a *)
(* least length without one, and the solution before extends to it.        *)
(***************************************************************************)
DecodesTo(f, held, n) ==
  /\ f \in [1 .. n -> Word]
  /\ \A i \in 1 .. n :
       f[i] = IF i = 1 THEN held[1] ELSE Wrap(Recover(held[i]) + f[i - 1])

LEMMA DeltaDecodeIs ==
  ASSUME NEW held \in Seq(Word), NEW n \in Nat, n <= Len(held)
  PROVE  DecodesTo(DeltaDecode(held, n), held, n)
<1> DEFINE stuck == {k \in 0 .. n : ~ \E f : DecodesTo(f, held, k)}
<1>1. \A i \in 1 .. n : held[i] \in Word
  BY ElementOfSeq
<1>2. stuck = {}
  <2> SUFFICES ASSUME stuck # {} PROVE FALSE
    OBVIOUS
  <2> stuck \in SUBSET Nat
    OBVIOUS
  <2> HIDE DEF stuck
  <2>1. PICK k \in stuck : \A j \in stuck : k <= j
    BY LeastElement
  <2> USE DEF stuck
  <2>2. k \in 0 .. n /\ ~ \E f : DecodesTo(f, held, k)
    OBVIOUS
  <2>3. k # 0
    <3>1. DecodesTo([i \in 1 .. 0 |-> 0], held, 0)
      BY DEF DecodesTo
    <3> QED
      BY <2>2, <3>1
  <2>4. k - 1 \in 0 .. n /\ k - 1 \notin stuck
    BY <2>1, <2>2, <2>3
  <2>5. PICK f : DecodesTo(f, held, k - 1)
    BY <2>4
  <2> DEFINE next == IF k = 1 THEN held[1] ELSE Wrap(Recover(held[k]) + f[k - 1])
             g == [i \in 1 .. k |-> IF i = k THEN next ELSE f[i]]
  <2>6. next \in Word
    <3>1. held[1] \in Word /\ held[k] \in Word
      BY <1>1, <2>2, <2>3
    <3>2. k # 1 => f[k - 1] \in Word
      BY <2>2, <2>3, <2>5 DEF DecodesTo
    <3> QED
      BY <3>1, <3>2, RecoverType
  <2>7. \A i \in 1 .. k : g[i] \in Word
    BY <2>2, <2>5, <2>6 DEF DecodesTo
  <2>8. ASSUME NEW i \in 1 .. k
        PROVE  g[i] = IF i = 1 THEN held[1] ELSE Wrap(Recover(held[i]) + g[i - 1])
    <3>1. CASE i = k
      <4>1. k # 1 => g[k - 1] = f[k - 1]
        BY <2>2, <2>3
      <4> QED
        BY <3>1, <4>1
    <3>2. CASE i # k
      <4>1. i \in 1 .. k - 1 /\ (i # 1 => i - 1 \in 1 .. k - 1)
        BY <2>2, <3>2
      <4>2. f[i] = IF i = 1 THEN held[1] ELSE Wrap(Recover(held[i]) + f[i - 1])
        BY <2>5, <4>1 DEF DecodesTo
      <4>3. g[i] = f[i] /\ (i # 1 => g[i - 1] = f[i - 1])
        BY <2>2, <3>2, <4>1
      <4> QED
        BY <4>2, <4>3
    <3> QED
      BY <3>1, <3>2
  <2>9. DecodesTo(g, held, k)
    BY <2>7, <2>8 DEF DecodesTo
  <2> QED
    BY <2>2, <2>9
<1>3. PICK f : DecodesTo(f, held, n)
  <2>1. n \in 0 .. n
    OBVIOUS
  <2> QED
    BY <1>2, <2>1
<1> DEFINE Step(g) == [i \in 1 .. n |->
              IF i = 1 THEN held[1] ELSE Wrap(Recover(held[i]) + g[i - 1])]
           out == CHOOSE g : g = Step(g)
<1>4. DeltaDecode(held, n) = out
  BY DEF DeltaDecode
<1>5. f = Step(f)
  <2>1. f = [i \in 1 .. n |-> f[i]]
    BY <1>3 DEF DecodesTo
  <2>2. \A i \in 1 .. n :
          f[i] = IF i = 1 THEN held[1] ELSE Wrap(Recover(held[i]) + f[i - 1])
    BY <1>3 DEF DecodesTo
  <2> QED
    BY <2>1, <2>2, Zenon
<1>6. out = Step(out)
  BY <1>5
<1> HIDE DEF out
<1>7. ASSUME NEW i \in 1 .. n
      PROVE  out[i] = IF i = 1 THEN held[1] ELSE Wrap(Recover(held[i]) + out[i - 1])
  <2>1. out[i] = Step(out)[i]
    BY <1>6
  <2> QED
    BY <2>1
<1>8. DOMAIN out = 1 .. n /\ out = [i \in 1 .. n |-> out[i]]
  BY <1>6
<1> HIDE DEF Step
<1>9. \A i \in 1 .. n : out[i] = f[i]
  <2> DEFINE differ == {i \in 1 .. n : out[i] # f[i]}
  <2> SUFFICES ASSUME differ # {} PROVE FALSE
    OBVIOUS
  <2> differ \in SUBSET Nat
    OBVIOUS
  <2> HIDE DEF differ
  <2>1. PICK m \in differ : \A k \in differ : m <= k
    BY LeastElement
  <2> USE DEF differ
  <2>2. m \in 1 .. n /\ out[m] # f[m]
    OBVIOUS
  <2>3. f[m] = IF m = 1 THEN held[1] ELSE Wrap(Recover(held[m]) + f[m - 1])
    BY <1>3, <2>2 DEF DecodesTo
  <2>4. CASE m = 1
    BY <1>7, <2>2, <2>3, <2>4
  <2>5. CASE m # 1
    <3>1. m - 1 \in 1 .. n /\ m - 1 \notin differ
      BY <2>1, <2>2, <2>5
    <3>2. out[m - 1] = f[m - 1]
      BY <3>1
    <3> QED
      BY <1>7, <2>2, <2>3, <2>5, <3>2
  <2> QED
    BY <2>4, <2>5
<1>10. out = f
  BY <1>3, <1>8, <1>9 DEF DecodesTo
<1> QED
  BY <1>3, <1>4, <1>10

(***************************************************************************)
(* DecodeArray of a DeltaCodec writes the array whose symbols are in       *)
(* front of compressed_data, whatever follows them and however many values *)
(* are asked for: decoding is undone value by value, so it cannot differ   *)
(* for a first time.                                                       *)
(***************************************************************************)
THEOREM DeltaPrefix ==
  ASSUME NEW in \in Seq(Word), NEW rest \in Seq(Word),
         NEW n \in Nat, n <= Len(DeltaSymbols(in) \o rest)
  PROVE  LET out == DeltaDecode(DeltaSymbols(in) \o rest, n)
         IN  /\ out \in Seq(Word) /\ Len(out) = n
             /\ \A i \in 1 .. n : i <= Len(in) => out[i] = in[i]
<1> DEFINE held == DeltaSymbols(in) \o rest
           out == DeltaDecode(held, n)
<1>1. /\ held \in Seq(Word) /\ Len(in) \in Nat
      /\ \A i \in 1 .. Len(in) :
           held[i] = IF i = 1 THEN in[1] ELSE Symbol(in[i] - in[i - 1])
  BY DeltaSymbolsType DEF DeltaSymbols
<1> HIDE DEF held
<1>2. DecodesTo(out, held, n)
  BY <1>1, DeltaDecodeIs DEF held
<1> HIDE DEF out
<1>3. out \in Seq(Word) /\ Len(out) = n
  BY <1>2, LenProperties DEF DecodesTo
<1>4. \A i \in 1 .. n : i <= Len(in) => out[i] = in[i]
  <2> DEFINE differ == {i \in 1 .. n : i <= Len(in) /\ out[i] # in[i]}
  <2> SUFFICES ASSUME differ # {} PROVE FALSE
    OBVIOUS
  <2> differ \in SUBSET Nat
    OBVIOUS
  <2> HIDE DEF differ
  <2>1. PICK m \in differ : \A k \in differ : m <= k
    BY LeastElement
  <2> USE DEF differ
  <2>2. m \in 1 .. n /\ m \in 1 .. Len(in) /\ out[m] # in[m]
    BY <1>1
  <2>3. out[m] = IF m = 1 THEN held[1] ELSE Wrap(Recover(held[m]) + out[m - 1])
    BY <1>2, <2>2 DEF DecodesTo
  <2>4. CASE m = 1
    BY <1>1, <2>2, <2>3, <2>4
  <2>5. CASE m # 1
    <3>1. m - 1 \in 1 .. n /\ m - 1 \in 1 .. Len(in) /\ m - 1 \notin differ
      BY <1>1, <2>1, <2>2, <2>5
    <3>2. out[m - 1] = in[m - 1]
      BY <1>1, <3>1
    <3>3. held[m] = Symbol(in[m] - in[m - 1])
      BY <1>1, <2>2, <2>5
    <3>4. in[m] \in Word /\ in[m - 1] \in Word
      BY <2>2, <3>1, ElementOfSeq
    <3> QED
      BY <2>2, <2>3, <2>5, <3>2, <3>3, <3>4, SymbolRecovered
  <2> QED
    BY <2>4, <2>5
<1> QED
  BY <1>3, <1>4 DEF out, held

(***************************************************************************)
(* So an encoded array survives: as many values are asked for as there    *)
(* are symbols of it in front.                                             *)
(***************************************************************************)
THEOREM DeltaRoundTrip ==
  ASSUME NEW in \in Seq(Word), NEW rest \in Seq(Word)
  PROVE  DeltaDecode(DeltaSymbols(in) \o rest, Len(in)) = in
<1> DEFINE out == DeltaDecode(DeltaSymbols(in) \o rest, Len(in))
<1>1. Len(in) \in Nat /\ Len(in) <= Len(DeltaSymbols(in) \o rest)
  BY DeltaSymbolsType
<1>2. out \in Seq(Word) /\ Len(out) = Len(in) /\ \A i \in 1 .. Len(in) : out[i] = in[i]
  BY <1>1, DeltaPrefix
<1> HIDE DEF out
<1>3. out = in
  BY <1>2, SeqEqual
<1> QED
  BY <1>3 DEF out

(***************************************************************************)
(* The reference of a FORCodec is one of the values, and the minimum.      *)
(***************************************************************************)
LEMMA ReferenceType ==
  ASSUME NEW in \in Seq(Word), in # <<>>
  PROVE  Min(ToSet(in)) \in Word
<1> DEFINE shifted == {in[i] + Half : i \in 1 .. Len(in)}
<1>1. \A i \in 1 .. Len(in) : in[i] \in Word
  BY ElementOfSeq
<1>2. shifted \in SUBSET Nat
  BY <1>1, HalfAssumption DEF Word
<1>3. Len(in) \in Nat \ {0} /\ ToSet(in) = {in[i] : i \in 1 .. Len(in)}
  BY EmptySeq, LenProperties DEF ToSet
<1>4. shifted # {}
  <2>1. 1 \in 1 .. Len(in)
    BY <1>3
  <2>2. in[1] + Half \in shifted
    BY <2>1
  <2> QED
    BY <2>2
<1> HIDE DEF shifted
<1>5. PICK m \in shifted : \A k \in shifted : m <= k
  BY <1>2, <1>4, LeastElement
<1>6. PICK i \in 1 .. Len(in) : m = in[i] + Half
  BY <1>5 DEF shifted
<1>7. in[i] \in ToSet(in) /\ \A y \in ToSet(in) : in[i] <= y
  <2> SUFFICES ASSUME NEW j \in 1 .. Len(in) PROVE in[i] <= in[j]
    BY <1>3
  <2>1. m <= in[j] + Half
    BY <1>5 DEF shifted
  <2> QED
    BY <1>1, <1>6, <2>1, HalfAssumption DEF Word
<1>8. Min(ToSet(in)) \in ToSet(in)
  BY <1>7 DEF Min
<1> QED
  BY <1>1, <1>3, <1>8

\* FORCodec turns a block of n words into n + 1 words.
LEMMA ForSymbolsType ==
  ASSUME NEW in \in Seq(Word), in # <<>>
  PROVE  /\ ForSymbols(in) \in Seq(Word)
         /\ Len(ForSymbols(in)) = Len(in) + 1
         /\ ForSymbols(in)[1] = Min(ToSet(in))
         /\ \A i \in 1 .. Len(in) :
              ForSymbols(in)[i + 1] = Symbol(in[i] - Min(ToSet(in)))
<1> DEFINE r == Min(ToSet(in))
           offsets == [i \in 1 .. Len(in) |-> Symbol(in[i] - r)]
<1>1. r \in Word
  BY ReferenceType
<1> HIDE DEF r
<1>2. \A i \in 1 .. Len(in) : Symbol(in[i] - r) \in Word
  BY <1>1, SymbolRecovered, ElementOfSeq
<1>3. offsets \in Seq(Word) /\ Len(offsets) = Len(in) /\ Len(in) \in Nat
  BY <1>2
<1>4. ForSymbols(in) = <<r>> \o offsets
  BY DEF ForSymbols, r
<1>5. <<r>> \in Seq(Word) /\ Len(<<r>>) = 1 /\ <<r>>[1] = r
  BY <1>1
<1>6. \A i \in 1 .. Len(in) : offsets[i] = Symbol(in[i] - r)
  OBVIOUS
<1> HIDE DEF offsets
<1>7. /\ ForSymbols(in) \in Seq(Word)
      /\ Len(ForSymbols(in)) = Len(in) + 1
      /\ \A i \in 1 .. Len(in) + 1 : ForSymbols(in)[i] =
            IF i <= 1 THEN r ELSE offsets[i - 1]
  BY <1>3, <1>4, <1>5
<1>8. ASSUME NEW i \in 1 .. Len(in)
      PROVE  ForSymbols(in)[i + 1] = offsets[i]
  BY <1>3, <1>7
<1> QED
  BY <1>3, <1>6, <1>7, <1>8 DEF r

\* The decoding loop of a FORCodec computes words, as many as it is asked for.
LEMMA ForDecodeIs ==
  ASSUME NEW held \in Seq(Word), NEW n \in Nat, n + 1 <= Len(held)
  PROVE  LET out == ForDecode(held, n)
         IN  /\ out \in Seq(Word) /\ Len(out) = n
             /\ \A i \in 1 .. n : out[i] = Wrap(Recover(held[i + 1]) + held[1])
<1>1. ASSUME NEW i \in 1 .. n PROVE Wrap(Recover(held[i + 1]) + held[1]) \in Word
  <2>1. i + 1 \in 1 .. Len(held) /\ 1 \in 1 .. Len(held)
    OBVIOUS
  <2>2. held[i + 1] \in Word /\ held[1] \in Word
    BY <2>1, ElementOfSeq
  <2> QED
    BY <2>2, RecoverType
<1> QED
  BY <1>1 DEF ForDecode

(***************************************************************************)
(* The same of a FORCodec: the reference and the offsets in front of       *)
(* compressed_data are decoded, whatever follows them.                     *)
(***************************************************************************)
THEOREM ForPrefix ==
  ASSUME NEW in \in Seq(Word), in # <<>>, NEW rest \in Seq(Word),
         NEW n \in Nat, n + 1 <= Len(ForSymbols(in) \o rest)
  PROVE  LET out == ForDecode(ForSymbols(in) \o rest, n)
         IN  /\ out \in Seq(Word) /\ Len(out) = n
             /\ \A i \in 1 .. n : i <= Len(in) => out[i] = in[i]
<1> DEFINE held == ForSymbols(in) \o rest
           out == ForDecode(held, n)
           r == Min(ToSet(in))
<1>1. r \in Word /\ Len(in) \in Nat
  BY ReferenceType
<1>2. /\ held \in Seq(Word) /\ held[1] = r
      /\ \A i \in 1 .. Len(in) : held[i + 1] = Symbol(in[i] - r)
  BY ForSymbolsType
<1> HIDE DEF held, r
<1>3. /\ out \in Seq(Word) /\ Len(out) = n
      /\ \A i \in 1 .. n : out[i] = Wrap(Recover(held[i + 1]) + held[1])
  BY <1>2, ForDecodeIs DEF held
<1> HIDE DEF out
<1>4. ASSUME NEW i \in 1 .. n, i <= Len(in) PROVE out[i] = in[i]
  <2>1. i \in 1 .. Len(in)
    BY <1>1, <1>4
  <2>2. in[i] \in Word /\ held[i + 1] = Symbol(in[i] - r) /\ held[1] = r
    BY <1>2, <2>1, ElementOfSeq
  <2> QED
    BY <1>1, <1>3, <2>2, SymbolRecovered
<1> QED
  BY <1>3, <1>4 DEF out, held

(***************************************************************************)
(* So an encoded array survives a FORCodec too.                            *)
(***************************************************************************)
THEOREM ForRoundTrip ==
  ASSUME NEW in \in Seq(Word), in # <<>>, NEW rest \in Seq(Word)
  PROVE  ForDecode(ForSymbols(in) \o rest, Len(in)) = in
<1> DEFINE out == ForDecode(ForSymbols(in) \o rest, Len(in))
<1>1. Len(in) \in Nat /\ Len(in) + 1 <= Len(ForSymbols(in) \o rest)
  BY ForSymbolsType
<1>2. out \in Seq(Word) /\ Len(out) = Len(in) /\ \A i \in 1 .. Len(in) : out[i] = in[i]
  BY <1>1, ForPrefix
<1> HIDE DEF out
<1>3. out = in
  BY <1>2, SeqEqual
<1> QED
  BY <1>3 DEF out
-------------------------------------------------------------------------------
(***************************************************************************)
(* FlattenSeq is the last value of any solution of its equations: two      *)
(* solutions would differ first somewhere.                                 *)
(***************************************************************************)
Flattens(f, seqs, n) ==
  /\ n \in Nat \ {0} /\ Len(seqs) = n
  /\ f = [i \in 1 .. n |-> f[i]]
  /\ \A i \in 1 .. n : f[i] = IF i = 1 THEN seqs[i] ELSE f[i - 1] \o seqs[i]

LEMMA FlattenIs ==
  ASSUME NEW f, NEW seqs, NEW n, Flattens(f, seqs, n)
  PROVE  FlattenSeq(seqs) = f[n]
<1> USE DEF Flattens
<1> DEFINE Step(g) == [i \in 1 .. n |->
                         IF i = 1 THEN seqs[i] ELSE g[i - 1] \o seqs[i]]
           flat == CHOOSE g : g = Step(g)
<1>1. FlattenSeq(seqs) = flat[n]
  BY DEF FlattenSeq
<1>2. f = Step(f)
  OBVIOUS
<1>3. flat = Step(flat)
  BY <1>2
<1> HIDE DEF flat
<1>4. ASSUME NEW g, g = Step(g), NEW i \in 1 .. n
      PROVE  g[i] = IF i = 1 THEN seqs[i] ELSE g[i - 1] \o seqs[i]
  <2>1. g[i] = Step(g)[i]
    BY <1>4
  <2> QED
    BY <2>1
<1> HIDE DEF Step
<1>5. \A i \in 1 .. n : flat[i] = f[i]
  <2> DEFINE differ == {i \in 1 .. n : flat[i] # f[i]}
  <2> SUFFICES ASSUME differ # {} PROVE FALSE
    OBVIOUS
  <2> differ \in SUBSET Nat
    OBVIOUS
  <2> HIDE DEF differ
  <2>1. PICK k \in differ : \A j \in differ : k <= j
    BY LeastElement
  <2> USE DEF differ
  <2>2. k \in 1 .. n /\ flat[k] # f[k]
    OBVIOUS
  <2>3. CASE k = 1
    BY <1>2, <1>3, <1>4, <2>2, <2>3
  <2>4. CASE k # 1
    <3>1. k - 1 \in 1 .. n /\ k - 1 \notin differ
      BY <2>1, <2>2, <2>4
    <3>2. flat[k - 1] = f[k - 1]
      BY <3>1
    <3>3. /\ flat[k] = flat[k - 1] \o seqs[k]
          /\ f[k] = f[k - 1] \o seqs[k]
      BY <1>2, <1>3, <1>4, <2>2, <2>4
    <3> QED
      BY <2>2, <3>2, <3>3
  <2> QED
    BY <2>3, <2>4
<1> QED
  BY <1>1, <1>5

(***************************************************************************)
(* The rank of an element in a finite set of positions numbers the set     *)
(* from 1 on, in increasing order.                                         *)
(***************************************************************************)
Rank(S, i) == Cardinality({j \in S : j <= i})

LEMMA RankFacts ==
  ASSUME NEW n \in Nat, NEW S \in SUBSET (1 .. n)
  PROVE  /\ Cardinality(S) \in 0 .. n
         /\ \A i \in S : Rank(S, i) \in 1 .. Cardinality(S)
         /\ \A i, k \in S : i < k => Rank(S, i) < Rank(S, k)
         /\ \A k \in 1 .. Cardinality(S) : \E i \in S : Rank(S, i) = k
<1>1. IsFiniteSet(1 .. n) /\ Cardinality(1 .. n) = n
  BY FS_Interval
<1>2. IsFiniteSet(S) /\ Cardinality(S) \in 0 .. n
  <2>1. IsFiniteSet(S) /\ Cardinality(S) <= n
    BY <1>1, FS_Subset
  <2> QED
    BY <2>1, FS_CardinalityType
<1> DEFINE upto(i) == {j \in S : j <= i}
<1>3. ASSUME NEW i \in S
      PROVE  IsFiniteSet(upto(i)) /\ Cardinality(upto(i)) \in 1 .. Cardinality(S)
  <2>1. upto(i) \in SUBSET S /\ i \in upto(i)
    OBVIOUS
  <2>2. IsFiniteSet(upto(i)) /\ Cardinality(upto(i)) <= Cardinality(S)
    BY <1>2, <2>1, FS_Subset
  <2>3. Cardinality(upto(i)) \in Nat /\ Cardinality(upto(i)) # 0
    BY <2>1, <2>2, FS_CardinalityType, FS_EmptySet
  <2> QED
    BY <1>2, <2>2, <2>3
<1>4. ASSUME NEW i \in S, NEW k \in S, i < k
      PROVE  Cardinality(upto(i)) < Cardinality(upto(k))
  <2>1. upto(i) \in SUBSET upto(k) /\ upto(i) # upto(k)
    <3>1. k \in upto(k) /\ k \notin upto(i)
      BY <1>4
    <3>2. \A j \in upto(i) : j \in S /\ j <= k
      BY <1>4
    <3> QED
      BY <3>1, <3>2
  <2>2. /\ Cardinality(upto(i)) <= Cardinality(upto(k))
        /\ Cardinality(upto(k)) # Cardinality(upto(i))
    BY <1>3, <2>1, FS_Subset
  <2> QED
    BY <1>3, <2>2
<1>5. ASSUME NEW k \in 1 .. Cardinality(S)
      PROVE  \E i \in S : Cardinality(upto(i)) = k
  <2> DEFINE rank == [i \in S |-> Cardinality(upto(i))]
             T == 1 .. Cardinality(S)
  <2>1. rank \in [S -> T]
    BY <1>3
  <2>2. \A i, j \in S : i # j => rank[i] # rank[j]
    <3>1. ASSUME NEW i \in S, NEW j \in S, i # j
          PROVE  Cardinality(upto(i)) # Cardinality(upto(j))
      <4>1. CASE i < j
        BY <4>1, <1>3, <1>4
      <4>2. CASE j < i
        BY <4>2, <1>3, <1>4
      <4> QED
        BY <3>1, <4>1, <4>2
    <3> HIDE DEF upto
    <3> QED
      BY <3>1
  <2>3. IsFiniteSet(T) /\ Cardinality(T) = Cardinality(S)
    BY <1>2, FS_Interval
  <2> HIDE DEF rank, T
  <2>4. rank \in Injection(S, T)
    BY <2>1, <2>2 DEF Injection, IsInjective
  <2>5. rank \in Surjection(S, T)
    BY <2>3, <2>4, FS_Injection
  <2>6. \E i \in S : rank[i] = k
    BY <2>5 DEF Surjection, T
  <2> QED
    BY <2>6 DEF rank
<1> QED
  BY <1>2, <1>3, <1>4, <1>5 DEF Rank

(***************************************************************************)
(* Choosing the element of each rank lists a set of positions, all of it,  *)
(* in increasing order.                                                    *)
(***************************************************************************)
Listed(S) == [k \in 1 .. Cardinality(S) |-> CHOOSE i \in S : Rank(S, i) = k]

LEMMA ListedInOrder ==
  ASSUME NEW n \in Nat, NEW S \in SUBSET (1 .. n)
  PROVE  LET m == Cardinality(S)
             R == Listed(S)
         IN  /\ m \in 0 .. n
             /\ R \in Seq(1 .. n) /\ Len(R) = m
             /\ \A k \in 1 .. m : R[k] \in S /\ R[k] \in 1 .. n
             /\ \A k, l \in 1 .. m : k < l => R[k] < R[l]
             /\ \A i \in S : \E k \in 1 .. m : R[k] = i
<1> DEFINE m == Cardinality(S)
           R == Listed(S)
<1>1. /\ m \in 0 .. n
      /\ \A i \in S : Rank(S, i) \in 1 .. m
      /\ \A i, k \in S : i < k => Rank(S, i) < Rank(S, k)
      /\ \A k \in 1 .. m : \E i \in S : Rank(S, i) = k
  BY RankFacts
<1>2. /\ \A k \in 1 .. m : R[k] \in S /\ Rank(S, R[k]) = k
      /\ R = [k \in 1 .. m |-> R[k]]
  BY <1>1 DEF Listed
<1> HIDE DEF m, R
<1>3. \A i \in S : i \in Int /\ i \in 1 .. n
  OBVIOUS
<1>4. \A k \in 1 .. m : R[k] \in 1 .. n /\ R[k] \in Int
  BY <1>2, <1>3
<1>5. R \in Seq(1 .. n) /\ Len(R) = m
  <2>1. m \in Nat
    BY <1>1
  <2>2. R \in [1 .. m -> 1 .. n]
    BY <1>2, <1>4
  <2> QED
    BY <2>1, <2>2, LenProperties
<1>6. ASSUME NEW k \in 1 .. m, NEW l \in 1 .. m, k < l
      PROVE  R[k] < R[l]
  <2>1. R[k] \in S /\ R[l] \in S /\ Rank(S, R[k]) = k /\ Rank(S, R[l]) = l
    BY <1>2
  <2>2. R[l] < R[k] => l < k
    BY <1>1, <2>1
  <2>3. R[k] # R[l]
    BY <1>1, <1>6, <2>1
  <2> QED
    BY <1>1, <1>4, <1>6, <2>2, <2>3
<1>7. ASSUME NEW i \in S PROVE \E k \in 1 .. m : R[k] = i
  <2>1. Rank(S, i) \in 1 .. m
    BY <1>1
  <2>2. R[Rank(S, i)] \in S /\ Rank(S, R[Rank(S, i)]) = Rank(S, i)
    BY <1>2, <2>1
  <2>3. ASSUME NEW a \in S, Rank(S, a) = Rank(S, i)
        PROVE  a = i
    <3>1. ~ (a < i) /\ ~ (i < a)
      BY <1>1, <2>1, <2>3
    <3> QED
      BY <1>3, <3>1
  <2> QED
    BY <2>1, <2>2, <2>3
<1> QED
  BY <1>1, <1>2, <1>4, <1>5, <1>6, <1>7 DEF m, R

(***************************************************************************)
(* The positions at which the runs of an array begin, with the position    *)
(* beyond the array: they begin at 1, grow, and the values do not change   *)
(* from one to the next.                                                   *)
(***************************************************************************)
Bounds(in) == RunStarts(in) \o <<Len(in) + 1>>

NumRuns(in) == Len(RunStarts(in))

LEMMA BoundsFacts ==
  ASSUME NEW in \in Seq(Word), in # <<>>
  PROVE  /\ NumRuns(in) \in 1 .. Len(in)
         /\ Len(Bounds(in)) = NumRuns(in) + 1
         /\ Bounds(in)[1] = 1
         /\ Bounds(in)[NumRuns(in) + 1] = Len(in) + 1
         /\ \A k \in 1 .. NumRuns(in) :
              /\ Bounds(in)[k] \in 1 .. Len(in)
              /\ Bounds(in)[k + 1] \in 1 .. Len(in) + 1
              /\ Bounds(in)[k] < Bounds(in)[k + 1]
              /\ \A i \in Bounds(in)[k] .. Bounds(in)[k + 1] - 1 :
                   in[i] = in[Bounds(in)[k]]
<1> DEFINE n == Len(in)
           starts == {i \in 1 .. n : i = 1 \/ in[i] # in[i - 1]}
           m == Cardinality(starts)
           R == Listed(starts)
<1>1. n \in Nat /\ n >= 1 /\ 1 \in starts
  BY EmptySeq, LenProperties
<1>2. RunStarts(in) = R
  BY DEF RunStarts, Listed, Rank
<1>3. /\ starts \in SUBSET (1 .. n)
      /\ \A i \in starts : i \in 1 .. n /\ i \in Int
  BY <1>1
<1>4. \A i \in 1 .. n : i \notin starts => in[i] = in[i - 1] /\ i > 1
  OBVIOUS
<1> HIDE DEF starts, n
<1>5. /\ m \in 0 .. n
      /\ R \in Seq(1 .. n) /\ Len(R) = m
      /\ \A k \in 1 .. m : R[k] \in starts /\ R[k] \in 1 .. n
      /\ \A k, l \in 1 .. m : k < l => R[k] < R[l]
      /\ \A i \in starts : \E k \in 1 .. m : R[k] = i
  <2>1. starts \in SUBSET (1 .. n) /\ n \in Nat
    BY <1>1, <1>3
  <2> QED
    BY <2>1, ListedInOrder
<1> HIDE DEF R, m
<1>6. m \in 1 .. n /\ m \in Int /\ \A k \in 1 .. m : R[k] \in Int
  BY <1>1, <1>5
<1> DEFINE B == R \o <<n + 1>>
<1>10. Bounds(in) = B /\ NumRuns(in) = m
  BY <1>2, <1>5 DEF Bounds, NumRuns, n
<1>11. /\ Len(B) = m + 1 /\ B[m + 1] = n + 1
       /\ \A k \in 1 .. m : B[k] = R[k]
  BY <1>1, <1>5, <1>6
<1> HIDE DEF B
<1>12. B[1] = 1
  <2>1. PICK k \in 1 .. m : R[k] = 1
    BY <1>1, <1>5
  <2>2. 1 \in 1 .. m /\ R[1] \in 1 .. n
    BY <1>5, <1>6
  <2>3. k = 1
    BY <1>5, <1>6, <2>1, <2>2
  <2> QED
    BY <1>11, <2>1, <2>2, <2>3
<1>13. ASSUME NEW k \in 1 .. m
       PROVE  /\ B[k] \in 1 .. n
              /\ B[k + 1] \in 1 .. n + 1
              /\ B[k] < B[k + 1]
  <2>1. B[k] = R[k] /\ R[k] \in 1 .. n
    BY <1>5, <1>11
  <2>2. CASE k = m
    BY <1>1, <1>11, <2>1, <2>2
  <2>3. CASE k # m
    <3>1. k + 1 \in 1 .. m
      BY <1>6, <2>3
    <3>2. B[k + 1] = R[k + 1] /\ R[k + 1] \in 1 .. n /\ R[k] < R[k + 1]
      BY <1>5, <1>6, <1>11, <3>1
    <3> QED
      BY <2>1, <3>2, <1>1
  <2> QED
    BY <2>2, <2>3
<1>14. ASSUME NEW k \in 1 .. m
       PROVE  \A i \in B[k] .. B[k + 1] - 1 : in[i] = in[B[k]]
  <2> DEFINE differ == {i \in B[k] .. B[k + 1] - 1 : in[i] # in[B[k]]}
  <2> SUFFICES ASSUME differ # {} PROVE FALSE
    OBVIOUS
  <2>1. differ \in SUBSET Nat
    BY <1>13
  <2> HIDE DEF differ
  <2>2. PICK i \in differ : \A j \in differ : i <= j
    BY <2>1, LeastElement
  <2> USE DEF differ
  <2>3. i \in B[k] .. B[k + 1] - 1 /\ in[i] # in[B[k]]
    OBVIOUS
  <2>4. i \in 1 .. n /\ B[k] < i /\ i - 1 \in B[k] .. B[k + 1] - 1
    BY <1>1, <1>13, <2>3
  <2>5. in[i - 1] = in[B[k]]
    BY <2>2, <2>4
  <2>6. i \in starts
    BY <1>4, <2>3, <2>4, <2>5
  <2>7. PICK l \in 1 .. m : R[l] = i
    BY <1>5, <2>6
  <2>8. B[k] = R[k] /\ R[k] < R[l]
    BY <1>11, <2>4, <2>7
  <2>9. k < l
    <3>1. l < k => R[l] < R[k]
      BY <1>5
    <3> QED
      BY <1>6, <2>8, <3>1
  <2>10. k + 1 \in 1 .. m /\ B[k + 1] = R[k + 1]
    BY <1>6, <1>11, <2>9
  <2>11. R[k + 1] <= R[l]
    <3>1. k + 1 < l => R[k + 1] < R[l]
      BY <1>5, <2>10
    <3> QED
      BY <1>6, <2>9, <2>10, <3>1
  <2> QED
    BY <1>6, <2>3, <2>7, <2>10, <2>11
<1> QED
  BY <1>6, <1>10, <1>11, <1>12, <1>13, <1>14 DEF n

\* A sequence is the concatenation of two when it agrees with them place by place.
LEMMA ConcatIs ==
  ASSUME NEW S, NEW s \in Seq(S), NEW t \in Seq(S), NEW u \in Seq(S),
         Len(u) = Len(s) + Len(t),
         \A i \in 1 .. Len(s) : u[i] = s[i],
         \A i \in 1 .. Len(t) : u[Len(s) + i] = t[i]
  PROVE  u = s \o t
<1>1. s \o t \in Seq(S) /\ Len(s \o t) = Len(s) + Len(t)
  OBVIOUS
<1>2. ASSUME NEW i \in 1 .. Len(u) PROVE u[i] = (s \o t)[i]
  <2>1. CASE i <= Len(s)
    BY <2>1
  <2>2. CASE i > Len(s)
    <3>1. i - Len(s) \in 1 .. Len(t) /\ Len(s) + (i - Len(s)) = i
      BY <2>2
    <3> QED
      BY <2>2, <3>1
  <2> QED
    BY <2>1, <2>2
<1> QED
  BY <1>1, <1>2, SeqEqual

(***************************************************************************)
(* EncodeArray of an RLECodec pushes two words per run: the value, then    *)
(* the number of times it occurs.                                          *)
(***************************************************************************)
LEMMA RlePairsAre ==
  ASSUME NEW in \in Seq(Word), in # <<>>
  PROVE  /\ RlePairs(in) \in Seq(Int)
         /\ Len(RlePairs(in)) = 2 * NumRuns(in)
         /\ \A k \in 1 .. NumRuns(in) :
              /\ RlePairs(in)[2 * k - 1] = in[Bounds(in)[k]]
              /\ RlePairs(in)[2 * k] = Bounds(in)[k + 1] - Bounds(in)[k]
<1> DEFINE m == NumRuns(in)
           B == Bounds(in)
           seqs == [k \in 1 .. m |-> <<in[B[k]], B[k + 1] - B[k]>>]
           item(j) == IF j % 2 = 1 THEN in[B[(j + 1) \div 2]]
                      ELSE B[j \div 2 + 1] - B[j \div 2]
           upto(k) == [j \in 1 .. 2 * k |-> item(j)]
           f == [k \in 1 .. m |-> upto(k)]
<1>1. /\ m \in Nat \ {0} /\ Len(B) - 1 = m
      /\ \A k \in 1 .. m : in[B[k]] \in Int /\ B[k + 1] - B[k] \in Int
  <2>1. /\ m \in 1 .. Len(in) /\ Len(B) = m + 1
        /\ \A k \in 1 .. m : /\ B[k] \in 1 .. Len(in)
                             /\ B[k + 1] \in 1 .. Len(in) + 1
    BY BoundsFacts
  <2>2. \A i \in 1 .. Len(in) : in[i] \in Int
    BY ElementOfSeq, HalfAssumption DEF Word
  <2> HIDE DEF m, B
  <2> QED
    BY <2>1, <2>2
<1>2. RlePairs(in) = FlattenSeq(seqs)
  BY <1>1 DEF RlePairs, Bounds
<1> HIDE DEF m, B
<1>3. /\ \A k \in 1 .. m : item(2 * k - 1) = in[B[k]]
      /\ \A k \in 1 .. m : item(2 * k) = B[k + 1] - B[k]
  <2>1. ASSUME NEW k \in 1 .. m
        PROVE  /\ (2 * k - 1) % 2 = 1 /\ (2 * k - 1 + 1) \div 2 = k
               /\ (2 * k) % 2 # 1 /\ (2 * k) \div 2 = k
    BY <1>1
  <2> QED
    BY <2>1
<1>4. \A j \in 1 .. 2 * m : item(j) \in Int
  <2> TAKE j \in 1 .. 2 * m
  <2>1. CASE j % 2 = 1
    <3>1. (j + 1) \div 2 \in 1 .. m
      BY <1>1, <2>1
    <3> QED
      BY <1>1, <2>1, <3>1
  <2>2. CASE j % 2 # 1
    <3>1. j \div 2 \in 1 .. m
      BY <1>1, <2>2
    <3> QED
      BY <1>1, <2>2, <3>1
  <2> QED
    BY <2>1, <2>2
<1> HIDE DEF item
<1>5. ASSUME NEW k \in 1 .. m
      PROVE  /\ upto(k) \in Seq(Int) /\ Len(upto(k)) = 2 * k
             /\ \A j \in 1 .. 2 * k : upto(k)[j] = item(j)
  <2>1. 2 * k \in Nat /\ \A j \in 1 .. 2 * k : j \in 1 .. 2 * m
    BY <1>1
  <2> QED
    BY <1>4, <2>1
<1>6. ASSUME NEW k \in 1 .. m
      PROVE  /\ seqs[k] \in Seq(Int) /\ Len(seqs[k]) = 2
             /\ seqs[k][1] = item(2 * k - 1) /\ seqs[k][2] = item(2 * k)
  BY <1>1, <1>3
<1> HIDE DEF seqs, upto
<1>7. ASSUME NEW k \in 1 .. m
      PROVE  upto(k) = IF k = 1 THEN seqs[k] ELSE upto(k - 1) \o seqs[k]
  <2>1. CASE k = 1
    <3>1. upto(1) \in Seq(Int) /\ seqs[1] \in Seq(Int)
      BY <1>5, <1>6, <2>1
    <3>2. \A j \in 1 .. 2 : j = 1 \/ j = 2
      OBVIOUS
    <3>3. Len(upto(1)) = 2 /\ Len(seqs[1]) = 2
          /\ \A j \in 1 .. 2 : upto(1)[j] = seqs[1][j]
      BY <1>5, <1>6, <2>1, <3>2
    <3> QED
      BY <2>1, <3>1, <3>3, SeqEqual
  <2>2. CASE k # 1
    <3>1. k - 1 \in 1 .. m
      BY <1>1, <2>2
    <3>2. /\ upto(k - 1) \in Seq(Int) /\ upto(k) \in Seq(Int) /\ seqs[k] \in Seq(Int)
          /\ Len(upto(k - 1)) = 2 * k - 2 /\ Len(upto(k)) = 2 * k
          /\ Len(seqs[k]) = 2
      <4>1. /\ upto(k - 1) \in Seq(Int) /\ Len(upto(k - 1)) = 2 * (k - 1)
        BY <1>5, <3>1
      <4>2. upto(k) \in Seq(Int) /\ Len(upto(k)) = 2 * k
        BY <1>5
      <4>3. 2 * (k - 1) = 2 * k - 2
        BY <1>1
      <4> QED
        BY <1>6, <4>1, <4>2, <4>3
    <3>3. \A j \in 1 .. Len(upto(k - 1)) : upto(k)[j] = upto(k - 1)[j]
      <4>1. \A j \in 1 .. 2 * (k - 1) : upto(k - 1)[j] = item(j)
        BY <1>5, <3>1
      <4>2. \A j \in 1 .. 2 * k : upto(k)[j] = item(j)
        BY <1>5
      <4>3. /\ 2 * (k - 1) = 2 * k - 2
            /\ \A j \in 1 .. 2 * (k - 1) : j \in 1 .. 2 * k
        BY <1>1
      <4> QED
        BY <3>2, <4>1, <4>2, <4>3
    <3>4. \A j \in 1 .. Len(seqs[k]) : upto(k)[Len(upto(k - 1)) + j] = seqs[k][j]
      <4>1. upto(k)[2 * k - 1] = seqs[k][1] /\ upto(k)[2 * k] = seqs[k][2]
        <5>1. \A j \in 1 .. 2 * k : upto(k)[j] = item(j)
          BY <1>5
        <5>2. 2 * k - 1 \in 1 .. 2 * k /\ 2 * k \in 1 .. 2 * k
          BY <1>1
        <5>3. seqs[k][1] = item(2 * k - 1) /\ seqs[k][2] = item(2 * k)
          BY <1>6
        <5> QED
          BY <5>1, <5>2, <5>3
      <4>2. \A j \in 1 .. 2 : j = 1 \/ j = 2
        OBVIOUS
      <4>3. 2 * k - 2 + 1 = 2 * k - 1 /\ 2 * k - 2 + 2 = 2 * k
        BY <1>1
      <4> QED
        BY <3>2, <4>1, <4>2, <4>3
    <3>5. Len(upto(k)) = Len(upto(k - 1)) + Len(seqs[k])
      BY <1>1, <3>2
    <3> QED
      BY <2>2, <3>2, <3>3, <3>4, <3>5, ConcatIs
  <2> QED
    BY <2>1, <2>2
<1>8. \A k \in 1 .. m : f[k] = IF k = 1 THEN seqs[k] ELSE f[k - 1] \o seqs[k]
  <2>1. ASSUME NEW k \in 1 .. m
        PROVE  upto(k) = IF k = 1 THEN seqs[k] ELSE f[k - 1] \o seqs[k]
    <3>1. k # 1 => f[k - 1] = upto(k - 1)
      BY <1>1
    <3> QED
      BY <1>7, <3>1
  <2> QED
    BY <2>1
<1>9. Len(seqs) = m
  BY <1>1 DEF seqs
<1>10. RlePairs(in) = upto(m)
  <2>1. f[m] = upto(m) /\ f = [k \in 1 .. m |-> f[k]]
    BY <1>1
  <2> HIDE DEF f
  <2>2. Flattens(f, seqs, m)
    BY <1>1, <1>8, <1>9, <2>1 DEF Flattens
  <2>3. FlattenSeq(seqs) = f[m]
    BY <2>2, FlattenIs
  <2> QED
    BY <1>2, <2>1, <2>3
<1>11. /\ RlePairs(in) \in Seq(Int) /\ Len(RlePairs(in)) = 2 * m
       /\ \A j \in 1 .. 2 * m : RlePairs(in)[j] = item(j)
  <2>1. m \in 1 .. m
    BY <1>1
  <2>2. /\ upto(m) \in Seq(Int) /\ Len(upto(m)) = 2 * m
        /\ \A j \in 1 .. 2 * m : upto(m)[j] = item(j)
    BY <1>5, <2>1
  <2> QED
    BY <1>10, <2>2
<1>12. ASSUME NEW k \in 1 .. m
       PROVE  /\ RlePairs(in)[2 * k - 1] = in[B[k]]
              /\ RlePairs(in)[2 * k] = B[k + 1] - B[k]
  <2>1. 2 * k - 1 \in 1 .. 2 * m /\ 2 * k \in 1 .. 2 * m
    BY <1>1
  <2>2. item(2 * k - 1) = in[B[k]] /\ item(2 * k) = B[k + 1] - B[k]
    BY <1>3
  <2> QED
    BY <1>11, <2>1, <2>2
<1> QED
  BY <1>11, <1>12 DEF m, B

(***************************************************************************)
(* A vector is primed when the resize to two elements leaves the zero run: *)
(* a fresh or cleared one, and one an RLECodec has written.                *)
(***************************************************************************)
Primed(held) == Resize(held, 2) = <<0, 0>>

LEMMA PrimedFacts ==
  /\ Primed(<<>>)
  /\ \A held : Primed(held) <=> \A i \in 1 .. 2 : i <= Len(held) => held[i] = 0
<1>1. ASSUME NEW f, f[1] = 0, f[2] = 0, f = [i \in 1 .. 2 |-> f[i]]
      PROVE  f = <<0, 0>>
  <2>1. \A i \in 1 .. 2 : i = 1 \/ i = 2
    OBVIOUS
  <2>2. f \in Seq({0}) /\ Len(f) = 2 /\ <<0, 0>> \in Seq({0})
    BY <1>1, <2>1
  <2> QED
    BY <1>1, <2>1, <2>2, SeqEqual
<1>2. ASSUME NEW held, \A i \in 1 .. 2 : i <= Len(held) => held[i] = 0
      PROVE  Primed(held)
  <2> DEFINE r == Resize(held, 2)
  <2>1. r = [i \in 1 .. 2 |-> IF i <= Len(held) THEN held[i] ELSE 0]
    BY DEF Resize
  <2>2. r[1] = 0 /\ r[2] = 0 /\ r = [i \in 1 .. 2 |-> r[i]]
    BY <1>2, <2>1
  <2> HIDE DEF r
  <2> QED
    BY <1>1, <2>2 DEF Primed, r
<1>3. Primed(<<>>)
  BY <1>2
<1>4. ASSUME NEW held, Primed(held), NEW i \in 1 .. 2, i <= Len(held)
      PROVE  held[i] = 0
  <2>1. Resize(held, 2)[i] = held[i]
    BY <1>4 DEF Resize
  <2>2. <<0, 0>>[i] = 0
    <3>1. i = 1 \/ i = 2
      OBVIOUS
    <3> QED
      BY <3>1
  <2> QED
    BY <1>4, <2>1, <2>2 DEF Primed
<1> QED
  BY <1>2, <1>3, <1>4

(***************************************************************************)
(* What an RLECodec holds after encoding a block into a primed vector: the *)
(* zero run, then the pairs of the block.  It is primed again.             *)
(***************************************************************************)
LEMMA RleEncodeIs ==
  ASSUME NEW held, Primed(held), NEW in \in Seq(Word), in # <<>>
  PROVE  /\ RleEncode(held, in) = <<0, 0>> \o RlePairs(in)
         /\ RleEncode(held, in) \in Seq(Int)
         /\ Len(RleEncode(held, in)) = 2 * NumRuns(in) + 2
         /\ RleEncode(held, in)[1] = 0 /\ RleEncode(held, in)[2] = 0
         /\ \A k \in 1 .. NumRuns(in) :
              /\ RleEncode(held, in)[2 * k + 1] = in[Bounds(in)[k]]
              /\ RleEncode(held, in)[2 * k + 2] = Bounds(in)[k + 1] - Bounds(in)[k]
<1> DEFINE E == <<0, 0>> \o RlePairs(in)
           m == NumRuns(in)
           p == RlePairs(in)
<1>1. RleEncode(held, in) = E
  BY DEF RleEncode, Primed
<1>2. /\ m \in Nat /\ p \in Seq(Int) /\ Len(p) = 2 * m
      /\ \A k \in 1 .. m : /\ p[2 * k - 1] = in[Bounds(in)[k]]
                           /\ p[2 * k] = Bounds(in)[k + 1] - Bounds(in)[k]
  BY RlePairsAre, BoundsFacts
<1> HIDE DEF m, p
<1> DEFINE F == <<0, 0>> \o p
<1>3. E = F
  BY DEF p
<1>4. /\ F \in Seq(Int) /\ Len(F) = 2 * m + 2 /\ F[1] = 0 /\ F[2] = 0
      /\ \A j \in 1 .. 2 * m : F[j + 2] = p[j]
  <2>1. p \in Seq(Int) /\ Len(p) = 2 * m
    BY <1>2
  <2>2. <<0, 0>> \o p \in Seq(Int) /\ Len(<<0, 0>> \o p) = Len(p) + 2
    BY <2>1
  <2>3. (<<0, 0>> \o p)[1] = 0 /\ (<<0, 0>> \o p)[2] = 0
    BY <2>1
  <2>4. ASSUME NEW j \in 1 .. Len(p) PROVE (<<0, 0>> \o p)[j + 2] = p[j]
    BY <2>1
  <2> QED
    BY <2>1, <2>2, <2>3, <2>4
<1> HIDE DEF F
<1>5. ASSUME NEW k \in 1 .. m
      PROVE  /\ F[2 * k + 1] = in[Bounds(in)[k]]
             /\ F[2 * k + 2] = Bounds(in)[k + 1] - Bounds(in)[k]
  <2>1. 2 * k - 1 \in 1 .. 2 * m /\ 2 * k \in 1 .. 2 * m
    BY <1>2
  <2>2. F[2 * k - 1 + 2] = p[2 * k - 1] /\ F[2 * k + 2] = p[2 * k]
    BY <1>4, <2>1
  <2>3. 2 * k - 1 + 2 = 2 * k + 1
    BY <1>2
  <2> QED
    BY <1>2, <2>2, <2>3
<1> QED
  BY <1>1, <1>3, <1>4, <1>5 DEF m

\* The encoding is primed, and made of words when the block is no longer
\* than a word can count.
LEMMA RleEncodeType ==
  ASSUME NEW held, Primed(held), NEW in \in Seq(Word), in # <<>>
  PROVE  /\ Primed(RleEncode(held, in))
         /\ Len(in) < Half => RleEncode(held, in) \in Seq(Word)
<1> DEFINE E == RleEncode(held, in)
           m == NumRuns(in)
           B == Bounds(in)
<1>1. /\ E \in Seq(Int) /\ Len(E) = 2 * m + 2 /\ E[1] = 0 /\ E[2] = 0
      /\ \A k \in 1 .. m : E[2 * k + 1] = in[B[k]] /\ E[2 * k + 2] = B[k + 1] - B[k]
  BY RleEncodeIs
<1>2. /\ m \in 1 .. Len(in) /\ Len(in) \in Nat
      /\ \A k \in 1 .. m : /\ B[k] \in 1 .. Len(in) /\ B[k + 1] \in 1 .. Len(in) + 1
                           /\ B[k] < B[k + 1]
  BY BoundsFacts
<1> HIDE DEF E, m, B
<1>3. Primed(E)
  <2>1. \A i \in 1 .. 2 : i <= Len(E) => E[i] = 0
    BY <1>1
  <2> QED
    BY <2>1, PrimedFacts
<1>4. ASSUME Len(in) < Half, NEW j \in 1 .. Len(E) PROVE E[j] \in Word
  <2>1. CASE j \in {1, 2}
    BY <1>1, <2>1, HalfAssumption DEF Word
  <2>2. CASE j \notin {1, 2} /\ j % 2 = 1
    <3>1. PICK k \in 1 .. m : j = 2 * k + 1
      <4>1. j \in Int /\ m \in Int /\ 3 <= j /\ j <= 2 * m + 2
        BY <1>1, <1>2, <2>2
      <4>2. (j - 1) \div 2 \in 1 .. m /\ j = 2 * ((j - 1) \div 2) + 1
        BY <2>2, <4>1
      <4> QED
        BY <4>2
    <3>2. E[j] = in[B[k]] /\ B[k] \in 1 .. Len(in)
      BY <1>1, <1>2, <3>1
    <3> QED
      BY <3>2, ElementOfSeq
  <2>3. CASE j \notin {1, 2} /\ j % 2 # 1
    <3>1. PICK k \in 1 .. m : j = 2 * k + 2
      <4>1. j \in Int /\ m \in Int /\ 3 <= j /\ j <= 2 * m + 2
        BY <1>1, <1>2, <2>3
      <4>2. (j - 2) \div 2 \in 1 .. m /\ j = 2 * ((j - 2) \div 2) + 2
        BY <2>3, <4>1
      <4> QED
        BY <4>2
    <3>2. /\ E[j] = B[k + 1] - B[k]
          /\ B[k] \in 1 .. Len(in) /\ B[k + 1] \in 1 .. Len(in) + 1 /\ B[k] < B[k + 1]
      BY <1>1, <1>2, <3>1
    <3>3. \A b \in 1 .. Len(in), c \in 1 .. Len(in) + 1 : b < c => c - b \in Word
      BY <1>2, <1>4, HalfAssumption DEF Word
    <3> QED
      BY <3>2, <3>3
  <2> QED
    BY <2>1, <2>2, <2>3
<1>5. Len(in) < Half => E \in Seq(Word)
  <2> SUFFICES ASSUME Len(in) < Half PROVE E \in Seq(Word)
    OBVIOUS
  <2>1. \A j \in 1 .. Len(E) : E[j] \in Word
    BY <1>4
  <2> QED
    BY <1>1, <2>1, LenProperties
<1> QED
  BY <1>3, <1>5 DEF E

(***************************************************************************)
(* A block is its runs, one after another.                                 *)
(***************************************************************************)
RunAt(in, k) == [i \in 1 .. Bounds(in)[k + 1] - Bounds(in)[k] |-> in[Bounds(in)[k]]]

UpToRun(in, k) == [i \in 1 .. Bounds(in)[k] - 1 |-> in[i]]

LEMMA RunByRun ==
  ASSUME NEW in \in Seq(Word), in # <<>>
  PROVE  /\ UpToRun(in, 1) = <<>> /\ UpToRun(in, NumRuns(in) + 1) = in
         /\ \A k \in 1 .. NumRuns(in) :
              /\ UpToRun(in, k) \in Seq(Word) /\ RunAt(in, k) \in Seq(Word)
              /\ UpToRun(in, k + 1) = UpToRun(in, k) \o RunAt(in, k)
<1> DEFINE m == NumRuns(in)
           B == Bounds(in)
           n == Len(in)
           run(k) == RunAt(in, k)
           prefix(k) == UpToRun(in, k)
<1>1. /\ m \in 1 .. n /\ n \in Nat /\ m \in Nat
      /\ B[1] = 1 /\ B[m + 1] = n + 1
      /\ \A k \in 1 .. m : /\ B[k] \in 1 .. n /\ B[k + 1] \in 1 .. n + 1
                           /\ B[k] < B[k + 1]
                           /\ \A i \in B[k] .. B[k + 1] - 1 : in[i] = in[B[k]]
  BY BoundsFacts
<1>2. \A i \in 1 .. n : in[i] \in Word
  BY ElementOfSeq
<1>3. \A k : /\ run(k) = [i \in 1 .. B[k + 1] - B[k] |-> in[B[k]]]
             /\ prefix(k) = [i \in 1 .. B[k] - 1 |-> in[i]]
  BY DEF RunAt, UpToRun
<1> HIDE DEF m, B, n, run, prefix
<1>4. ASSUME NEW k \in 1 .. m
      PROVE  /\ run(k) \in Seq(Word) /\ Len(run(k)) = B[k + 1] - B[k]
             /\ \A i \in 1 .. B[k + 1] - B[k] : run(k)[i] = in[B[k]]
  <2> DEFINE c == B[k + 1] - B[k]
             v == in[B[k]]
  <2>1. c \in Nat /\ v \in Word
    BY <1>1, <1>2
  <2>2. run(k) = [i \in 1 .. c |-> v]
    BY <1>3
  <2> HIDE DEF c, v
  <2>3. /\ run(k) \in Seq(Word) /\ Len(run(k)) = c
        /\ \A i \in 1 .. c : run(k)[i] = v
    BY <2>1, <2>2
  <2> QED
    BY <2>3 DEF c, v
<1>5. \A k \in 1 .. m + 1 : B[k] \in 1 .. n + 1
  <2> TAKE k \in 1 .. m + 1
  <2>1. CASE k = m + 1
    BY <1>1, <2>1
  <2>2. CASE k # m + 1
    <3>1. k \in 1 .. m
      BY <1>1, <2>2
    <3> QED
      BY <1>1, <3>1
  <2> QED
    BY <2>1, <2>2
<1>6. ASSUME NEW k \in 1 .. m + 1
      PROVE  /\ prefix(k) \in Seq(Word) /\ Len(prefix(k)) = B[k] - 1
             /\ \A i \in 1 .. B[k] - 1 : prefix(k)[i] = in[i]
  <2>1. B[k] - 1 \in Nat /\ B[k] - 1 <= n
    BY <1>1, <1>5
  <2>2. \A i \in 1 .. B[k] - 1 : in[i] \in Word
    BY <1>1, <1>2, <2>1
  <2> QED
    BY <1>3, <2>1, <2>2
<1>7. ASSUME NEW k \in 1 .. m
      PROVE  prefix(k + 1) = prefix(k) \o run(k)
  <2>1. k \in 1 .. m + 1 /\ k + 1 \in 1 .. m + 1
    BY <1>1
  <2>2. /\ prefix(k) \in Seq(Word) /\ Len(prefix(k)) = B[k] - 1
        /\ \A i \in 1 .. B[k] - 1 : prefix(k)[i] = in[i]
    BY <1>6, <2>1
  <2>3. /\ prefix(k + 1) \in Seq(Word) /\ Len(prefix(k + 1)) = B[k + 1] - 1
        /\ \A i \in 1 .. B[k + 1] - 1 : prefix(k + 1)[i] = in[i]
    BY <1>6, <2>1
  <2>4. /\ run(k) \in Seq(Word) /\ Len(run(k)) = B[k + 1] - B[k]
        /\ \A i \in 1 .. B[k + 1] - B[k] : run(k)[i] = in[B[k]]
    BY <1>4
  <2> DEFINE b == B[k]
             c == B[k + 1]
  <2>5. \A i \in b .. c - 1 : in[i] = in[b]
    BY <1>1
  <2>6. b \in Int /\ c \in Int /\ 1 <= b /\ b < c
    BY <1>1
  <2> HIDE DEF b, c
  <2>7. Len(prefix(k + 1)) = Len(prefix(k)) + Len(run(k))
    <3>1. (b - 1) + (c - b) = c - 1
      BY <2>6
    <3> QED
      BY <2>2, <2>3, <2>4, <3>1 DEF b, c
  <2>8. \A i \in 1 .. Len(prefix(k)) : prefix(k + 1)[i] = prefix(k)[i]
    <3>1. \A i \in 1 .. b - 1 : i \in 1 .. c - 1
      BY <2>6
    <3> QED
      BY <2>2, <2>3, <3>1 DEF b, c
  <2>9. \A i \in 1 .. Len(run(k)) : prefix(k + 1)[Len(prefix(k)) + i] = run(k)[i]
    <3> SUFFICES ASSUME NEW i \in 1 .. c - b
                 PROVE  prefix(k + 1)[b - 1 + i] = run(k)[i]
      BY <2>2, <2>4 DEF b, c
    <3>1. b - 1 + i \in 1 .. c - 1 /\ b - 1 + i \in b .. c - 1
      BY <2>6
    <3>2. prefix(k + 1)[b - 1 + i] = in[b - 1 + i] /\ in[b - 1 + i] = in[b]
      BY <2>3, <2>5, <3>1 DEF b, c
    <3>3. run(k)[i] = in[b]
      BY <2>4 DEF b, c
    <3> QED
      BY <3>2, <3>3
  <2> QED
    BY <2>2, <2>3, <2>4, <2>7, <2>8, <2>9, ConcatIs
<1>8. prefix(1) = <<>>
  <2>1. 1 \in 1 .. m + 1 /\ B[1] - 1 = 0
    BY <1>1
  <2>2. prefix(1) \in Seq(Word) /\ Len(prefix(1)) = 0
    BY <1>6, <2>1
  <2> QED
    BY <2>2, EmptySeq
<1>9. prefix(m + 1) = in
  <2>1. B[m + 1] - 1 = n
    BY <1>1
  <2>2. in = [i \in 1 .. n |-> in[i]]
    BY LenProperties DEF n
  <2> QED
    BY <1>3, <2>1, <2>2
<1>10. \A k \in 1 .. m : prefix(k) \in Seq(Word)
  BY <1>1, <1>6
<1> QED
  BY <1>4, <1>7, <1>8, <1>9, <1>10 DEF run, prefix, m

(***************************************************************************)
(* A value and how often, y times over.                                    *)
(***************************************************************************)
PairsIn(data, y) ==
  /\ data \in Seq(Int) /\ Len(data) = 2 * y
  /\ \A k \in 1 .. y : data[2 * k - 1] \in Word /\ data[2 * k] \in Nat

Spelt(data, k) == [i \in 1 .. data[2 * k] |-> data[2 * k - 1]]

LEMMA SpeltType ==
  ASSUME NEW data, NEW k, data[2 * k] \in Nat, data[2 * k - 1] \in Word
  PROVE  Spelt(data, k) \in Seq(Word) /\ Len(Spelt(data, k)) = data[2 * k]
<1> DEFINE c == data[2 * k]
           v == data[2 * k - 1]
<1>1. c \in Nat /\ v \in Word /\ Spelt(data, k) = [i \in 1 .. c |-> v]
  BY DEF Spelt
<1> HIDE DEF c, v
<1>2. Spelt(data, k) \in Seq(Word) /\ Len(Spelt(data, k)) = c
  BY <1>1
<1> QED
  BY <1>2 DEF c

LEMMA PairsConcat ==
  ASSUME NEW y \in Nat, NEW m \in Nat, NEW pre, PairsIn(pre, y), NEW pairs, PairsIn(pairs, m)
  PROVE  /\ PairsIn(pre \o pairs, y + m)
         /\ \A k \in 1 .. y : /\ (pre \o pairs)[2 * k] = pre[2 * k]
                              /\ Spelt(pre \o pairs, k) = Spelt(pre, k)
         /\ \A k \in 1 .. m : /\ (pre \o pairs)[2 * (y + k)] = pairs[2 * k]
                              /\ Spelt(pre \o pairs, y + k) = Spelt(pairs, k)
<1> DEFINE data == pre \o pairs
           D == Int
<1>1. /\ pre \in Seq(D) /\ Len(pre) = 2 * y
      /\ \A k \in 1 .. y : pre[2 * k - 1] \in Word /\ pre[2 * k] \in Nat
      /\ pairs \in Seq(D) /\ Len(pairs) = 2 * m
      /\ \A k \in 1 .. m : pairs[2 * k - 1] \in Word /\ pairs[2 * k] \in Nat
  BY DEF PairsIn
<1> HIDE DEF D
<1>2. /\ data \in Seq(D) /\ Len(data) = Len(pre) + Len(pairs)
      /\ \A i \in 1 .. Len(pre) + Len(pairs) :
           data[i] = IF i <= Len(pre) THEN pre[i] ELSE pairs[i - Len(pre)]
  BY <1>1, ConcatProperties
<1> HIDE DEF data
<1>3. ASSUME NEW j \in 1 .. 2 * y PROVE data[j] = pre[j]
  BY <1>1, <1>2
<1>4. ASSUME NEW j \in 1 .. 2 * m PROVE data[2 * y + j] = pairs[j]
  <2>1. 2 * y + j \in 1 .. 2 * y + 2 * m /\ ~ (2 * y + j <= 2 * y) /\ (2 * y + j) - 2 * y = j
    OBVIOUS
  <2> QED
    BY <1>1, <1>2, <2>1
<1>5. \A k \in 1 .. y : data[2 * k - 1] = pre[2 * k - 1] /\ data[2 * k] = pre[2 * k]
  <2> TAKE k \in 1 .. y
  <2>1. 2 * k - 1 \in 1 .. 2 * y /\ 2 * k \in 1 .. 2 * y
    OBVIOUS
  <2> QED
    BY <1>3, <2>1
<1>6. \A k \in 1 .. m : /\ data[2 * (y + k) - 1] = pairs[2 * k - 1]
                        /\ data[2 * (y + k)] = pairs[2 * k]
  <2> TAKE k \in 1 .. m
  <2>1. /\ 2 * k - 1 \in 1 .. 2 * m /\ 2 * k \in 1 .. 2 * m
        /\ 2 * (y + k) - 1 = 2 * y + (2 * k - 1) /\ 2 * (y + k) = 2 * y + 2 * k
    OBVIOUS
  <2> QED
    BY <1>4, <2>1
<1>7. \A k \in 1 .. y + m : data[2 * k - 1] \in Word /\ data[2 * k] \in Nat
  <2> TAKE k \in 1 .. y + m
  <2>1. CASE k <= y
    BY <1>1, <1>5, <2>1
  <2>2. CASE k > y
    <3>1. k - y \in 1 .. m /\ y + (k - y) = k
      BY <2>2
    <3> QED
      BY <1>1, <1>6, <3>1
  <2> QED
    BY <2>1, <2>2
<1>8. PairsIn(data, y + m)
  <2>1. Len(data) = 2 * (y + m)
    BY <1>1, <1>2
  <2> QED
    BY <1>2, <1>7, <2>1 DEF PairsIn, D
<1> QED
  BY <1>5, <1>6, <1>8 DEF data, Spelt

Expands(f, data, y) ==
  /\ f \in [0 .. y -> Seq(Word)]
  /\ f[0] = <<>>
  /\ \A k \in 1 .. y : f[k] = f[k - 1] \o Spelt(data, k)

(***************************************************************************)
(* DecodeArray of an RLECodec spells the pairs out one after another.      *)
(***************************************************************************)
LEMMA RleDecodeExpands ==
  ASSUME NEW y \in Nat \ {0}, NEW data, PairsIn(data, y)
  PROVE  \E f : Expands(f, data, y) /\ RleDecode(data) = f[y]
<1> DEFINE S == 0 .. y
           D == Seq(Word)
           base == <<>>
           from == [k \in S |-> k - 1]
           step == [k \in S |-> [s \in D |-> IF k = 0 THEN <<>> ELSE s \o Spelt(data, k)]]
           rank == [k \in S |-> k + 1]
           seqs == [k \in 1 .. y |-> Spelt(data, k)]
<1>1. \A k \in 1 .. y : Spelt(data, k) \in Seq(Word)
  BY SpeltType DEF PairsIn
<1>2. step \in [S -> [D -> D]] /\ base \in D /\ rank \in [S -> 1 .. y + 1]
  <2>1. \A k \in S : \A s \in D : (IF k = 0 THEN <<>> ELSE s \o Spelt(data, k)) \in D
    <3> TAKE k \in S
    <3> TAKE s \in D
    <3>1. CASE k = 0
      BY <3>1
    <3>2. CASE k # 0
      <4>1. Spelt(data, k) \in Seq(Word)
        BY <1>1, <3>2
      <4> QED
        BY <3>2, <4>1
    <3> QED
      BY <3>1, <3>2
  <2>2. base \in D
    OBVIOUS
  <2> HIDE DEF D
  <2> QED
    BY <2>1, <2>2
<1>3. \A k \in S : /\ from[k] \in S => rank[from[k]] < rank[k]
                   /\ from[k] \in S <=> k # 0
                   /\ from[k] = k - 1
  OBVIOUS
<1>4. \A k \in S : \A s \in D : step[k][s] = IF k = 0 THEN <<>> ELSE s \o Spelt(data, k)
  OBVIOUS
<1> HIDE DEF D, base, from, step, rank, S
<1>5. PICK f : Solves(f, S, D, base, from, step)
  <2>1. y + 1 \in Nat
    OBVIOUS
  <2> QED
    BY <1>2, <1>3, <2>1, RecursionHasSolution
<1>6. ASSUME NEW k \in S PROVE f[k] = IF k = 0 THEN <<>> ELSE f[k - 1] \o Spelt(data, k)
  <2> DEFINE s == IF from[k] \in S THEN f[from[k]] ELSE base
  <2>1. f[k] = step[k][s] /\ s \in D
    BY <1>2, <1>5 DEF Solves
  <2>2. k # 0 => s = f[k - 1]
    BY <1>3
  <2> HIDE DEF s
  <2> QED
    BY <1>4, <2>1, <2>2
<1>7. Expands(f, data, y)
  <2>1. f \in [0 .. y -> Seq(Word)]
    BY <1>5 DEF Solves, S, D
  <2>2. f[0] = <<>>
    <3>1. 0 \in S
      BY DEF S
    <3> QED
      BY <1>6, <3>1
  <2>3. \A k \in 1 .. y : f[k] = f[k - 1] \o Spelt(data, k)
    <3> TAKE k \in 1 .. y
    <3>1. k \in S /\ k # 0
      BY DEF S
    <3> QED
      BY <1>6, <3>1
  <2> QED
    BY <2>1, <2>2, <2>3 DEF Expands
<1>8. RleDecode(data) = FlattenSeq(seqs)
  <2>1. Len(data) \div 2 = y
    BY DEF PairsIn
  <2> QED
    BY <2>1 DEF RleDecode, Spelt
<1> DEFINE g == [k \in 1 .. y |-> f[k]]
<1>9. Flattens(g, seqs, y)
  <2>1. ASSUME NEW k \in 1 .. y PROVE f[k] = IF k = 1 THEN seqs[k] ELSE g[k - 1] \o seqs[k]
    <3>1. f[k] = f[k - 1] \o Spelt(data, k) /\ seqs[k] = Spelt(data, k)
      BY <1>7 DEF Expands
    <3>2. CASE k = 1
      <4>1. f[k - 1] = <<>> /\ Spelt(data, k) \in Seq(Word)
        BY <1>1, <1>7, <3>2 DEF Expands
      <4> QED
        BY <3>1, <3>2, <4>1, ConcatEmptySeq
    <3>3. CASE k # 1
      <4>1. g[k - 1] = f[k - 1]
        BY <3>3
      <4> QED
        BY <3>1, <3>3, <4>1
    <3> QED
      BY <3>2, <3>3
  <2> QED
    BY <2>1 DEF Flattens
<1>10. FlattenSeq(seqs) = f[y]
  <2>1. g[y] = f[y]
    OBVIOUS
  <2> HIDE DEF g, seqs
  <2> QED
    BY <1>9, <2>1, FlattenIs
<1> QED
  BY <1>7, <1>8, <1>10

(***************************************************************************)
(* The pairs of a block are its runs; an empty one has none.               *)
(***************************************************************************)
PairsOf(in) == IF in = <<>> THEN <<>> ELSE RlePairs(in)

RunsOf(in) == IF in = <<>> THEN 0 ELSE NumRuns(in)

UpTo(in, k) == IF in = <<>> THEN <<>> ELSE UpToRun(in, k + 1)

LEMMA PairsOfFacts ==
  ASSUME NEW in \in Seq(Word)
  PROVE  /\ RunsOf(in) \in Nat /\ RunsOf(in) <= Len(in) /\ PairsIn(PairsOf(in), RunsOf(in))
         /\ UpTo(in, 0) = <<>> /\ UpTo(in, RunsOf(in)) = in
         /\ \A k \in 1 .. RunsOf(in) :
              /\ PairsOf(in)[2 * k] \in 1 .. Len(in)
              /\ UpTo(in, k - 1) \in Seq(Word)
              /\ UpTo(in, k) = UpTo(in, k - 1) \o Spelt(PairsOf(in), k)
         /\ in # <<>> => RunsOf(in) >= 1
<1>1. CASE in = <<>>
  BY <1>1 DEF PairsOf, RunsOf, UpTo, PairsIn
<1>2. CASE in # <<>>
  <2> DEFINE B == Bounds(in)
             m == NumRuns(in)
             pairs == RlePairs(in)
  <2>1. /\ pairs \in Seq(Int) /\ Len(pairs) = 2 * m
        /\ \A k \in 1 .. m : pairs[2 * k - 1] = in[B[k]] /\ pairs[2 * k] = B[k + 1] - B[k]
    BY <1>2, RlePairsAre
  <2>2. /\ m \in 1 .. Len(in) /\ Len(in) \in Nat
        /\ \A k \in 1 .. m :
             /\ B[k] \in 1 .. Len(in) /\ B[k + 1] \in 1 .. Len(in) + 1 /\ B[k] < B[k + 1]
    BY <1>2, BoundsFacts, LenProperties
  <2>3. \A k \in 1 .. m : RunAt(in, k) = Spelt(pairs, k)
    BY <2>1 DEF RunAt, Spelt
  <2> HIDE DEF B
  <2>4. \A k \in 1 .. m : in[B[k]] \in Word /\ B[k + 1] - B[k] \in 1 .. Len(in)
    <3>1. \A i \in 1 .. Len(in) : in[i] \in Word
      BY ElementOfSeq
    <3> QED
      BY <2>2, <3>1
  <2>5. \A k \in 1 .. m : /\ UpTo(in, k - 1) \in Seq(Word)
                          /\ UpTo(in, k) = UpTo(in, k - 1) \o Spelt(pairs, k)
    <3> TAKE k \in 1 .. m
    <3>1. (k - 1) + 1 = k
      BY <2>2
    <3> QED
      BY <1>2, <2>3, <3>1, RunByRun DEF UpTo
  <2>6. UpTo(in, 0) = <<>> /\ UpTo(in, m) = in
    <3>1. 0 + 1 = 1
      OBVIOUS
    <3> QED
      BY <1>2, <3>1, RunByRun DEF UpTo
  <2>7. RunsOf(in) = m /\ PairsOf(in) = pairs
    BY <1>2 DEF RunsOf, PairsOf
  <2> HIDE DEF m, pairs
  <2>8. PairsIn(pairs, m)
    <3>1. \A k \in 1 .. m : pairs[2 * k - 1] \in Word /\ pairs[2 * k] \in Nat
      BY <2>1, <2>4
    <3> QED
      BY <2>1, <3>1 DEF PairsIn
  <2>9. \A k \in 1 .. m : pairs[2 * k] \in 1 .. Len(in)
    BY <2>1, <2>4
  <2>10. RunsOf(in) \in Nat /\ RunsOf(in) <= Len(in) /\ RunsOf(in) >= 1
    BY <2>2, <2>7
  <2>11. \A k \in 1 .. RunsOf(in) :
           /\ PairsOf(in)[2 * k] \in 1 .. Len(in)
           /\ UpTo(in, k - 1) \in Seq(Word)
           /\ UpTo(in, k) = UpTo(in, k - 1) \o Spelt(PairsOf(in), k)
    BY <2>5, <2>7, <2>9
  <2> QED
    BY <2>6, <2>7, <2>8, <2>10, <2>11
<1> QED
  BY <1>1, <1>2

(***************************************************************************)
(* DecodeArray of a run length codec writes the block whose pairs were     *)
(* pushed last, exactly when every pair before them is of a run of no      *)
(* values: what those spell out comes first, and nothing is written twice. *)
(***************************************************************************)
THEOREM RleAfterStale ==
  ASSUME NEW y \in Nat \ {0}, NEW pre, PairsIn(pre, y), NEW in \in Seq(Word)
  PROVE  /\ RleDecode(pre \o PairsOf(in)) \in Seq(Word)
         /\ RleDecode(pre \o PairsOf(in)) = in <=> \A k \in 1 .. y : pre[2 * k] = 0
<1> DEFINE m == RunsOf(in)
           pairs == PairsOf(in)
           data == pre \o pairs
           upto(k) == UpTo(in, k)
<1>1. /\ m \in Nat /\ PairsIn(pairs, m)
      /\ upto(0) = <<>> /\ upto(m) = in
      /\ \A k \in 1 .. m : /\ upto(k - 1) \in Seq(Word)
                           /\ upto(k) = upto(k - 1) \o Spelt(pairs, k)
  BY PairsOfFacts
<1> HIDE DEF m, pairs, upto
<1>2. /\ \A k \in 1 .. y : pre[2 * k - 1] \in Word /\ pre[2 * k] \in Nat
      /\ \A k \in 1 .. m : pairs[2 * k - 1] \in Word /\ pairs[2 * k] \in Nat
  BY <1>1 DEF PairsIn
<1>3. /\ PairsIn(data, y + m)
      /\ \A k \in 1 .. y : Spelt(data, k) = Spelt(pre, k)
      /\ \A k \in 1 .. m : Spelt(data, y + k) = Spelt(pairs, k)
  <2>1. y \in Nat
    OBVIOUS
  <2>2. PairsIn(pairs, m) /\ m \in Nat /\ PairsIn(pre, y)
    BY <1>1
  <2> HIDE DEF data
  <2>3. PairsIn(pre \o pairs, y + m)
    BY <2>1, <2>2, PairsConcat
  <2>4. \A k \in 1 .. y : Spelt(pre \o pairs, k) = Spelt(pre, k)
    BY <2>1, <2>2, PairsConcat
  <2>5. \A k \in 1 .. m : Spelt(pre \o pairs, y + k) = Spelt(pairs, k)
    BY <2>1, <2>2, PairsConcat
  <2> QED
    BY <2>3, <2>4, <2>5 DEF data
<1> HIDE DEF data
<1>4. \A k \in 1 .. y : Len(Spelt(data, k)) = pre[2 * k] /\ Spelt(data, k) \in Seq(Word)
  BY <1>2, <1>3, SpeltType
<1>5. \A k \in 1 .. m : Spelt(data, y + k) = Spelt(pairs, k) /\ Spelt(pairs, k) \in Seq(Word)
  BY <1>2, <1>3, SpeltType
<1>7. PICK f : Expands(f, data, y + m) /\ RleDecode(data) = f[y + m]
  <2>1. y + m \in Nat \ {0}
    BY <1>1
  <2> QED
    BY <1>3, <2>1, RleDecodeExpands
<1>8. /\ \A k \in 0 .. y + m : f[k] \in Seq(Word)
      /\ f[0] = <<>>
      /\ \A k \in 1 .. y + m : f[k] = f[k - 1] \o Spelt(data, k)
  BY <1>7 DEF Expands
<1>9. f[y] = <<>> <=> \A k \in 1 .. y : pre[2 * k] = 0
  <2>1. ASSUME NEW k \in 1 .. y
        PROVE  /\ k \in 1 .. y + m /\ k - 1 \in 0 .. y + m /\ k \in 0 .. y + m
               /\ f[k] = <<>> <=> f[k - 1] = <<>> /\ pre[2 * k] = 0
    <3>1. k \in 1 .. y + m /\ k - 1 \in 0 .. y + m /\ k \in 0 .. y + m
      BY <1>1
    <3>2. f[k - 1] \in Seq(Word) /\ f[k] = f[k - 1] \o Spelt(data, k)
      BY <1>8, <3>1
    <3>3. Spelt(data, k) \in Seq(Word) /\ Len(Spelt(data, k)) = pre[2 * k]
      BY <1>4
    <3>4. f[k] = <<>> <=> f[k - 1] = <<>> /\ Spelt(data, k) = <<>>
      BY <3>2, <3>3, ConcatEqualIffEmpty
    <3>5. Spelt(data, k) = <<>> <=> pre[2 * k] = 0
      BY <3>3, EmptySeq
    <3> QED
      BY <3>1, <3>4, <3>5
  <2>2. ASSUME \A k \in 1 .. y : pre[2 * k] = 0 PROVE f[y] = <<>>
    <3> DEFINE P == {k \in 0 .. y : f[k] = <<>>}
    <3>1. 0 \in P /\ \A k \in 1 .. y : k - 1 \in P => k \in P
      BY <1>8, <2>1, <2>2
    <3> HIDE DEF P
    <3>2. \A k \in 0 .. y : k \in P
      BY <3>1, Onward
    <3> QED
      BY <3>2 DEF P
  <2>3. ASSUME f[y] = <<>> PROVE \A k \in 1 .. y : pre[2 * k] = 0
    <3> DEFINE P == {q \in 0 .. y : f[y - q] = <<>>}
    <3>1. ASSUME NEW q \in 1 .. y, q - 1 \in P PROVE q \in P
      <4> DEFINE k == y - (q - 1)
      <4>1. k \in 1 .. y /\ k - 1 = y - q
        OBVIOUS
      <4>2. f[k] = <<>>
        BY <3>1
      <4> HIDE DEF k
      <4>3. f[k - 1] = <<>>
        BY <2>1, <4>1, <4>2
      <4> QED
        BY <4>1, <4>3
    <3>2. 0 \in P
      BY <2>3
    <3> HIDE DEF P
    <3>3. \A q \in 0 .. y : q \in P
      BY <3>1, <3>2, Onward
    <3>4. ASSUME NEW k \in 1 .. y PROVE f[k] = <<>>
      <4>1. y - k \in 0 .. y /\ y - (y - k) = k
        OBVIOUS
      <4>2. y - k \in P
        BY <3>3, <4>1
      <4> QED
        BY <4>1, <4>2 DEF P
    <3> QED
      BY <2>1, <3>4
  <2> QED
    BY <2>2, <2>3
<1>10. f[y + m] = f[y] \o in
  <2> DEFINE P == {k \in 0 .. m : f[y + k] = f[y] \o upto(k)}
  <2>1. f[y] \in Seq(Word)
    BY <1>1, <1>8
  <2>2. 0 \in P
    <3>1. f[y] \o <<>> = f[y] /\ y + 0 = y
      BY <2>1, ConcatEmptySeq
    <3>2. f[y + 0] = f[y] \o upto(0)
      BY <1>1, <3>1
    <3>3. 0 \in 0 .. m
      BY <1>1
    <3> QED
      BY <3>2, <3>3
  <2>3. ASSUME NEW k \in 1 .. m, k - 1 \in P PROVE k \in P
    <3>1. /\ upto(k - 1) \in Seq(Word) /\ Spelt(pairs, k) \in Seq(Word)
          /\ upto(k) = upto(k - 1) \o Spelt(pairs, k)
      BY <1>1, <1>5
    <3>2. y + k \in 1 .. y + m /\ (y + k) - 1 = y + (k - 1)
      BY <1>1
    <3>3. f[y + k] = (f[y] \o upto(k - 1)) \o Spelt(pairs, k)
      BY <1>5, <1>8, <2>3, <3>2
    <3>4. (f[y] \o upto(k - 1)) \o Spelt(pairs, k) = f[y] \o (upto(k - 1) \o Spelt(pairs, k))
      <4> DEFINE D == Word
                 s == f[y]
                 t == upto(k - 1)
                 u == Spelt(pairs, k)
      <4>1. s \in Seq(D) /\ t \in Seq(D) /\ u \in Seq(D)
        BY <2>1, <3>1
      <4> HIDE DEF D, s, t, u
      <4>2. (s \o t) \o u = s \o (t \o u)
        BY <4>1, ConcatAssociative
      <4> QED
        BY <4>2 DEF s, t, u
    <3>5. f[y + k] = f[y] \o upto(k)
      BY <3>1, <3>3, <3>4
    <3>6. k \in 0 .. m
      BY <1>1
    <3> QED
      BY <3>5, <3>6
  <2> HIDE DEF P
  <2>4. \A k \in 0 .. m : k \in P
    BY <1>1, <2>2, <2>3, Onward
  <2>5. m \in P
    BY <1>1, <2>4
  <2> QED
    BY <1>1, <2>5 DEF P
<1>11. f[y + m] = in <=> f[y] = <<>>
  <2>1. f[y] \in Seq(Word)
    BY <1>1, <1>8
  <2> QED
    BY <1>10, <2>1, ConcatEqualIffEmpty
<1>12. f[y + m] \in Seq(Word)
  BY <1>1, <1>8
<1> QED
  BY <1>7, <1>9, <1>11, <1>12 DEF data, pairs

(***************************************************************************)
(* DecodeArray of an RLECodec writes the block that was encoded, and not   *)
(* one value more, although it walks every pair and is not told where to   *)
(* stop: the two words before the pairs are of no values.                  *)
(***************************************************************************)
THEOREM RleRoundTrip ==
  ASSUME NEW held, Primed(held), NEW in \in Seq(Word), in # <<>>
  PROVE  RleDecode(RleEncode(held, in)) = in
<1> DEFINE pre == <<0, 0>>
           y == 1
<1>1. RleEncode(held, in) = pre \o PairsOf(in)
  BY RleEncodeIs DEF PairsOf
<1>2. PairsIn(pre, y) /\ y \in Nat \ {0} /\ \A k \in 1 .. y : pre[2 * k] = 0
  <2>1. 0 \in Word
    BY HalfAssumption DEF Word
  <2>2. \A k \in 1 .. y : 2 * k - 1 = 1 /\ 2 * k = 2
    OBVIOUS
  <2> QED
    BY <2>1, <2>2 DEF PairsIn
<1> HIDE DEF pre, y
<1> QED
  BY <1>1, <1>2, RleAfterStale

-------------------------------------------------------------------------------
(***************************************************************************)
(* The objects.  An object with an RLECodec, bare or over a scheme that    *)
(* gives back what it took, is kept primed by every call, which is why it  *)
(* heals itself; the others may hold anything.                             *)
(***************************************************************************)
Object == [first : Seq(Word), second : Seq(Word), inter : Nat]

Ready(k, o) ==
  /\ o \in Object
  /\ k[1] = "rle" /\ SelfHealing(k) => Primed(o.first) /\ Primed(o.second)

\* What a logical codec writes for a block into an empty vector.
Symbols(l, b) == IF l = "none" THEN b
                 ELSE IF l = "delta" THEN DeltaSymbols(b)
                 ELSE IF l = "for" THEN ForSymbols(b) ELSE <<0, 0>> \o RlePairs(b)

\* A block: at least one value, and no more than a word can count.
IsBlock(b) == b \in Seq(Word) /\ b # <<>> /\ Len(b) < Half

\* The second element of a kind, and the first, are one of the known ones.
LEMMA KindFacts ==
  ASSUME NEW k \in AllKinds
  PROVE  /\ k[1] \in {"none", "delta", "for", "rle"}
         /\ k[2] \in {"none", "simd", "pfor", "lossy", "fragile"}
         /\ k[1] # "none" \/ k[2] # "none"
  BY DEF AllKinds, Logical, Physical

\* The encoding of a block is a nonempty array of words.
LEMMA SymbolsType ==
  ASSUME NEW l, NEW b, IsBlock(b)
  PROVE  Symbols(l, b) \in Seq(Word) /\ Symbols(l, b) # <<>>
<1>1. b \in Seq(Word) /\ b # <<>>
  BY DEF IsBlock
<1>2. /\ <<0, 0>> \o RlePairs(b) \in Seq(Word)
      /\ Len(<<0, 0>> \o RlePairs(b)) = 2 * NumRuns(b) + 2
  <2>1. Primed(<<>>) /\ Len(b) < Half
    BY PrimedFacts DEF IsBlock
  <2>2. /\ RleEncode(<<>>, b) = <<0, 0>> \o RlePairs(b)
        /\ Len(RleEncode(<<>>, b)) = 2 * NumRuns(b) + 2
    BY <1>1, <2>1, RleEncodeIs
  <2>3. RleEncode(<<>>, b) \in Seq(Word)
    BY <1>1, <2>1, RleEncodeType
  <2> QED
    BY <2>2, <2>3
<1>3. NumRuns(b) \in Nat
  BY <1>1, BoundsFacts
<1>4. Len(<<0, 0>> \o RlePairs(b)) # 0
  BY <1>2, <1>3
<1>5. <<0, 0>> \o RlePairs(b) # <<>>
  BY <1>4
<1> QED
  BY <1>1, <1>2, <1>5, DeltaSymbolsType, ForSymbolsType, EmptySeq DEF Symbols

\* Resizing a vector of words gives one.
LEMMA ResizeType ==
  ASSUME NEW held \in Seq(Word), NEW n \in Nat
  PROVE  Resize(held, n) \in Seq(Word) /\ DOMAIN Resize(held, n) = 1 .. n
<1>1. 0 \in Word
  BY HalfAssumption DEF Word
<1>2. \A i \in 1 .. n : (IF i <= Len(held) THEN held[i] ELSE 0) \in Word
  BY <1>1
<1> QED
  BY <1>2 DEF Resize

\* The pairs of a block are words.
LEMMA PairsType ==
  ASSUME NEW b, IsBlock(b)
  PROVE  RlePairs(b) \in Seq(Word) /\ RlePairs(b) # <<>>
<1> DEFINE p == RlePairs(b)
           m == NumRuns(b)
<1>1. b \in Seq(Word) /\ b # <<>> /\ Len(b) < Half /\ Primed(<<>>)
  BY PrimedFacts DEF IsBlock
<1>2. p \in Seq(Int) /\ Len(p) = 2 * m /\ m \in Nat \ {0}
  <2>1. p \in Seq(Int) /\ Len(p) = 2 * m
    BY <1>1, RlePairsAre
  <2>2. m \in 1 .. Len(b) /\ Len(b) \in Nat
    BY <1>1, BoundsFacts
  <2> QED
    BY <2>1, <2>2
<1>3. RleEncode(<<>>, b) = <<0, 0>> \o p /\ RleEncode(<<>>, b) \in Seq(Word)
  BY <1>1, RleEncodeIs, RleEncodeType
<1> HIDE DEF p, m
<1>4. \A j \in 1 .. Len(p) : p[j] \in Word
  <2> SUFFICES ASSUME NEW j \in 1 .. Len(p) PROVE p[j] \in Word
    OBVIOUS
  <2> DEFINE q == <<0, 0>>
  <2>1. q \in Seq(Int) /\ Len(q) = 2
    OBVIOUS
  <2> HIDE DEF q
  <2>2. Len(q \o p) = Len(p) + 2 /\ (q \o p)[j + 2] = p[j]
    <3>1. p \in Seq(Int) /\ Len(p) \in Nat
      BY <1>2
    <3>2. \A i \in 1 .. Len(q) + Len(p) :
            (q \o p)[i] = IF i <= Len(q) THEN q[i] ELSE p[i - Len(q)]
      BY <2>1, <3>1, ConcatProperties
    <3>3. Len(q \o p) = Len(q) + Len(p)
      BY <2>1, <3>1, ConcatProperties
    <3>4. j + 2 \in 1 .. Len(q) + Len(p) /\ ~ (j + 2 <= Len(q)) /\ j + 2 - Len(q) = j
      BY <2>1, <3>1
    <3>5. (q \o p)[j + 2] = p[j + 2 - Len(q)]
      BY <3>2, <3>4
    <3> QED
      BY <2>1, <3>1, <3>3, <3>4, <3>5
  <2>3. j + 2 \in 1 .. Len(p) + 2
    BY <1>2
  <2>4. q \o p \in Seq(Word)
    BY <1>3 DEF q
  <2> QED
    BY <2>2, <2>3, <2>4, ElementOfSeq
<1>5. p \in Seq(Word)
  BY <1>2, <1>4, LenProperties
<1>6. Len(p) # 0
  BY <1>2
<1> QED
  BY <1>5, <1>6 DEF p

(***************************************************************************)
(* What an encoding hands to the physical codec: the symbols of the block, *)
(* after what a DeltaCodec or a FORCodec still held.                       *)
(***************************************************************************)
LEMMA IntermediateValue ==
  ASSUME NEW k \in AllKinds, NEW o, Ready(k, o), NEW b, IsBlock(b)
  PROVE  /\ SelfHealing(k) \/ o.first = <<>> => Intermediate(k, o, b) = Symbols(k[1], b)
         /\ k[1] \in {"delta", "for"} =>
              Intermediate(k, o, b) = o.first \o Symbols(k[1], b)
         /\ Intermediate(k, o, b) \in Seq(Word)
         /\ Intermediate(k, o, b) # <<>>
         /\ k[1] = "rle" /\ SelfHealing(k) => Primed(Intermediate(k, o, b))
<1>1. b \in Seq(Word) /\ b # <<>> /\ o.first \in Seq(Word) /\ Len(b) < Half
  BY DEF IsBlock, Ready, Object
<1>2. Symbols(k[1], b) \in Seq(Word) /\ Symbols(k[1], b) # <<>>
  BY SymbolsType
<1>3. CASE k[1] = "none"
  BY <1>1, <1>3 DEF Intermediate, Symbols
<1>4. CASE k[1] = "rle"
  <2>1. Intermediate(k, o, b) = RleEncode(o.first, b)
    BY <1>4 DEF Intermediate, LogicalEncode
  <2>2. CASE Primed(o.first)
    <3>1. RleEncode(o.first, b) = Symbols(k[1], b) /\ Primed(RleEncode(o.first, b))
      BY <1>1, <1>4, <2>2, RleEncodeIs, RleEncodeType DEF Symbols
    <3> QED
      BY <1>2, <1>4, <2>1, <3>1
  <2>3. CASE ~ Primed(o.first)
    <3>1. ~ SelfHealing(k) /\ o.first # <<>>
      BY <1>4, <2>3, PrimedFacts DEF Ready
    <3> DEFINE r == Resize(o.first, 2)
               p == RlePairs(b)
    <3>2. r \in Seq(Word)
      BY <1>1, ResizeType
    <3>3. p \in Seq(Word) /\ p # <<>>
      BY PairsType
    <3>4. RleEncode(o.first, b) = r \o p
      BY DEF RleEncode
    <3> HIDE DEF r, p
    <3>5. r \o p \in Seq(Word) /\ r \o p # <<>>
      BY <3>2, <3>3, ConcatEqualIffEmpty
    <3> QED
      BY <1>4, <2>1, <3>1, <3>4, <3>5
  <2> QED
    BY <2>2, <2>3
<1>5. CASE k[1] \in {"delta", "for"}
  <2>1. Intermediate(k, o, b) = o.first \o Symbols(k[1], b)
    BY <1>5 DEF Intermediate, LogicalEncode, DeltaEncode, ForEncode, Symbols
  <2>2. o.first \o Symbols(k[1], b) # <<>>
    BY <1>1, <1>2, ConcatEqualIffEmpty
  <2>3. o.first \o Symbols(k[1], b) \in Seq(Word)
    BY <1>1, <1>2
  <2>4. <<>> \o Symbols(k[1], b) = Symbols(k[1], b)
    BY <1>2, ConcatEmptySeq
  <2> QED
    BY <1>5, <2>1, <2>2, <2>3, <2>4 DEF SelfHealing
<1> QED
  BY <1>3, <1>4, <1>5, KindFacts

\* Whatever a scheme gives back is an array of words of the same length.
LEMMA KeptType ==
  ASSUME NEW p, NEW mid \in Seq(Word)
  PROVE  /\ Kept(p, mid) \in Seq(Word) /\ Len(Kept(p, mid)) = Len(mid)
         /\ p # "lossy" => Kept(p, mid) = mid
<1> DEFINE given == [i \in 1 .. Len(mid) |-> Garble[mid[i]]]
<1>1. \A i \in 1 .. Len(mid) : Garble[mid[i]] \in Word
  BY BrokenAssumption, ElementOfSeq
<1>2. given \in Seq(Word) /\ Len(given) = Len(mid)
  BY <1>1
<1> QED
  BY <1>2 DEF Kept

\* Both parts of an array fit if the whole does.
LEMMA FitsConcat ==
  ASSUME NEW s \in Seq(Word), NEW t \in Seq(Word)
  PROVE  Fits(s \o t) <=> Fits(s) /\ Fits(t)
<1> DEFINE w == s \o t
           n == Len(s)
<1>1. /\ n \in Nat /\ Len(t) \in Nat /\ DOMAIN s = 1 .. n /\ DOMAIN t = 1 .. Len(t)
      /\ DOMAIN w = 1 .. n + Len(t)
      /\ \A i \in 1 .. n + Len(t) : w[i] = IF i <= n THEN s[i] ELSE t[i - n]
  <2>1. w \in Seq(Word) /\ Len(w) = n + Len(t)
    BY ConcatProperties
  <2> QED
    BY <2>1, ConcatProperties, LenProperties
<1> HIDE DEF w, n
<1>2. ASSUME Fits(w) PROVE Fits(s) /\ Fits(t)
  <2>1. \A i \in 1 .. n : i \in 1 .. n + Len(t) /\ w[i] = s[i]
    BY <1>1
  <2>2. \A i \in 1 .. Len(t) : n + i \in 1 .. n + Len(t) /\ w[n + i] = t[i]
    <3>1. ASSUME NEW i \in 1 .. Len(t)
          PROVE  n + i \in 1 .. n + Len(t) /\ ~ (n + i <= n) /\ n + i - n = i
      BY <1>1
    <3> QED
      BY <1>1, <3>1
  <2> QED
    BY <1>1, <1>2, <2>1, <2>2 DEF Fits
<1>3. ASSUME Fits(s), Fits(t) PROVE Fits(w)
  <2>1. \A i \in 1 .. n + Len(t) : ~ (i <= n) => i - n \in 1 .. Len(t)
    BY <1>1
  <2>2. \A i \in 1 .. n + Len(t) : i <= n => i \in 1 .. n
    BY <1>1
  <2> QED
    BY <1>1, <1>3, <2>1, <2>2 DEF Fits
<1> QED
  BY <1>2, <1>3 DEF w

\* EncodeArray, whether it returns or throws, leaves an object as ready as before.
LEMMA EncodeReady ==
  ASSUME NEW k \in AllKinds, NEW o, Ready(k, o), NEW b, IsBlock(b)
  PROVE  Ready(k, EncodeArray(k, o, b))
<1> DEFINE mid == Intermediate(k, o, b)
           second == IF Throws(k, o, b) THEN <<>> ELSE Kept(k[2], mid)
<1>1. /\ mid \in Seq(Word) /\ Len(mid) \in Nat
      /\ k[1] = "rle" /\ SelfHealing(k) => Primed(mid)
  <2>1. mid \in Seq(Word) /\ (k[1] = "rle" /\ SelfHealing(k) => Primed(mid))
    BY IntermediateValue
  <2> QED
    BY <2>1, LenProperties
<1>2. <<>> \in Seq(Word) /\ Primed(<<>>)
  BY PrimedFacts
<1>3. second \in Seq(Word) /\ (k[1] = "rle" /\ SelfHealing(k) => Primed(second))
  <2>1. k[1] = "rle" /\ SelfHealing(k) => k[2] # "lossy"
    BY DEF SelfHealing
  <2> QED
    BY <1>1, <1>2, <2>1, KeptType
<1>4. EncodeArray(k, o, b) =
        IF k[2] = "none" THEN [o EXCEPT !.first = mid]
        ELSE IF ~ Cascade(k) THEN [o EXCEPT !.second = second]
        ELSE [first  |-> IF Throws(k, o, b) THEN mid ELSE <<>>,
              second |-> second, inter  |-> Len(mid)]
  BY DEF EncodeArray
<1> HIDE DEF mid, second
<1> QED
  BY <1>1, <1>2, <1>3, <1>4 DEF Ready, Object

\* So do a fresh object and clear(),
LEMMA CleanReady ==
  ASSUME NEW k
  PROVE  /\ Ready(k, Fresh)
         /\ \A o : Ready(k, o) => Ready(k, Clear(o))
<1>1. <<>> \in Seq(Word) /\ Primed(<<>>)
  BY PrimedFacts
<1>2. Ready(k, Fresh)
  BY <1>1, Zenon DEF Ready, Object, Fresh
<1>3. ASSUME NEW o, Ready(k, o) PROVE Ready(k, Clear(o))
  <2> DEFINE c == Clear(o)
  <2>1. c \in Object /\ c.first = <<>> /\ c.second = <<>>
    BY <1>1, <1>3 DEF Ready, Object, Clear
  <2> HIDE DEF c
  <2>2. Ready(k, c)
    BY <1>1, <2>1 DEF Ready
  <2> QED
    BY <2>2 DEF c
<1> QED
  BY <1>2, <1>3

\* DecodeArray, whether it returns or throws, with whatever written so far,
LEMMA DecodeReady ==
  ASSUME NEW k \in AllKinds, NEW o, Ready(k, o)
  PROVE  /\ Ready(k, AfterDecode(k, o))
         /\ DecodeFails(k, o) => \A q \in AfterFailedDecode(k, o) : Ready(k, q)
<1>1. Ready(k, AfterDecode(k, o))
  BY DEF Ready, Object, AfterDecode
<1> DEFINE room     == Resize(o.first, o.inter + Slots)
           over(in) == [i \in DOMAIN room |-> IF i <= Len(in) THEN in[i] ELSE room[i]]
<1>2. o.first \in Seq(Word) /\ o.inter \in Nat /\ o.inter + Slots \in Nat
  BY BrokenAssumption DEF Ready, Object
<1>3. room \in Seq(Word) /\ DOMAIN room = 1 .. o.inter + Slots
  BY <1>2, ResizeType
<1>4. AfterFailedDecode(k, o)
        = IF Cascade(k) THEN {[o EXCEPT !.first = over(in)] : in \in Partials} ELSE {o}
  BY DEF AfterFailedDecode
<1> HIDE DEF room
<1>5. ASSUME NEW in \in Partials PROVE over(in) \in Seq(Word)
  <2>1. in \in Seq(Word)
    BY BrokenAssumption
  <2>2. ASSUME NEW i \in 1 .. o.inter + Slots
        PROVE  (IF i <= Len(in) THEN in[i] ELSE room[i]) \in Word
    <3>1. room[i] \in Word
      BY <1>2, <1>3, LenProperties, ElementOfSeq
    <3>2. i <= Len(in) => in[i] \in Word
      BY <1>2, <2>1, LenProperties, ElementOfSeq
    <3> QED
      BY <3>1, <3>2
  <2> QED
    BY <1>2, <1>3, <2>2
<1> HIDE DEF over
<1>6. ASSUME DecodeFails(k, o), NEW q \in AfterFailedDecode(k, o) PROVE Ready(k, q)
  <2>1. ~ (k[1] = "rle" /\ SelfHealing(k))
    BY <1>6 DEF DecodeFails, SelfHealing
  <2> QED
    BY <1>4, <1>5, <1>6, <2>1 DEF Ready, Object
<1> QED
  BY <1>1, <1>6

\* and BenchDecode, which restores no more than the physical codec delivers.
LEMMA BenchDecodeReady ==
  ASSUME NEW k, NEW o, Ready(k, o), o.inter = Len(o.second)
  PROVE  Ready(k, AfterBenchDecode(k, o))
<1> DEFINE r == BenchRestored(o)
<1>1. o.first \in Seq(Word) /\ o.second \in Seq(Word) /\ o.inter \in Nat
  BY DEF Ready, Object
<1>2. /\ r \in Seq(Word) /\ Len(r) = o.inter
      /\ \A i \in 1 .. o.inter : r[i] = IF i <= Len(o.first) THEN o.second[i] ELSE 0
  <2>1. \A i \in 1 .. o.inter : (IF i <= Len(o.first) THEN o.second[i] ELSE 0) \in Word
    BY <1>1, HalfAssumption DEF Word
  <2> QED
    BY <1>1, <2>1 DEF BenchRestored
<1> HIDE DEF r
<1>3. Primed(o.second) => Primed(r)
  <2> SUFFICES ASSUME Primed(o.second), NEW i \in 1 .. 2, i <= Len(r) PROVE r[i] = 0
    BY PrimedFacts
  <2>1. i \in 1 .. o.inter /\ (i <= Len(o.second) => o.second[i] = 0)
    BY <1>2, PrimedFacts
  <2> QED
    BY <1>2, <2>1
<1>4. Ready(k, [o EXCEPT !.first = r, !.second = <<>>])
  <2>1. <<>> \in Seq(Word) /\ Primed(<<>>)
    BY PrimedFacts
  <2>2. k[1] = "rle" /\ SelfHealing(k) => Primed(r)
    BY <1>3 DEF Ready
  <2> HIDE DEF Primed
  <2> QED
    BY <1>2, <2>1, <2>2 DEF Ready, Object
<1> QED
  BY <1>4 DEF AfterBenchDecode, r

(***************************************************************************)
(* Decoding depends on the encoding an object holds and on nothing else.   *)
(***************************************************************************)
LEMMA EncodingDecides ==
  ASSUME NEW k \in AllKinds, NEW o, NEW p, Encoded(k, o) = Encoded(k, p), NEW n
  PROVE  /\ Delivered(k, o, n) = Delivered(k, p, n)
         /\ DecodeFails(k, o) <=> DecodeFails(k, p)
         /\ EncodedNumValues(k, o) = EncodedNumValues(k, p)
<1>1. k[2] # "none" => o.second = p.second
  BY DEF Encoded
<1>2. k[1] = "none" => k[2] # "none"
  BY KindFacts
<1> QED
  BY <1>1, <1>2 DEF Delivered, DecodeFails, EncodedNumValues

(***************************************************************************)
(* What an EncodeArray leaves to be decoded: what the physical codec, if   *)
(* any, keeps of the intermediate array.                                   *)
(***************************************************************************)
LEMMA EncodedValue ==
  ASSUME NEW k \in AllKinds, NEW o, Ready(k, o), NEW b, ~ Throws(k, o, b)
  PROVE  Encoded(k, EncodeArray(k, o, b)) = Kept(k[2], Intermediate(k, o, b))
<1>1. DOMAIN o = {"first", "second", "inter"}
  BY DEF Ready, Object
<1> QED
  BY <1>1 DEF EncodeArray, Encoded, Kept

(***************************************************************************)
(* A codec that heals itself encodes a block as a fresh one does, and      *)
(* refuses the blocks a fresh one refuses, whatever calls came before.     *)
(* The others do so when their logical codec is empty.                     *)
(***************************************************************************)
LEMMA EncodesAsFresh ==
  ASSUME NEW k \in AllKinds, NEW o, Ready(k, o), NEW b, IsBlock(b),
         SelfHealing(k) \/ o.first = <<>>
  PROVE  /\ Intermediate(k, o, b) = Symbols(k[1], b)
         /\ Throws(k, o, b) <=> Throws(k, Fresh, b)
         /\ ~ Throws(k, o, b) => Encoded(k, EncodeArray(k, o, b))
                                   = Encoded(k, EncodeArray(k, Fresh, b))
<1>1. Ready(k, Fresh) /\ Fresh.first = <<>>
  BY CleanReady DEF Fresh
<1>2. /\ Intermediate(k, o, b) = Symbols(k[1], b)
      /\ Intermediate(k, Fresh, b) = Symbols(k[1], b)
  BY <1>1, IntermediateValue
<1>3. Throws(k, o, b) <=> Throws(k, Fresh, b)
  BY <1>2 DEF Throws
<1> QED
  BY <1>1, <1>2, <1>3, EncodedValue

(***************************************************************************)
(* DecodeArray of an object that holds exactly the symbols of a block      *)
(* delivers the block, for each logical codec, bare or in a cascade.       *)
(***************************************************************************)
LEMMA SymbolsDeliver ==
  ASSUME NEW k \in AllKinds, NEW o, NEW b, IsBlock(b), Encoded(k, o) = Symbols(k[1], b)
  PROVE  Delivered(k, o, Len(b)) = b
<1>1. b \in Seq(Word) /\ b # <<>>
  BY DEF IsBlock
<1>2. CASE k[1] = "none"
  <2>1. o.second = b
    BY <1>2, KindFacts DEF Encoded, Symbols
  <2> QED
    BY <1>1, <1>2, <2>1, SubSeqFull DEF Delivered
<1>3. CASE k[1] = "delta"
  <2>1. DeltaSymbols(b) \o <<>> = DeltaSymbols(b) /\ <<>> \in Seq(Word)
    BY <1>1, DeltaSymbolsType, ConcatEmptySeq
  <2>2. DeltaDecode(DeltaSymbols(b), Len(b)) = b
    BY <1>1, <2>1, DeltaRoundTrip
  <2> QED
    BY <1>3, <2>2 DEF Delivered, Symbols, LogicalDecode
<1>4. CASE k[1] = "for"
  <2>1. ForSymbols(b) \o <<>> = ForSymbols(b) /\ <<>> \in Seq(Word)
    BY <1>1, ForSymbolsType, ConcatEmptySeq
  <2>2. ForDecode(ForSymbols(b), Len(b)) = b
    BY <1>1, <2>1, ForRoundTrip
  <2> QED
    BY <1>4, <2>2 DEF Delivered, Symbols, LogicalDecode
<1>5. CASE k[1] = "rle"
  <2>1. RleEncode(<<>>, b) = <<0, 0>> \o RlePairs(b)
    BY <1>1, PrimedFacts, RleEncodeIs
  <2>2. RleDecode(<<0, 0>> \o RlePairs(b)) = b
    BY <1>1, <2>1, PrimedFacts, RleRoundTrip
  <2> QED
    BY <1>5, <2>2 DEF Delivered, Symbols, LogicalDecode
<1> QED
  BY <1>2, <1>3, <1>4, <1>5, KindFacts
=============================================================================

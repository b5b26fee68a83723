----------------------------- MODULE VectorCodecs -----------------------------
(***************************************************************************)
(* The nine classes of custom_vec_logic_codecs.h: delta, frame of          *)
(* reference and run length over SSE, AVX2 and AVX-512 registers.          *)
(*                                                                         *)
(* The scalar codecs take every difference to the value before; here a     *)
(* register of differences is taken at once, to values its class picks     *)
(* from the register before.  What has to match between EncodeArray and    *)
(* DecodeArray is that choice, so it is what this module keeps: the        *)
(* registers a loop visits and, for each value, its anchor.                *)
(* Positions count from 1; position p is in[p - 1].                        *)
(***************************************************************************)
EXTENDS LogicalCodecs

CONSTANTS
  Lanes,       \* the number of values in a register: 4, 8 and 16 in the code
  SizeModulus  \* a size_t is reduced modulo this

Isas    == {"sse42", "avx2", "avx512"}
Schemes == {"delta", "for", "rle"}

ASSUME LanesAssumption ==
  /\ Lanes \in [Isas -> Nat \ {0, 1}]
  /\ SizeModulus \in Nat
  /\ \A isa \in Isas : Lanes[isa] < SizeModulus

-------------------------------------------------------------------------------
(***************************************************************************)
(* Where the registers of a loop start.  The loops `i < length - 4` leave  *)
(* at least one value to the scalar tail, and their bound is unsigned; the *)
(* loops `i + 8 <= length` visit every whole register.                     *)
(***************************************************************************)
SizeMinus(n, m) == (n - m) % SizeModulus

StrictRegisters(first, n, lanes) ==
  {s \in first .. SizeModulus :
     (s - first) % lanes = 0 /\ s - 1 < SizeMinus(n, lanes)}

\* A plausible slip: one register too many when the block ends inside it.
WholeRegistersOneMore(n, lanes) ==
  {s \in 1 .. n : (s - 1) % lanes = 0}

WholeRegisters(n, lanes) ==
  {s \in 1 .. n : (s - 1) % lanes = 0 /\ s - 1 + lanes <= n}

\* Positions that are zigzagged as they are, before any difference.
Heads(isa, n) ==
  IF isa # "sse42" /\ n >= Lanes[isa] THEN Lanes[isa] ELSE 1

DeltaRegisters(isa, n) ==
  IF n = 0 \/ (isa # "sse42" /\ n < Lanes[isa]) THEN {}
  ELSE StrictRegisters(Heads(isa, n) + 1, n, Lanes[isa])

ForRegisters(isa, n) ==
  IF n = 0 THEN {}
  ELSE IF isa = "sse42" THEN StrictRegisters(1, n, Lanes[isa])
                        ELSE WholeRegisters(n, Lanes[isa])

Registers(scheme, isa, n) ==
  CASE scheme = "delta" -> DeltaRegisters(isa, n)
    [] scheme = "for"   -> ForRegisters(isa, n)
    [] scheme = "rle"   -> {}

\* A load or a store of a register goes past the end of the block.
Overruns(scheme, isa, n) ==
  \E s \in Registers(scheme, isa, n) : s + Lanes[isa] - 1 > n

-------------------------------------------------------------------------------
(***************************************************************************)
(* Delta.  The first register after the heads is compared lane by lane     *)
(* with the heads where these are a register; later ones with the last     *)
(* value of the register before (a broadcast), or with its last two        *)
(* values in turn (_mm256_permute4x64_epi64 broadcasts 64 bits).           *)
(***************************************************************************)
AnchorSse(s, p) == s - 1

AnchorAvx2(s, p) ==
  IF s = Lanes["avx2"] + 1 THEN p - Lanes["avx2"] ELSE s - 2 + ((p - s) % 2)

AnchorAvx512(s, p) ==
  IF s = Lanes["avx512"] + 1 THEN p - Lanes["avx512"] ELSE s - 1

InRegister(isa, n, p) ==
  {s \in DeltaRegisters(isa, n) : s <= p /\ p < s + Lanes[isa]}

\* The position a value's difference is taken to; 0 where it is taken to 0.
Anchor(isa, n, p) ==
  IF InRegister(isa, n, p) = {}
  THEN IF p <= Heads(isa, n) THEN 0 ELSE p - 1
  ELSE LET s == CHOOSE r \in InRegister(isa, n, p) : TRUE
       IN  CASE isa = "sse42"  -> AnchorSse(s, p)
             [] isa = "avx2"   -> AnchorAvx2(s, p)
             [] isa = "avx512" -> AnchorAvx512(s, p)

\* DeltaCodecAVX2 copies a block that does not fill a register.
Copied(isa, n) == isa = "avx2" /\ n < Lanes[isa]

DeltaOf(isa, in, p) ==
  LET a == Anchor(isa, Len(in), p)
  IN  Wrap(in[p] - (IF a = 0 THEN 0 ELSE in[a]))

VecDeltaSymbols(isa, in) ==
  IF Copied(isa, Len(in)) THEN in
  ELSE [p \in 1 .. Len(in) |-> Symbol(DeltaOf(isa, in, p))]

(***************************************************************************)
(* (encoded >> 1) ^ -(encoded & 1) on a SIGNED word, and _mm_srai_epi32:   *)
(* the shift repeats the sign.  Only _mm256_srli_epi32 and its AVX-512     *)
(* sibling, in the delta codecs, shift in a zero.                          *)
(***************************************************************************)
RecoverSigned(e) == UnzigzagArithmetic(ToUnsigned(e))

ShiftsInZero(isa, n, p) == isa # "sse42" /\ InRegister(isa, n, p) # {}

\* A plausible slip: the scalar rule where a register was encoded.
VecDeltaDecodeByNeighbour(isa, held, n) ==
  LET out[p \in 1 .. n] ==
        Wrap(RecoverSigned(held[p]) + (IF p <= Heads(isa, n) THEN 0 ELSE out[p - 1]))
  IN  IF Copied(isa, n) THEN SubSeq(held, 1, n) ELSE out

VecDeltaDecode(isa, held, n) ==
  LET out[p \in 1 .. n] ==
        LET a == Anchor(isa, n, p)
            d == IF ShiftsInZero(isa, n, p) THEN Recover(held[p])
                                            ELSE RecoverSigned(held[p])
        IN  Wrap(d + (IF a = 0 THEN 0 ELSE out[a]))
  IN  IF Copied(isa, n) THEN SubSeq(held, 1, n) ELSE out

-------------------------------------------------------------------------------
(***************************************************************************)
(* Frame of reference.  The minimum is taken lane by lane from INT_MAX on, *)
(* then over the lanes, then over the values the registers left.           *)
(***************************************************************************)
InLanes(isa, in) ==
  {in[p] : p \in UNION {s .. s + Lanes[isa] - 1 : s \in ForRegisters(isa, Len(in))}}

InTail(isa, in) ==
  {in[p] : p \in {q \in 1 .. Len(in) :
     \A s \in ForRegisters(isa, Len(in)) : s + Lanes[isa] <= q}}

\* A plausible slip: the tail is left out of the minimum.
ReferenceOfLanes(isa, in) == Min({Half - 1} \cup InLanes(isa, in))

Reference(isa, in) == Min({Half - 1} \cup InLanes(isa, in) \cup InTail(isa, in))

VecForEncode(isa, held, in) ==
  IF in = <<>> THEN Resize(held, 1)
  ELSE LET reference == Reference(isa, in)
       IN  <<reference>> \o [p \in 1 .. Len(in) |-> Symbol(in[p] - reference)]

\* A plausible slip: a sum that is kept in a wider type than the word.
VecForDecodeNoWrap(held, n) ==
  [p \in 1 .. n |-> RecoverSigned(held[p + 1]) + held[1]]

VecForDecode(held, n) ==
  [p \in 1 .. n |-> Wrap(RecoverSigned(held[p + 1]) + held[1])]

-------------------------------------------------------------------------------
(***************************************************************************)
(* Run length.  The run that starts at i is first extended by registers of *)
(* neighbours that are equal, up to the first unequal lane, then value by  *)
(* value.                                                                  *)
(***************************************************************************)
EqualLanes(isa, in, at) == {j \in 0 .. Lanes[isa] - 1 : in[at + j] = in[at + j - 1]}

\* A plausible slip: the first unequal value is counted in.
ByRegistersOneMore(isa, in, i) ==
  LET run[r \in 1 .. Len(in)] ==
        LET unequal == (0 .. Lanes[isa] - 1) \ EqualLanes(isa, in, i + r)
        IN  IF i + r + Lanes[isa] - 1 > Len(in) THEN r
            ELSE IF unequal = {} THEN run[r + Lanes[isa]] ELSE r + Min(unequal) + 1
  IN  run[1]

ByRegisters(isa, in, i) ==
  LET run[r \in 1 .. Len(in)] ==
        LET unequal == (0 .. Lanes[isa] - 1) \ EqualLanes(isa, in, i + r)
        IN  IF i + r + Lanes[isa] - 1 > Len(in) THEN r
            ELSE IF unequal = {} THEN run[r + Lanes[isa]] ELSE r + Min(unequal)
  IN  run[1]

RunLength(isa, in, i) ==
  LET run[r \in 1 .. Len(in)] ==
        IF i + r <= Len(in) /\ in[i + r] = in[i] THEN run[r + 1] ELSE r
  IN  run[Min({ByRegisters(isa, in, i), Len(in) - i + 1})]

VecRlePairs(isa, in) ==
  LET from[i \in 1 .. Len(in) + 1] ==
        IF i > Len(in) THEN <<>>
        ELSE <<in[i], RunLength(isa, in, i)>> \o from[i + RunLength(isa, in, i)]
  IN  from[1]

(***************************************************************************)
(* AllocEncoded resizes where it should reserve: an encoding starts with   *)
(* that many elements of what the vector held before, zeros in a fresh     *)
(* one, and the pairs are pushed after them.                               *)
(***************************************************************************)
RleSlots(isa, n) == 2 * (n \div Lanes[isa] + 1)

VecRleEncode(isa, held, in) == Resize(held, RleSlots(isa, Len(in))) \o VecRlePairs(isa, in)

\* Registers of a value, then value by value: as many values as the pair says.
VecRleDecode(held) == RleDecode(held)

-------------------------------------------------------------------------------
\* AllocEncoded and EncodeArray on an object whose compressed_data is held.
VecEncode(scheme, isa, held, in) ==
  CASE scheme = "delta" -> VecDeltaSymbols(isa, in)
    [] scheme = "for"   -> VecForEncode(isa, held, in)
    [] scheme = "rle"   -> VecRleEncode(isa, held, in)

VecDecode(scheme, isa, held, n) ==
  CASE scheme = "delta" -> VecDeltaDecode(isa, held, n)
    [] scheme = "for"   -> VecForDecode(held, n)
    [] scheme = "rle"   -> VecRleDecode(held)
===============================================================================

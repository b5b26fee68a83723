----------------------------- MODULE CodecObjects -----------------------------
(***************************************************************************)
(* The stateful codec objects of the repository behind one interface       *)
(* (StatefulIntegerCodec).  A kind is a pair <<l, p>>: a logical codec or  *)
(* "none", and a physical codec or "none".  <<"delta", "none">> is a bare  *)
(* DeltaCodec, <<"none", "simd">> a bare SimdCompCodec, and                *)
(* <<"delta", "pfor">> the cascade (CompositeStatefulIntegerCodec) of one  *)
(* with the other.                                                         *)
(*                                                                         *)
(* An object is [first, second, inter]: compressed_data of the logical     *)
(* codec, the compressed buffer of the physical one (as the array it       *)
(* stands for, empty when it stands for none) and intermediateEncodedSize. *)
(* The physical codecs are libraries outside src/: "simd" gives back what  *)
(* it took; "pfor" does too, but throws on an array with a value of Limit  *)
(* or more read as unsigned, as FastPFor_Simple16 does from 2^28 on.  Two  *)
(* stand for the schemes the tests list as broken: they take such an array *)
(* and then "lossy" gives back another, whatever it may be, and "fragile"  *)
(* throws, having written whatever it may have written.  The libraries     *)
(* keep nothing from one call to the next: the FastPForCodecs of a pool    *)
(* that are clones of one another share one IntegerCODEC.                  *)
(***************************************************************************)
EXTENDS LogicalCodecs

CONSTANTS Limit,
          Garble,   \* what the lossy scheme makes of the words of an array
          Partials, \* what a decoding that throws may have written before
          Slots     \* GetOverflowSize of the fragile scheme

ASSUME LimitAssumption == Limit \in 1 .. 2 * Half
ASSUME BrokenAssumption ==
  Garble \in [Word -> Word] /\ Partials \subseteq Seq(Word) /\ Slots \in Nat

Logical  == {"delta", "for", "rle"}
Physical == {"simd", "pfor", "lossy", "fragile"}
AllKinds == ((Logical \cup {"none"}) \X (Physical \cup {"none"}))
              \ {<<"none", "none">>}

\* The kinds the tests expect to round-trip.
SoundKinds == {k \in AllKinds : k[2] \notin {"lossy", "fragile"}}

Cascade(kind) == kind[1] # "none" /\ kind[2] # "none"

\* The constructors, and so CloneFresh.
Fresh == [first |-> <<>>, second |-> <<>>, inter |-> 0]

LogicalEncode(l, held, in) == CASE l = "delta" -> DeltaEncode(held, in)
                                [] l = "for"   -> ForEncode(held, in)
                                [] l = "rle"   -> RleEncode(held, in)

LogicalDecode(l, held, n) == CASE l = "delta" -> DeltaDecode(held, n)
                               [] l = "for"   -> ForDecode(held, n)
                               [] l = "rle"   -> RleDecode(held)

(***************************************************************************)
(* What an encoding hands to the physical codec; for a bare physical codec *)
(* it is the input itself.                                                 *)
(***************************************************************************)
Intermediate(kind, o, in) ==
  IF kind[1] = "none" THEN in ELSE LogicalEncode(kind[1], o.first, in)

Fits(mid) == \A i \in DOMAIN mid : ToUnsigned(mid[i]) < Limit

Representable(p, mid) == p = "pfor" => Fits(mid)

\* Whether decoding what was taken throws.
DecodeFails(kind, o) == kind[2] = "fragile" /\ ~ Fits(o.second)

\* The array a physical codec gives back for the one it took.
Kept(p, mid) ==
  IF p = "lossy" /\ ~ Fits(mid) THEN [i \in 1 .. Len(mid) |-> Garble[mid[i]]]
  ELSE mid

Throws(kind, o, in) == ~ Representable(kind[2], Intermediate(kind, o, in))

\* A plausible slip: the intermediate array is given up whether or not the
\* physical codec throws.
EncodeArrayReleases(kind, o, in) ==
  LET mid    == Intermediate(kind, o, in)
      second == IF Throws(kind, o, in) THEN <<>> ELSE Kept(kind[2], mid)
  IN  IF kind[2] = "none" THEN [o EXCEPT !.first = mid]
      ELSE IF ~ Cascade(kind) THEN [o EXCEPT !.second = second]
      ELSE [first |-> <<>>, second |-> second, inter |-> Len(mid)]

(***************************************************************************)
(* AllocEncoded followed by EncodeArray.  A physical codec that throws     *)
(* leaves a buffer that is the encoding of nothing, and leaves the cascade *)
(* before firstCodec->clear().                                             *)
(***************************************************************************)
EncodeArray(kind, o, in) ==
  LET mid    == Intermediate(kind, o, in)
      second == IF Throws(kind, o, in) THEN <<>> ELSE Kept(kind[2], mid)
  IN  IF kind[2] = "none" THEN [o EXCEPT !.first = mid]
      ELSE IF ~ Cascade(kind) THEN [o EXCEPT !.second = second]
      ELSE [first  |-> IF Throws(kind, o, in) THEN mid ELSE <<>>,
            second |-> second,
            inter  |-> Len(mid)]

\* The buffer an object holds its encoding in, and EncodedNumValues.
Encoded(kind, o) == IF kind[2] = "none" THEN o.first ELSE o.second

EncodedNumValues(kind, o) == Len(Encoded(kind, o))

(***************************************************************************)
(* DecodeArray: what it writes to the output, and what it leaves behind.   *)
(* A cascade decodes the physical codec into the buffer of the logical one *)
(* and does not clear that buffer afterwards.                              *)
(***************************************************************************)
Delivered(kind, o, n) ==
  IF kind[1] = "none" THEN SubSeq(o.second, 1, n)
  ELSE LogicalDecode(kind[1], Encoded(kind, o), n)

AfterDecode(kind, o) ==
  IF Cascade(kind) THEN [o EXCEPT !.first = o.second] ELSE o

(***************************************************************************)
(* The second codec throws when the buffer of the first has been resized,  *)
(* overflow slots included, and perhaps written to; the buffer stays so.   *)
(***************************************************************************)
AfterFailedDecode(kind, o) ==
  LET room     == Resize(o.first, o.inter + Slots)
      over(in) == [i \in DOMAIN room |-> IF i <= Len(in) THEN in[i] ELSE room[i]]
  IN  IF Cascade(kind) THEN {[o EXCEPT !.first = over(in)] : in \in Partials}
                       ELSE {o}

(***************************************************************************)
(* BenchDecode of a cascade reserves room instead of resizing: what the    *)
(* physical codec writes beyond the vector's size is overwritten with      *)
(* zeros when the vector is resized, and the physical codec is cleared.    *)
(***************************************************************************)
BenchRestored(o) ==
  [i \in 1 .. o.inter |-> IF i <= Len(o.first) THEN o.second[i] ELSE 0]

AfterBenchDecode(kind, o) ==
  IF Cascade(kind) THEN [o EXCEPT !.first = BenchRestored(o), !.second = <<>>]
  ELSE o

\* clear() empties the buffers and leaves intermediateEncodedSize alone.
Clear(o) == [o EXCEPT !.first = <<>>, !.second = <<>>]

(***************************************************************************)
(* Codecs whose AllocEncoded or EncodeArray discards what an earlier call  *)
(* left: the physical codecs on their own, and RLECodec.  What resize(2)   *)
(* keeps of an RLECodec's vector is the zero run it started with, unless a *)
(* scheme that does not round-trip has decoded something else over it.     *)
(***************************************************************************)
SelfHealing(k) == \/ k[1] = "none"
                  \/ k[1] = "rle" /\ k[2] \notin {"lossy", "fragile"}
=============================================================================

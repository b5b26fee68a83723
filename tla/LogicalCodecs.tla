----------------------------- MODULE LogicalCodecs -----------------------------
(***************************************************************************)
(* The three scalar logical codecs of custom_unvec_logic_codecs.h, as      *)
(* functions from what is in compressed_data before a call to what is in   *)
(* it (or in the output array) after it.  EncodeArray never empties        *)
(* compressed_data: it appends, which is the whole difficulty of using     *)
(* these objects twice.                                                    *)
(***************************************************************************)
EXTENDS Words, SequencesExt

Symbol(d)  == ToSigned(Zigzag(Wrap(d)))
Recover(e) == Unzigzag(ToUnsigned(e))

(***************************************************************************)
(* DeltaCodec: the first value, then the zigzagged differences.            *)
(***************************************************************************)
DeltaSymbols(in) ==
  [i \in 1 .. Len(in) |-> IF i = 1 THEN in[1] ELSE Symbol(in[i] - in[i - 1])]

DeltaEncode(held, in) == held \o DeltaSymbols(in)

DeltaDecodeNoWrap(held, n) ==
  LET out[i \in 1 .. n] ==
        IF i = 1 THEN held[1] ELSE Recover(held[i]) + out[i - 1]
  IN  out

DeltaDecode(held, n) ==
  LET out[i \in 1 .. n] ==
        IF i = 1 THEN held[1] ELSE Wrap(Recover(held[i]) + out[i - 1])
  IN  out

(***************************************************************************)
(* FORCodec: the minimum as the reference, then the zigzagged offsets from *)
(* it.  An offset may exceed the word and wrap; nothing is pushed for an   *)
(* empty array.                                                            *)
(***************************************************************************)
ForSymbols(in) ==
  IF in = <<>> THEN <<>>
  ELSE LET reference == Min(ToSet(in))
       IN  <<reference>> \o [i \in 1 .. Len(in) |-> Symbol(in[i] - reference)]

ForEncode(held, in) == held \o ForSymbols(in)

ForDecodeOffByOne(held, n) ==
  [i \in 1 .. n |-> Wrap(Recover(held[i]) + held[1])]

ForDecode(held, n) ==
  [i \in 1 .. n |-> Wrap(Recover(held[i + 1]) + held[1])]

(***************************************************************************)
(* RLECodec: pairs (value, run length).  AllocEncoded resizes the vector   *)
(* to two elements, so every encoding starts with a pair of its own, the   *)
(* zero run of a fresh vector, and whatever else the vector held is cut    *)
(* off.  DecodeArray walks all the pairs and ignores the length it is      *)
(* given.                                                                  *)
(***************************************************************************)
RunStarts(in) ==
  LET starts  == {i \in 1 .. Len(in) : i = 1 \/ in[i] # in[i - 1]}
      rank(i) == Cardinality({j \in starts : j <= i})
  IN  [k \in 1 .. Cardinality(starts) |-> CHOOSE i \in starts : rank(i) = k]

RlePairs(in) ==
  LET starts == RunStarts(in) \o <<Len(in) + 1>>
  IN  FlattenSeq([k \in 1 .. Len(starts) - 1 |->
                    <<in[starts[k]], starts[k + 1] - starts[k]>>])

ResizeKeep(held, n) == held

Resize(held, n) == [i \in 1 .. n |-> IF i <= Len(held) THEN held[i] ELSE 0]

RleEncode(held, in) == Resize(held, 2) \o RlePairs(in)

RleDecode(held) ==
  FlattenSeq([k \in 1 .. Len(held) \div 2 |->
                [i \in 1 .. held[2 * k] |-> held[2 * k - 1]]])
=============================================================================

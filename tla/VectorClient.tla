----------------------------- MODULE VectorClient -----------------------------
(***************************************************************************)
(* One object of a vectorised logical codec and a caller that encodes      *)
(* blocks of any length, decodes them, and cleans up or not in between.    *)
(* The block of the last EncodeArray is the last of written.               *)
(***************************************************************************)
EXTENDS VectorCodecs

CONSTANTS
  Blocks,      \* for each scheme, the blocks that are encoded
  MaxEncodes,  \* for each scheme, the bound on encodings without a clean-up
  Nothing

ASSUME VectorClientAssumption ==
  /\ \A x \in Schemes : Blocks[x] \subseteq Seq(Word) /\ MaxEncodes[x] \in Nat
  \* A run length is an int32_t, a loop index a size_t.
  /\ \A x \in Schemes : \A b \in Blocks[x] : Len(b) < Half /\ Len(b) < SizeModulus
  /\ Nothing \notin Seq(Word)

VARIABLES
  scheme, isa,  \* the class of the object
  held,         \* its compressed_data
  written,      \* the blocks encoded since the last clean-up
  out,          \* what the last DecodeArray delivered, or Nothing
  overrun       \* a register went past the end of the block
vars == <<scheme, isa, held, written, out, overrun>>

Init == /\ scheme \in Schemes /\ isa \in Isas
        /\ held = <<>>
        /\ written = <<>>
        /\ out = Nothing
        /\ overrun = FALSE

Block == written[Len(written)]

\* AllocEncoded and EncodeArray.
Encode(b) ==
  /\ ~ overrun /\ Len(written) < MaxEncodes[scheme]
  /\ ~ Overruns(scheme, isa, Len(b))
  /\ held' = VecEncode(scheme, isa, held, b)
  /\ written' = Append(written, b)
  /\ out' = Nothing
  /\ UNCHANGED <<scheme, isa, overrun>>

\* EncodeArray reads and writes beyond its arrays: nothing is known after it.
EncodeOverruns(b) ==
  /\ ~ overrun /\ Len(written) < MaxEncodes[scheme]
  /\ Overruns(scheme, isa, Len(b))
  /\ overrun' = TRUE
  /\ written' = Append(written, b)
  /\ out' = Nothing
  /\ UNCHANGED <<scheme, isa, held>>

Decode ==
  /\ ~ overrun /\ written # <<>>
  /\ out' = VecDecode(scheme, isa, held, Len(Block))
  /\ UNCHANGED <<scheme, isa, held, written, overrun>>

\* clear(), and the object CloneFresh() returns.
ClearObject ==
  /\ ~ overrun
  /\ held' = <<>> /\ written' = <<>> /\ out' = Nothing
  /\ UNCHANGED <<scheme, isa, overrun>>

Next == \/ \E b \in Blocks[scheme] : Encode(b) \/ EncodeOverruns(b)
        \/ Decode
        \/ ClearObject

Spec == Init /\ [][Next]_vars
-------------------------------------------------------------------------------
(***************************************************************************)
(* What an object holds and delivers are words: the type invariant.        *)
(***************************************************************************)
TypeOK ==
  /\ scheme \in Schemes /\ isa \in Isas
  /\ held \in Seq(Word)
  /\ written \in Seq(Blocks[scheme])
  /\ out \in Seq(Word) \cup {Nothing}
  /\ overrun \in BOOLEAN

(***************************************************************************)
(* Only the two SSE classes with an unsigned `length - 4` leave the block, *)
(* and only for a block shorter than a register; every other register of   *)
(* every loop lies inside its block, the last one included.                *)
(***************************************************************************)
OnlyShortSseBlocksOverrun ==
  overrun => /\ isa = "sse42" /\ scheme \in {"delta", "for"}
             /\ 0 < Len(Block) /\ Len(Block) < Lanes["sse42"]

(***************************************************************************)
(* The difference d survives a decoder that repeats the sign bit: it is in *)
(* the lower half of the range in magnitude.                               *)
(***************************************************************************)
Narrow(d) == -Half <= 2 * d /\ 2 * d < Half

\* The difference of position p of the block is decoded by such a shift.
DecodedSigned(p) ==
  CASE scheme = "for"   -> TRUE
    [] scheme = "delta" -> ~ Copied(isa, Len(Block)) /\ ~ ShiftsInZero(isa, Len(Block), p)

Difference(p) ==
  IF scheme = "for" THEN Wrap(Block[p] - Reference(isa, Block))
                    ELSE DeltaOf(isa, Block, p)

(***************************************************************************)
(* Delta and frame of reference: DecodeArray delivers the block, however   *)
(* often the object was used before, exactly when every difference that is *)
(* decoded with an arithmetic shift is narrow.  So each EncodeArray and    *)
(* its DecodeArray agree on the registers and on the anchors, values in    *)
(* the range the tests use always come back, and wider ones never do.      *)
(***************************************************************************)
RoundTripsExactlyWhenNarrow ==
  out # Nothing /\ scheme # "rle" =>
    (out = Block <=> \A p \in 1 .. Len(Block) : DecodedSigned(p) => Narrow(Difference(p)))

(***************************************************************************)
(* Run length: an object that was not cleaned up delivers the block        *)
(* exactly when no earlier block is still in it.  A block's runs stay when *)
(* AllocEncoded resized to more elements for every block since, and        *)
(* DecodeArray then writes values the last block does not have: encoding   *)
(* blocks of falling lengths, or of one length, needs no clean-up, and a   *)
(* longer block after a shorter one does.                                  *)
(***************************************************************************)
Remains(k) ==
  /\ written[k] # <<>>
  /\ \A j \in k + 1 .. Len(written) :
       RleSlots(isa, Len(written[j])) > RleSlots(isa, Len(written[k]))

RleHealsUnlessBlocksGrow ==
  out # Nothing /\ scheme = "rle" =>
    (out = Block <=> \A k \in 1 .. Len(written) - 1 : ~ Remains(k))

(***************************************************************************)
(* The registers change nothing in what is stored: a frame of reference    *)
(* codec holds what the scalar FORCodec pushes, and the pairs of a run     *)
(* length codec after the reserved elements are those of RLECodec.         *)
(***************************************************************************)
AgreesWithScalar ==
  written # <<>> /\ Block # <<>> /\ ~ overrun =>
    CASE scheme = "delta" -> Len(held) = Len(DeltaSymbols(Block))
      [] scheme = "for"   -> held = ForSymbols(Block)
      [] scheme = "rle"   ->
           SubSeq(held, RleSlots(isa, Len(Block)) + 1, Len(held)) = RlePairs(Block)
===============================================================================

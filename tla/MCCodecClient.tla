---------------------------- MODULE MCCodecClient ----------------------------
(***************************************************************************)
(* Small instances of CodecClient: words of two or three bits, every       *)
(* block of up to MaxLen values and all kinds of object.                   *)
(***************************************************************************)
EXTENDS CodecClient

CONSTANT MaxLen

MCKinds  == SoundKinds
MCBlocks == BoundedSeq(Word, MaxLen) \ {<<>>}

\* The values at which the arithmetic wraps and the physical codec throws.
EdgeWords    == {-Half, 0, Half - 1}
MCEdgeBlocks == BoundedSeq(EdgeWords, MaxLen) \ {<<>>}

\* For the schemes that do not round-trip, of which there are none here.
MCGarble == [v \in Word |-> v]

CascadeKinds == {k \in MCKinds : Cascade(k)}
=============================================================================

------------------------------ MODULE CodecClient ------------------------------
(***************************************************************************)
(* One codec object and a caller that makes every legal sequence of calls  *)
(* on it.  A caller with Reuse = FALSE cleans the object up before each    *)
(* encoding; a caller with Reuse = TRUE also encodes into an object that   *)
(* still carries an earlier call, which the interface does not forbid and  *)
(* the error paths of BenchmarkOneCodec do.                                *)
(***************************************************************************)
EXTENDS CodecObjects

CONSTANTS Kinds, Blocks, Reuse, MaxEncodes, Clean, Spent, Nothing

ASSUME KindsAssumption  == Kinds \subseteq SoundKinds
\* A block has blockSize * blockSize values, an int, and at least one.
ASSUME BlocksAssumption == /\ Blocks \subseteq Seq(Word) \ {<<>>}
                           /\ \A b \in Blocks : Len(b) < Half
ASSUME ReuseAssumption  == Reuse \in BOOLEAN /\ MaxEncodes \in Nat
ASSUME ClientMarks      == {Clean, Spent, Nothing} \cap Blocks = {}

VARIABLES
  kind,     \* the kind of the object
  obj,      \* the object
  status,   \* "clean", "holding" an encoding, or "spent"
  written,  \* the blocks encoded since the last clean-up
  out       \* what the last call delivered, or Nothing
vars == <<kind, obj, status, written, out>>

Init == /\ kind \in Kinds
        /\ obj = Fresh
        /\ status = "clean"
        /\ written = <<>>
        /\ out = Nothing

\* AllocEncoded and EncodeArray, or BenchEncode, which makes the same calls.
Encode(b) ==
  /\ Reuse \/ status = "clean"
  /\ Len(written) < MaxEncodes
  /\ obj' = EncodeArray(kind, obj, b)
  /\ status' = IF Throws(kind, obj, b) THEN "spent" ELSE "holding"
  /\ written' = Append(written, b)
  /\ out' = Nothing
  /\ UNCHANGED kind

Block == written[Len(written)]

Decode ==
  /\ status = "holding"
  /\ out' = Delivered(kind, obj, Len(Block))
  /\ obj' = AfterDecode(kind, obj)
  /\ UNCHANGED <<kind, status, written>>

\* BenchDecode where it is not DecodeArray with a clock around it.
BenchDecode ==
  /\ status = "holding" /\ Cascade(kind)
  /\ obj' = AfterBenchDecode(kind, obj)
  /\ status' = "spent"
  /\ out' = Nothing
  /\ UNCHANGED <<kind, written>>

ClearObject == /\ obj' = Clear(obj)
               /\ status' = "clean" /\ written' = <<>> /\ out' = Nothing
               /\ UNCHANGED kind

ReplaceByClone == /\ obj' = Fresh
                  /\ status' = "clean" /\ written' = <<>> /\ out' = Nothing
                  /\ UNCHANGED kind

Next == \/ \E b \in Blocks : Encode(b)
        \/ Decode
        \/ BenchDecode
        \/ ClearObject
        \/ ReplaceByClone

Spec == Init /\ [][Next]_vars
-------------------------------------------------------------------------------
(***************************************************************************)
(* The fields of an object are what its kind allows: the type invariant.   *)
(***************************************************************************)
TypeOK ==
  /\ kind \in Kinds
  /\ obj \in [first : Seq(Word), second : Seq(Word), inter : Nat]
  /\ status \in {"clean", "holding", "spent"}
  /\ written \in Seq(Blocks)
  /\ out \in Seq(Word) \cup {Nothing}

(***************************************************************************)
(* A decode delivers the block of the last EncodeArray, value for value    *)
(* and with no value too many, however often it is asked and whatever came *)
(* before, unless the object appends (DeltaCodec, FORCodec) and was not    *)
(* cleaned up in between.  RLECodec ignores the length it is asked for, so *)
(* for it this also says that it never writes beyond the caller's buffer.  *)
(***************************************************************************)
DeliversTheBlock ==
  out # Nothing => \/ out = Block
                   \/ ~ SelfHealing(kind) /\ Len(written) > 1

(***************************************************************************)
(* A bare DeltaCodec or FORCodec that is used again without a clean-up     *)
(* delivers the values of the FIRST block it was given, not of the last:   *)
(* EncodeArray appends and DecodeArray starts at compressed_data[0].       *)
(***************************************************************************)
StaleBlockWins ==
  out # Nothing /\ kind[2] = "none" /\ ~ SelfHealing(kind) =>
    \A i \in 1 .. Len(Block) : i <= Len(written[1]) => out[i] = written[1][i]

(***************************************************************************)
(* An object that holds an encoding holds the encoding of that block       *)
(* alone, so the size a caller reports is the block's own, whenever the    *)
(* object was clean or heals itself.                                       *)
(***************************************************************************)
SizeIsOfTheBlock ==
  status = "holding" /\ (SelfHealing(kind) \/ Len(written) = 1) =>
    EncodedNumValues(kind, obj)
      = EncodedNumValues(kind, EncodeArray(kind, Fresh, Block))

(***************************************************************************)
(* When EncodeArray throws: for the block it is given, and in a cascade    *)
(* over DeltaCodec or FORCodec also for each block before it, back to the  *)
(* last clean-up.  The array the physical codec refused stays in front of  *)
(* whatever is encoded next, so one refusal is repeated for every block    *)
(* until the caller cleans up; RLECodec (resize(2)) gets over it.          *)
(***************************************************************************)
Refused(b) == Throws(kind, Fresh, b)

ThrowsUntilCleaned ==
  [][\A b \in Blocks : Encode(b) =>
       (status' = "spent" <=> \/ Refused(b)
                              \/ /\ ~ SelfHealing(kind)
                                 /\ \E j \in DOMAIN written : Refused(written[j]))]_vars

(***************************************************************************)
(* A caller that cleans up before every encoding sees the one-block store  *)
(* of BlockCodec, whatever the kind of the object.                         *)
(***************************************************************************)
Stored == CASE status = "clean"   -> Clean
            [] status = "holding" -> Block
            [] status = "spent"   -> Spent

Contract == INSTANCE BlockCodec WITH stored <- Stored

ImplementsContract == Contract!Spec

(***************************************************************************)
(* composite_codec.h, on BenchDecode: after the resize, "Now the first     *)
(* codec has the original intermediate data."                              *)
(***************************************************************************)
BenchDecodeRestores == [][BenchDecode => obj'.first = obj.second]_vars
=============================================================================

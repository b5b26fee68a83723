----------------------------- MODULE BufferCodecs -----------------------------
(***************************************************************************)
(* The classes that wrap a compression library: one byte vector, which     *)
(* AllocEncoded makes long enough for the worst the library may write,     *)
(* EncodeArray lets the library write into and cuts to what it wrote, and  *)
(* DecodeArray hands to the library again.  One object, and a caller that  *)
(* makes every legal sequence of calls on it.  The kinds of object:        *)
(*   simdcomp     SimdCompCodec, SimdCompFusedCodec                        *)
(*   fastpfor     FastPForCodec, FastPForFusedCodec, of a sound scheme     *)
(*   deflate, lz4, zstd, lzma                                              *)
(*   mvb, mvb_delta, svb      MaskedVByte, MaskedVByteDelta, StreamVByte   *)
(*   for, for_turbo           FrameOfReference and its turbo variant       *)
(*   tpf          TurboPForCodec: methods 1 to 10, 12, 13, 16 and 17       *)
(*   tpf_vs, tpf_vsz          methods 14 and 15                            *)
(*   tpf_rle, tpf_xrle        method 18, and methods 19 and 20             *)
(*   tpf_none     any other method                                         *)
(* A block is what the sizes depend on: how many values it has, and how    *)
(* many of them are 2^width - 1 instead of 0.                              *)
(***************************************************************************)
EXTENDS Integers

CONSTANTS
  Kinds,        \* the kinds of object
  Blocks,       \* the blocks a caller may encode
  Growth,       \* what compressBound and its like add to the input
  MaxStreams,   \* bound on the lzma streams left open
  Nothing,      \* no block
  Other         \* an array that is not the block that was encoded

VByteKinds  == {"mvb", "mvb_delta", "svb"}
StreamKinds == {"deflate", "lz4", "zstd", "lzma"}
AllKinds == {"simdcomp", "fastpfor", "for", "for_turbo", "tpf", "tpf_vs",
             "tpf_vsz", "tpf_rle", "tpf_xrle", "tpf_none"}
              \cup VByteKinds \cup StreamKinds

ASSUME KindsAssumption  == Kinds \subseteq AllKinds
ASSUME BoundsAssumption == Growth \in Nat \ {0} /\ MaxStreams \in Nat
ASSUME BlocksAssumption ==
  \A blk \in Blocks :
    /\ blk.length \in Nat \ {0}
    /\ blk.wide \in 0 .. blk.length
    /\ blk.width \in 0 .. 32
    /\ blk.wide = 0 <=> blk.width = 0
ASSUME MarksAssumption == {Nothing, Other} \cap Blocks = {} /\ Nothing # Other

Uniform(blk) == blk.wide \in {0, blk.length}

CeilDiv(a, d) == (a + d - 1) \div d
-------------------------------------------------------------------------------
(***************************************************************************)
(* simdcomp: blocks of 128 values in as many registers as a value has      *)
(* bits, four values side by side.                                         *)
(***************************************************************************)
BitsOneMore(blk) == blk.width + 1
Bits(blk) == blk.width     \* maxbits_length

ShortBytes(n, b) == CASE b = 0  -> 0
                      [] b = 32 -> 4 * n
                      [] OTHER  -> 16 * CeilDiv(CeilDiv(n, 4) * b, 32)

\* What simdpack_compressedbytes computes for the whole block at once.
CompressedBytes(n, b) == IF b = 32 THEN 4 * n
                         ELSE 16 * CeilDiv(CeilDiv(n, 4) * b, 32)

PackedBytes(n, b) == 16 * ((n \div 128) * b) + ShortBytes(n % 128, b)

(***************************************************************************)
(* FrameOfReference: length, minimum and maximum, groups of values less    *)
(* the minimum, and a tail of fewer than 8 (turbo: 32) values as they are. *)
(* The turbo variant moves 8 bytes at a time, beyond the 4 * spread of the *)
(* last group if that is odd and no tail follows.                          *)
(***************************************************************************)
Spread(blk) == IF Uniform(blk) THEN 0 ELSE blk.width

ForWords(n, b) == 3 + (n \div 32) * b
                    + (IF n % 32 >= 16 THEN CeilDiv(b, 2) ELSE 0)
                    + (IF n % 16 >= 8 THEN CeilDiv(b, 4) ELSE 0)
                    + (n % 8)

ForTurboBytes(n, b) == 12 + 4 * ((n \div 32) * b) + 4 * (n % 32)

Overshoot(kind, blk) ==
  IF kind = "for_turbo" /\ blk.length >= 32 /\ blk.length % 32 = 0
       /\ Spread(blk) % 2 = 1 THEN 4 ELSE 0

\* nullunpacker16 and nullunpacker32 write eight values and no more.
GroupsUnwritten(kind, blk) ==
  kind = "for" /\ Spread(blk) = 0 /\ blk.length >= 16

\* The bytes of one value: seven bits to a byte, or eight.
ValueBytes(width, bits) == IF width = 0 THEN 1 ELSE CeilDiv(width, bits)

VByteBytes(blk, bits) ==
  blk.wide * ValueBytes(blk.width, bits) + (blk.length - blk.wide)

\* CBUF1 of turbopfor_codecs.h
Cbuf(n) == (20 * n) \div 3 + 1048576
-------------------------------------------------------------------------------
\* What AllocEncoded makes of the vector (LZMACodec does it in EncodeArray).
AllocatedBare(kind, blk) ==
  LET n == blk.length
  IN  IF kind \in VByteKinds THEN 4 * n ELSE 8 * n + Cbuf(n)

Allocated(kind, blk) ==
  LET n == blk.length
  IN  CASE kind = "simdcomp"    -> CompressedBytes(n, Bits(blk))
        [] kind = "fastpfor"    -> 8 * n
        [] kind = "lzma"        -> 4 * n + (4 * n) \div 3 + 128
        [] kind \in StreamKinds \ {"lzma"} -> 4 * n + Growth
        [] kind \in {"mvb", "mvb_delta"}   -> 8 * n
        [] kind = "svb"         -> CeilDiv(n, 4) + 4 * n
        [] kind = "for"         -> 4 * (n + 1024)
        [] kind = "for_turbo"   -> 4 * n + 1024
        [] OTHER                -> Cbuf(n)

(***************************************************************************)
(* Where the library may say its output ends.  The formats of simdcomp,    *)
(* FrameOfReference and the byte codes fix it; of the others only the      *)
(* bound they document is known.                                           *)
(***************************************************************************)
LibraryEnds(kind, blk) ==
  LET n == blk.length
  IN  CASE kind = "simdcomp"  -> {PackedBytes(n, Bits(blk))}
        [] kind = "for"       -> {4 * ForWords(n, Spread(blk))}
        [] kind = "for_turbo" -> {ForTurboBytes(n, Spread(blk))}
        [] kind = "mvb"       -> {VByteBytes(blk, 7)}
        [] kind = "mvb_delta" -> {n, 5 * n}
        [] kind = "svb"       -> {CeilDiv(n, 4) + VByteBytes(blk, 8)}
        [] kind = "fastpfor"  -> {4, 8 * n}
        [] kind = "tpf_rle"   -> {1, 4 * n}
        [] kind = "tpf_xrle"  -> {1, 4 * n - 1, 4 * n, 4 * n + 1}
        [] kind \in {"tpf_vs", "tpf_vsz"} -> {1, Cbuf(n) - 1, Cbuf(n)}
        [] kind = "tpf_none"  -> {}
        [] OTHER              -> {1, Allocated(kind, blk)}

\* trlexc and trlezc give up when nothing is gained: the values as they are.
StoredRawIfLonger(kind, blk, rc) == kind = "tpf_xrle" /\ rc > 4 * blk.length
StoredRaw(kind, blk, rc) == kind = "tpf_xrle" /\ rc >= 4 * blk.length

\* The end of what is kept, and of what was written on the way.
Encoding(kind, blk, rc) ==
  [block |-> blk,
   raw   |-> StoredRaw(kind, blk, rc),
   end   |-> IF StoredRaw(kind, blk, rc) THEN 4 * blk.length ELSE rc,
   wrote |-> rc + Overshoot(kind, blk)]

\* TurboVSimple: "compend >= compressed.data() + compressed.size()".
Rejected(kind, blk, rc) == kind \in {"tpf_vs", "tpf_vsz"} /\ rc >= Allocated(kind, blk)

Encodings(kind, blk) ==
  {Encoding(kind, blk, rc) : rc \in {e \in LibraryEnds(kind, blk) : ~ Rejected(kind, blk, e)}}

\* The pointer difference of SimdCompCodec counts whole registers.
SizeOfRegisters(kind, end) == IF kind = "simdcomp" THEN end \div 16 ELSE end
SizeOf(kind, end) == IF kind = "simdcomp" THEN 16 * (end \div 16) ELSE end
-------------------------------------------------------------------------------
VARIABLES
  kind,      \* the kind of the object
  asserts,   \* FALSE in a build with NDEBUG
  obj,       \* the object: size and content of the vector, what was asked for
             \* last, the number of bits of SimdCompCodec, and whether the
             \* scratch vectors of TurboPForCodec hold memory
  status,    \* "clean", "allocated", "holding", "spent" or "ended"
  given,     \* the block of the last AllocEncoded, or Nothing
  out,       \* what the last decode left in the caller's buffer, or Nothing
  result,    \* how the last call ended
  streams,   \* lzma streams never ended
  threw      \* history: some call on some object threw
vars == <<kind, asserts, obj, status, given, out, result, streams, threw>>

\* The content of a vector that is not an encoding.
Torn == [block |-> Nothing, raw |-> FALSE, end |-> 0, wrote |-> 0]

\* new SimdCompCodec() zero-initialises b.
Fresh == [size |-> 0, room |-> 0, b |-> 0, scratch |-> FALSE, content |-> Torn]

Init ==
  /\ kind \in Kinds /\ asserts \in BOOLEAN
  /\ obj = Fresh
  /\ status = "clean"
  /\ given = Nothing /\ out = Nothing
  /\ result = "none"
  /\ streams = 0
  /\ threw = FALSE

\* Plausible slips: the number of bits is computed once; or never cleared.
ResizedOnce(k, o, blk) ==
  [o EXCEPT !.size    = IF k = "lzma" THEN @ ELSE Allocated(k, blk),
            !.room    = IF k = "lzma" THEN @ ELSE Allocated(k, blk),
            !.b       = IF k = "simdcomp" /\ @ = 0 THEN Bits(blk) ELSE @,
            !.scratch = @ \/ k \in {"tpf_vsz", "tpf_xrle"}]

Resized(k, o, blk) ==
  [o EXCEPT !.size    = IF k = "lzma" THEN @ ELSE Allocated(k, blk),
            !.room    = IF k = "lzma" THEN @ ELSE Allocated(k, blk),
            !.b       = IF k = "simdcomp" THEN Bits(blk) ELSE @,
            !.scratch = @ \/ k \in {"tpf_vsz", "tpf_xrle"}]

AllocEncoded(blk) ==
  /\ status \in {"clean", "holding", "spent"}
  /\ obj' = Resized(kind, obj, blk)
  /\ status' = "allocated"
  /\ given' = blk /\ out' = Nothing /\ result' = "none"
  /\ UNCHANGED <<kind, asserts, streams, threw>>

\* The vector is cut to the encoding, and the scratch vectors are given back.
RoomOf(k, o, e) == IF k = "lzma" THEN Allocated(k, e.block) ELSE o.room

FilledKeepingScratch(k, o, e) ==
  [size |-> SizeOf(k, e.end), room |-> RoomOf(k, o, e), b |-> o.b,
   scratch |-> o.scratch, content |-> e]

Filled(k, o, e) ==
  [size |-> SizeOf(k, e.end), room |-> RoomOf(k, o, e), b |-> o.b,
   scratch |-> FALSE, content |-> e]

EncodeReturns ==
  /\ status = "allocated"
  /\ \E e \in Encodings(kind, given) : obj' = Filled(kind, obj, e)
  /\ status' = "holding" /\ result' = "returned"
  /\ UNCHANGED <<kind, asserts, given, out, streams, threw>>

(***************************************************************************)
(* EncodeArray throws: the library reports that it failed, wrote too much, *)
(* or does not know the method.  lzma has two places: before the vector is *)
(* touched, and after, when its stream is not ended.                       *)
(***************************************************************************)
LeavesStreamOpen == streams < MaxStreams /\ streams' = streams + 1

EncodeThrows ==
  /\ status = "allocated"
  /\ \/ /\ \/ kind \in (StreamKinds \ {"lzma"}) \cup {"fastpfor"}
           \/ \E rc \in LibraryEnds(kind, given) : Rejected(kind, given, rc)
        /\ obj' = [obj EXCEPT !.content = Torn]
        /\ UNCHANGED streams
     \/ kind \in {"tpf_none", "lzma"} /\ UNCHANGED <<obj, streams>>
     \/ /\ kind = "lzma"
        /\ obj' = [obj EXCEPT !.size = Allocated(kind, given),
                              !.room = Allocated(kind, given), !.content = Torn]
        /\ LeavesStreamOpen
  /\ status' = "spent" /\ result' = "threw" /\ threw' = TRUE
  /\ UNCHANGED <<kind, asserts, given, out>>
-------------------------------------------------------------------------------
(***************************************************************************)
(* DecodeArray into a buffer of zeros or into one used before.             *)
(***************************************************************************)
Buffers == {"zeros", "used"}

\* The caller's buffer if the block is not, or not all, written to it.
Untouched(buffer) ==
  IF buffer = "zeros" /\ given.wide = 0 THEN given ELSE Other

\* trlexd and trlezd take an encoding as long as the values for the values.
ReadRaw == kind = "tpf_xrle" /\ obj.size >= 4 * given.length

Delivered(buffer) ==
  CASE kind = "simdcomp" /\ obj.b # Bits(obj.content.block) -> Other
    [] ReadRaw # obj.content.raw                            -> Other
    [] GroupsUnwritten(kind, obj.content.block)             -> Untouched(buffer)
    [] OTHER                                                -> obj.content.block

\* The wrappers of the byte codes decode inside an assert.
DecodeReturns ==
  /\ status = "holding"
  /\ \E buffer \in Buffers :
       out' = IF kind \in VByteKinds /\ ~ asserts THEN Untouched(buffer)
              ELSE Delivered(buffer)
  /\ result' = "returned"
  /\ UNCHANGED <<kind, asserts, obj, status, given, streams, threw>>

(***************************************************************************)
(* A library that runs out of memory, or says so of its input: DeflateCodec*)
(* logs and returns.  LZ4Codec adds the negative size to the address of a  *)
(* string literal, which is undefined: any message, or a crash.            *)
(***************************************************************************)
DecodeFails ==
  /\ status = "holding" /\ kind \in StreamKinds
  /\ \E buffer \in Buffers : out' \in {Untouched(buffer), Other}
  /\ \/ /\ kind = "deflate" /\ result' = "returned"
        /\ UNCHANGED <<status, streams, threw>>
     \/ /\ kind # "deflate" /\ result' = "threw" /\ threw' = TRUE
        /\ IF kind = "lzma" THEN LeavesStreamOpen \/ UNCHANGED streams
           ELSE UNCHANGED streams
        /\ UNCHANGED status
     \/ /\ kind = "lz4" /\ result' = "crashed" /\ status' = "ended"
        /\ UNCHANGED <<streams, threw>>
  /\ UNCHANGED <<kind, asserts, obj, given>>

\* clear() gives the vector back; b and the scratch vectors stay.
Cleared == [obj EXCEPT !.size = 0, !.room = 0, !.content = Torn]

clear ==
  /\ status \in {"holding", "spent"}
  /\ obj' = Cleared
  /\ status' = "clean" /\ given' = Nothing /\ out' = Nothing /\ result' = "none"
  /\ UNCHANGED <<kind, asserts, streams, threw>>

CloneFresh ==
  /\ status \in {"holding", "spent"}
  /\ obj' = Fresh
  /\ status' = "clean" /\ given' = Nothing /\ out' = Nothing /\ result' = "none"
  /\ UNCHANGED <<kind, asserts, streams, threw>>

Over == status = "ended" /\ UNCHANGED vars

Next == \/ \E blk \in Blocks : AllocEncoded(blk)
        \/ EncodeReturns \/ EncodeThrows
        \/ DecodeReturns \/ DecodeFails
        \/ clear \/ CloneFresh
        \/ Over

Spec == Init /\ [][Next]_vars
-------------------------------------------------------------------------------
(***************************************************************************)
(* The type invariant.                                                     *)
(***************************************************************************)
Content == [block : Blocks, raw : BOOLEAN, end : Nat, wrote : Nat] \cup {Torn}

TypeOK ==
  /\ kind \in Kinds /\ asserts \in BOOLEAN
  /\ obj \in [size : Nat, room : Nat, b : 0 .. 32, scratch : BOOLEAN,
              content : Content]
  /\ status \in {"clean", "allocated", "holding", "spent", "ended"}
  /\ given \in Blocks \cup {Nothing} /\ out \in Blocks \cup {Nothing, Other}
  /\ result \in {"none", "returned", "threw", "crashed"}
  /\ streams \in 0 .. MaxStreams /\ threw \in BOOLEAN

(***************************************************************************)
(* An encoding that is kept was written inside the vector AllocEncoded     *)
(* made for that block, whichever block the object had before: the         *)
(* factors, roundings and slacks of AllocEncoded cover the formats.        *)
(***************************************************************************)
EncodingFits ==
  status = "holding" => /\ obj.content.block = given
                        /\ obj.content.wrote <= obj.room

(***************************************************************************)
(* DecodeArray reads only bytes that EncodeArray of this block wrote; they *)
(* are the bytes the object says it has (the size that is reported), with  *)
(* two exceptions: SimdCompCodec rounds the size of values of 32 bits down *)
(* to a register, and the turbo packing reads half a word beyond.          *)
(***************************************************************************)
BytesRead ==
  CASE kind = "simdcomp"  -> PackedBytes(given.length, obj.b)
    [] kind = "for"       -> 4 * ForWords(given.length, Spread(given))
    [] kind = "for_turbo" -> ForTurboBytes(given.length, Spread(given))
                               + Overshoot(kind, given)
    [] OTHER              -> obj.size

SizeCoversTheReads ==
  status = "holding" =>
    /\ obj.size <= BytesRead /\ BytesRead <= obj.content.wrote
    /\ BytesRead > obj.size <=>
         \/ kind = "simdcomp" /\ obj.b = 32 /\ given.length % 4 # 0
         \/ Overshoot(kind, given) > 0

(***************************************************************************)
(* A decode that returns has delivered the block, in every build and after *)
(* any failure, except that FrameOfReferenceCodec loses uniform blocks of  *)
(* 16 values or more, that DeflateCodec hides a failure, and that nothing  *)
(* is decoded without assertions by the byte codes.  A caller that         *)
(* compares, or that handles exceptions, has no other way of being misled. *)
(***************************************************************************)
DeliversTheBlock ==
  result = "returned" /\ out # Nothing =>
    \/ out = given
    \/ GroupsUnwritten(kind, given)
    \/ kind = "deflate"
    \/ kind \in VByteKinds /\ ~ asserts

(***************************************************************************)
(* Calls that return leave nothing behind outside the vector: an open      *)
(* stream and scratch memory are left only by calls that threw, and by     *)
(* LZMACodec and method 15 of TurboPForCodec alone.                        *)
(***************************************************************************)
LeavesNothing ==
  /\ streams > 0 => kind = "lzma" /\ threw
  /\ obj.scratch /\ status # "allocated" => kind = "tpf_vsz" /\ threw

(***************************************************************************)
(* An object may be used again without a clean-up, after an encoding that  *)
(* threw too: one that holds an encoding is then exactly what a fresh      *)
(* object would be, so its size and its block are those of the last call.  *)
(* CodecObjects takes this for granted of the physical codecs.             *)
(***************************************************************************)
UsedAsFresh ==
  status = "holding" =>
    \E e \in Encodings(kind, given) :
      obj = Filled(kind, Resized(kind, Fresh, given), e)
=============================================================================

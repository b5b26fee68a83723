-------------------------- MODULE BufferCodecsProofs --------------------------
(***************************************************************************)
(* Proofs about BufferCodecs for every block, of whatever length.          *)
(***************************************************************************)
EXTENDS BufferCodecs, TLAPS

(***************************************************************************)
(* The sizes: what each format may take, against what AllocEncoded asks    *)
(* for.                                                                    *)
(***************************************************************************)
\* A block of simdcomp, register by register, takes what is computed for it
\* at once.
LEMMA PackedFits ==
  ASSUME NEW n \in Nat, NEW b \in 0 .. 32
  PROVE  /\ PackedBytes(n, b) \in Nat
         /\ PackedBytes(n, b) = CompressedBytes(n, b)
<1> DEFINE q == n \div 128
           r == n % 128
<1>1. q \in Nat /\ r \in 0 .. 127 /\ n = 128 * q + r
  OBVIOUS
<1> HIDE DEF q, r
<1>2. CASE b = 32
  <2>1. ShortBytes(r, b) = 4 * r
    BY <1>2 DEF ShortBytes
  <2>2. PackedBytes(n, b) = 16 * (q * b) + ShortBytes(r, b)
    BY DEF PackedBytes, q, r
  <2> QED  BY <1>1, <1>2, <2>1, <2>2 DEF CompressedBytes
<1>3. CASE b # 32
  <2> DEFINE s == CeilDiv(r, 4)
  <2>1. s \in Nat /\ CeilDiv(n, 4) = 32 * q + s
    BY <1>1 DEF CeilDiv
  <2> HIDE DEF s
  <2>2. q * b \in Nat /\ s * b \in Nat /\ (32 * q + s) * b = 32 * (q * b) + s * b
    BY <1>1, <2>1, SMTT(30)
  <2>3. \A x, y \in Nat : CeilDiv(32 * x + y, 32) = x + CeilDiv(y, 32) /\ CeilDiv(y, 32) \in Nat
    BY DEF CeilDiv
  <2>4. CeilDiv(CeilDiv(n, 4) * b, 32) = q * b + CeilDiv(s * b, 32) /\ CeilDiv(s * b, 32) \in Nat
    <3>1. CeilDiv(32 * (q * b) + s * b, 32) = q * b + CeilDiv(s * b, 32) /\ CeilDiv(s * b, 32) \in Nat
      BY <2>2, <2>3
    <3>2. CeilDiv(n, 4) * b = 32 * (q * b) + s * b
      BY <2>1, <2>2, Zenon
    <3> QED  BY <3>1, <3>2, Zenon
  <2>5. ShortBytes(r, b) = 16 * CeilDiv(s * b, 32)
    <3>1. CASE b = 0
      BY <3>1, <2>1 DEF ShortBytes, CeilDiv
    <3>2. CASE b # 0
      BY <3>2, <1>3 DEF ShortBytes, s
    <3> QED  BY <3>1, <3>2
  <2>6. PackedBytes(n, b) = 16 * (q * b) + ShortBytes(r, b)
    BY DEF PackedBytes, q, r
  <2> QED  BY <1>3, <2>2, <2>4, <2>5, <2>6 DEF CompressedBytes
<1> QED  BY <1>2, <1>3

\* A product is no larger than the product of larger factors.
LEMMA ProductAtMost ==
  ASSUME NEW x \in Nat, NEW y \in Nat, NEW z \in Nat, y <= z
  PROVE  x * y \in Nat /\ x * y <= x * z
OBVIOUS

\* At most five bytes for seven bits each, four for eight bits each.
LEMMA VByteFits ==
  ASSUME NEW blk \in Blocks
  PROVE  /\ VByteBytes(blk, 7) \in Nat /\ VByteBytes(blk, 7) <= 5 * blk.length
         /\ VByteBytes(blk, 8) \in Nat /\ VByteBytes(blk, 8) <= 4 * blk.length
<1>1. blk.length \in Nat \ {0} /\ blk.wide \in 0 .. blk.length /\ blk.width \in 0 .. 32
  BY BlocksAssumption
<1>2. ValueBytes(blk.width, 7) \in 1 .. 5 /\ ValueBytes(blk.width, 8) \in 1 .. 4
  BY <1>1 DEF ValueBytes, CeilDiv
<1>3. /\ blk.wide * ValueBytes(blk.width, 7) \in Nat
      /\ blk.wide * ValueBytes(blk.width, 7) <= blk.wide * 5
      /\ blk.wide * ValueBytes(blk.width, 8) \in Nat
      /\ blk.wide * ValueBytes(blk.width, 8) <= blk.wide * 4
  BY <1>1, <1>2, ProductAtMost
<1> QED  BY <1>1, <1>3 DEF VByteBytes

\* Three words of header; a group of values never takes more words than values.
LEMMA ForFits ==
  ASSUME NEW n \in Nat, NEW b \in 0 .. 32
  PROVE  /\ ForWords(n, b) \in Nat /\ ForWords(n, b) <= n + 3
         /\ ForTurboBytes(n, b) \in Nat /\ ForTurboBytes(n, b) <= 4 * n + 12
<1> DEFINE q == n \div 32
<1>1. q \in Nat /\ n = 32 * q + (n % 32)
  OBVIOUS
<1>2. q * b \in Nat /\ q * b <= q * 32
  BY <1>1, ProductAtMost
<1> HIDE DEF q
<1>3. ForWords(n, b) = 3 + q * b + (IF n % 32 >= 16 THEN CeilDiv(b, 2) ELSE 0)
                         + (IF n % 16 >= 8 THEN CeilDiv(b, 4) ELSE 0) + (n % 8)
  BY DEF ForWords, q
<1>4. CeilDiv(b, 2) \in 0 .. 16 /\ CeilDiv(b, 4) \in 0 .. 8
  BY DEF CeilDiv
<1>5. n % 32 = (IF n % 32 >= 16 THEN 16 ELSE 0) + (IF n % 16 >= 8 THEN 8 ELSE 0) + (n % 8)
  OBVIOUS
<1>6. ForWords(n, b) \in Nat /\ ForWords(n, b) <= n + 3
  BY <1>1, <1>2, <1>3, <1>4, <1>5
<1>7. ForTurboBytes(n, b) = 12 + 4 * (q * b) + 4 * (n % 32)
  BY DEF ForTurboBytes, q
<1> QED  BY <1>1, <1>2, <1>6, <1>7

\* AllocEncoded of SimdCompCodec asks for exactly what is written.
LEMMA SimdCompExact ==
  ASSUME NEW blk \in Blocks
  PROVE  /\ PackedBytes(blk.length, Bits(blk)) \in Nat
         /\ PackedBytes(blk.length, Bits(blk)) = Allocated("simdcomp", blk)
<1>1. blk.length \in Nat /\ Bits(blk) \in 0 .. 32
  BY BlocksAssumption DEF Bits
<1>2. Allocated("simdcomp", blk) = CompressedBytes(blk.length, Bits(blk))
  BY DEF Allocated, StreamKinds
<1> QED  BY <1>1, <1>2, PackedFits

LEMMA AllocatedType ==
  ASSUME NEW k \in AllKinds, NEW blk \in Blocks
  PROVE  /\ Allocated(k, blk) \in Nat
         /\ k \in {"tpf", "tpf_vs", "tpf_vsz", "tpf_rle", "tpf_xrle", "tpf_none"} =>
              Allocated(k, blk) = Cbuf(blk.length)
         /\ Cbuf(blk.length) \in Nat /\ Cbuf(blk.length) >= 4 * blk.length + 1
<1>1. blk.length \in Nat \ {0} /\ blk.width \in 0 .. 32
  BY BlocksAssumption
<1>2. Cbuf(blk.length) \in Nat /\ Cbuf(blk.length) >= 4 * blk.length + 1
  BY <1>1 DEF Cbuf
<1>3. CASE k = "simdcomp"
  BY <1>2, <1>3, SimdCompExact
<1>4. CASE k # "simdcomp"
  <2>1. CeilDiv(blk.length, 4) \in Nat
    BY <1>1 DEF CeilDiv
  <2> QED  BY <1>1, <1>2, <1>4, <2>1, BoundsAssumption DEF Allocated, AllKinds, VByteKinds, StreamKinds
<1> QED  BY <1>3, <1>4

(***************************************************************************)
(* Wherever the library may say that it ended, it wrote inside what was    *)
(* asked for.                                                              *)
(***************************************************************************)
LEMMA LibraryFits ==
  ASSUME NEW k \in AllKinds, NEW blk \in Blocks, NEW rc \in LibraryEnds(k, blk)
  PROVE  rc \in Nat /\ rc + Overshoot(k, blk) <= Allocated(k, blk)
<1>1. blk.length \in Nat \ {0} /\ blk.width \in 0 .. 32 /\ Spread(blk) \in 0 .. 32
  BY BlocksAssumption DEF Spread
<1>2. Overshoot(k, blk) \in {0, 4} /\ (k # "for_turbo" => Overshoot(k, blk) = 0)
  BY DEF Overshoot
<1>3. CASE k = "simdcomp"
  <2>1. rc = PackedBytes(blk.length, Bits(blk))
    BY <1>3 DEF LibraryEnds
  <2> QED  BY <1>2, <1>3, <2>1, SimdCompExact
<1>4. CASE k \in {"for", "for_turbo"}
  BY <1>1, <1>2, <1>4, ForFits DEF LibraryEnds, Allocated, StreamKinds
<1>5. CASE k \in VByteKinds
  <2>1. CeilDiv(blk.length, 4) \in Nat
    BY <1>1 DEF CeilDiv
  <2> QED  BY <1>1, <1>2, <1>5, <2>1, VByteFits DEF LibraryEnds, Allocated, VByteKinds, StreamKinds
<1>6. CASE k \in {"fastpfor"} \cup StreamKinds
  BY <1>1, <1>2, <1>6, BoundsAssumption DEF LibraryEnds, Allocated, StreamKinds
<1>7. CASE k \in {"tpf", "tpf_vs", "tpf_vsz", "tpf_rle", "tpf_xrle", "tpf_none"}
  BY <1>1, <1>2, <1>7, AllocatedType DEF LibraryEnds
<1> QED  BY <1>3, <1>4, <1>5, <1>6, <1>7 DEF AllKinds

(***************************************************************************)
(* What is known of an encoding that is kept.                              *)
(***************************************************************************)
LEMMA EncodingFacts ==
  ASSUME NEW k \in AllKinds, NEW blk \in Blocks, NEW e \in Encodings(k, blk)
  PROVE  /\ e \in [block : Blocks, raw : BOOLEAN, end : Nat, wrote : Nat]
         /\ e.block = blk /\ e.wrote <= Allocated(k, blk)
         /\ SizeOf(k, e.end) \in Nat
         /\ e.raw <=> k = "tpf_xrle" /\ SizeOf(k, e.end) >= 4 * blk.length
<1>1. PICK rc \in LibraryEnds(k, blk) : e = Encoding(k, blk, rc)
  BY DEF Encodings
<1>2. rc \in Nat /\ rc + Overshoot(k, blk) <= Allocated(k, blk)
  BY LibraryFits
<1>3. blk.length \in Nat \ {0} /\ Overshoot(k, blk) \in Nat
  BY BlocksAssumption DEF Overshoot
<1>4. /\ e.block = blk /\ e.raw = StoredRaw(k, blk, rc)
      /\ e.end = IF StoredRaw(k, blk, rc) THEN 4 * blk.length ELSE rc
      /\ e.wrote = rc + Overshoot(k, blk)
  BY <1>1 DEF Encoding
<1>5. StoredRaw(k, blk, rc) \in BOOLEAN /\ (StoredRaw(k, blk, rc) <=> k = "tpf_xrle" /\ rc >= 4 * blk.length)
  BY DEF StoredRaw
<1>6. e.end \in Nat /\ e.wrote \in Nat /\ e.raw \in BOOLEAN
  BY <1>2, <1>3, <1>4, <1>5
<1>7. e \in [block : Blocks, raw : BOOLEAN, end : Nat, wrote : Nat]
  BY <1>1, <1>4, <1>6 DEF Encoding
<1>8. SizeOf(k, e.end) \in Nat /\ (k = "tpf_xrle" => SizeOf(k, e.end) = e.end)
  BY <1>6 DEF SizeOf
<1> QED  BY <1>2, <1>3, <1>4, <1>5, <1>7, <1>8

-------------------------------------------------------------------------------
(***************************************************************************)
(* The inductive invariant.  UsedAsFresh says all there is to say of an    *)
(* object that holds an encoding; to be kept by EncodeArray it needs to    *)
(* know what AllocEncoded has just set, and that nothing but AllocEncoded  *)
(* of SimdCompCodec ever touches b.                                        *)
(***************************************************************************)
Prepared ==
  status = "allocated" =>
    /\ out = Nothing
    /\ kind = "simdcomp" => obj.b = Bits(given)
    /\ kind # "lzma" => obj.room = Allocated(kind, given)

WidthUnused == kind # "simdcomp" => obj.b = 0

Given == status \in {"allocated", "holding"} => given \in Blocks

IInv == TypeOK /\ Given /\ Prepared /\ WidthUnused /\ UsedAsFresh

Objects == [size : Nat, room : Nat, b : 0 .. 32, scratch : BOOLEAN, content : Content]

\* The object AllocEncoded leaves, field by field.
LEMMA ResizedForm ==
  ASSUME NEW k \in AllKinds, NEW o \in Objects, NEW blk \in Blocks
  PROVE  /\ Resized(k, o, blk) \in Objects
         /\ Resized(k, o, blk).b = IF k = "simdcomp" THEN Bits(blk) ELSE o.b
         /\ k # "lzma" => Resized(k, o, blk).room = Allocated(k, blk)
<1>1. Bits(blk) \in 0 .. 32
  BY BlocksAssumption DEF Bits
<1>2. Allocated(k, blk) \in Nat
  BY AllocatedType
<1> QED  BY <1>1, <1>2 DEF Resized, Objects

\* The object EncodeArray leaves depends on what AllocEncoded set and on
\* nothing older.
LEMMA FilledForm ==
  ASSUME NEW k \in AllKinds, NEW o \in Objects, NEW blk \in Blocks,
         NEW e \in Encodings(k, blk)
  PROVE  /\ Filled(k, o, e) \in Objects
         /\ RoomOf(k, o, e) = (IF k = "lzma" THEN Allocated(k, blk) ELSE o.room)
<1>1. /\ e \in [block : Blocks, raw : BOOLEAN, end : Nat, wrote : Nat]
      /\ e.block = blk /\ SizeOf(k, e.end) \in Nat
  BY EncodingFacts
<1>2. Allocated(k, blk) \in Nat
  BY AllocatedType
<1>3. RoomOf(k, o, e) = (IF k = "lzma" THEN Allocated(k, blk) ELSE o.room)
  BY <1>1 DEF RoomOf
<1>4. e \in Content /\ o.room \in Nat /\ o.b \in 0 .. 32
  BY <1>1 DEF Objects, Content
<1> QED  BY <1>1, <1>2, <1>3, <1>4 DEF Objects, Filled

LEMMA FreshIsObject == Fresh \in Objects /\ Fresh.b = 0 /\ Torn \in Content
  BY DEF Fresh, Torn, Objects, Content

\* What UsedAsFresh says of an object that holds an encoding.
LEMMA HoldingFacts ==
  ASSUME IInv, status = "holding"
  PROVE  \E e \in Encodings(kind, given) :
           /\ obj.content = e /\ obj.size = SizeOf(kind, e.end)
           /\ obj.room = Allocated(kind, given)
           /\ kind = "simdcomp" => obj.b = Bits(given)
<1>1. given \in Blocks /\ kind \in AllKinds
  BY KindsAssumption DEF IInv, Given, TypeOK
<1>2. PICK e \in Encodings(kind, given) : obj = Filled(kind, Resized(kind, Fresh, given), e)
  BY DEF IInv, UsedAsFresh
<1> DEFINE r == Resized(kind, Fresh, given)
<1>3. /\ r \in Objects /\ r.b = IF kind = "simdcomp" THEN Bits(given) ELSE Fresh.b
      /\ kind # "lzma" => r.room = Allocated(kind, given)
  BY <1>1, ResizedForm, FreshIsObject
<1> HIDE DEF r
<1>4. RoomOf(kind, r, e) = (IF kind = "lzma" THEN Allocated(kind, given) ELSE r.room)
  BY <1>1, <1>3, FilledForm
<1>5. obj = Filled(kind, r, e)
  BY <1>2 DEF r
<1> QED  BY <1>3, <1>4, <1>5 DEF Filled
-------------------------------------------------------------------------------
LEMMA InitInvariant == Init => IInv
<1> SUFFICES ASSUME Init PROVE IInv
  OBVIOUS
<1>1. TypeOK
  <2>1. obj \in Objects
    BY FreshIsObject DEF Init
  <2>2. 0 \in 0 .. MaxStreams
    BY BoundsAssumption
  <2> QED  BY <2>1, <2>2 DEF Init, TypeOK, Objects
<1>2. Given /\ Prepared /\ UsedAsFresh
  BY DEF Init, Given, Prepared, UsedAsFresh
<1>3. WidthUnused
  BY FreshIsObject DEF Init, WidthUnused
<1> QED  BY <1>1, <1>2, <1>3 DEF IInv

\* AllocEncoded: the object is made ready for the block, whatever it was.
LEMMA AllocStep ==
  ASSUME IInv, NEW blk \in Blocks, AllocEncoded(blk)
  PROVE  IInv'
<1>1. kind \in AllKinds /\ obj \in Objects
  BY KindsAssumption DEF IInv, TypeOK, Objects
<1>2. /\ obj' \in Objects /\ obj'.b = (IF kind = "simdcomp" THEN Bits(blk) ELSE obj.b)
      /\ kind # "lzma" => obj'.room = Allocated(kind, blk)
  BY <1>1, ResizedForm DEF AllocEncoded
<1>3. TypeOK'
  BY <1>2 DEF IInv, TypeOK, Objects, Content, AllocEncoded
<1>4. Given' /\ Prepared' /\ UsedAsFresh'
  BY <1>2 DEF Given, Prepared, UsedAsFresh, AllocEncoded
<1>5. WidthUnused'
  BY <1>2 DEF IInv, WidthUnused, AllocEncoded
<1> QED  BY <1>3, <1>4, <1>5 DEF IInv

\* EncodeArray: two objects that agree on what AllocEncoded set are filled
\* alike, so the object is what a fresh one would be.
LEMMA EncodeStep ==
  ASSUME IInv, EncodeReturns
  PROVE  IInv'
<1>1. /\ kind \in AllKinds /\ obj \in Objects /\ given \in Blocks
      /\ kind' = kind /\ given' = given /\ status = "allocated" /\ status' = "holding"
  BY KindsAssumption DEF IInv, TypeOK, Objects, Given, EncodeReturns
<1>2. PICK e \in Encodings(kind, given) : obj' = Filled(kind, obj, e)
  BY DEF EncodeReturns
<1> DEFINE r == Resized(kind, Fresh, given)
<1>3. /\ r \in Objects /\ r.b = (IF kind = "simdcomp" THEN Bits(given) ELSE 0)
      /\ kind # "lzma" => r.room = Allocated(kind, given)
  BY <1>1, ResizedForm, FreshIsObject
<1> HIDE DEF r
<1>4. obj.b = r.b /\ (kind # "lzma" => obj.room = r.room)
  BY <1>1, <1>3 DEF IInv, Prepared, WidthUnused
<1>5. /\ RoomOf(kind, obj, e) = (IF kind = "lzma" THEN Allocated(kind, given) ELSE obj.room)
      /\ RoomOf(kind, r, e) = (IF kind = "lzma" THEN Allocated(kind, given) ELSE r.room)
      /\ obj' \in Objects
  BY <1>1, <1>2, <1>3, FilledForm
<1>6. obj' = Filled(kind, r, e)
  BY <1>2, <1>4, <1>5 DEF Filled
<1>7. UsedAsFresh'
  BY <1>1, <1>2, <1>6 DEF UsedAsFresh, r
<1>8. TypeOK'
  BY <1>1, <1>5 DEF IInv, TypeOK, Objects, Content, EncodeReturns
<1>9. Given' /\ Prepared'
  BY <1>1 DEF Given, Prepared
<1>10. WidthUnused'
  BY <1>1, <1>2, <1>4 DEF IInv, WidthUnused, Filled
<1> QED  BY <1>7, <1>8, <1>9, <1>10 DEF IInv

\* EncodeArray that throws: what it leaves is never decoded.
LEMMA ThrowStep ==
  ASSUME IInv, EncodeThrows
  PROVE  IInv'
<1>1. /\ kind \in AllKinds /\ obj \in Objects /\ given \in Blocks
      /\ kind' = kind /\ status' = "spent"
  BY KindsAssumption DEF IInv, TypeOK, Objects, Given, EncodeThrows
<1>2. Allocated(kind, given) \in Nat /\ Torn \in Content
  BY <1>1, AllocatedType, FreshIsObject
<1>3. obj' \in Objects /\ obj'.b = obj.b
  BY <1>1, <1>2 DEF EncodeThrows, Objects
<1>4. streams' \in 0 .. MaxStreams
  BY BoundsAssumption DEF IInv, TypeOK, EncodeThrows, LeavesStreamOpen
<1>5. TypeOK'
  BY <1>3, <1>4 DEF IInv, TypeOK, Objects, Content, EncodeThrows
<1>6. Given' /\ Prepared' /\ UsedAsFresh'
  BY <1>1 DEF Given, Prepared, UsedAsFresh
<1>7. WidthUnused'
  BY <1>1, <1>3 DEF IInv, WidthUnused
<1> QED  BY <1>5, <1>6, <1>7 DEF IInv

\* What a decode delivers of a block is the block, but for the groups that
\* the unpacking of FrameOfReference leaves out.
LEMMA DecodesTheBlock ==
  ASSUME IInv, status = "holding", NEW buffer \in Buffers
  PROVE  /\ Delivered(buffer) \in Blocks \cup {Other}
         /\ Delivered(buffer) = given \/ GroupsUnwritten(kind, given)
<1>1. given \in Blocks /\ kind \in AllKinds
  BY KindsAssumption DEF IInv, Given, TypeOK
<1>2. PICK e \in Encodings(kind, given) :
        /\ obj.content = e /\ obj.size = SizeOf(kind, e.end)
        /\ kind = "simdcomp" => obj.b = Bits(given)
  BY HoldingFacts
<1>3. /\ e.block = given /\ e.raw \in BOOLEAN
      /\ e.raw <=> kind = "tpf_xrle" /\ SizeOf(kind, e.end) >= 4 * given.length
  BY <1>1, EncodingFacts
<1>4. ReadRaw = obj.content.raw
  BY <1>2, <1>3 DEF ReadRaw
<1>5. ~ (kind = "simdcomp" /\ obj.b # Bits(obj.content.block))
  BY <1>2, <1>3
<1>6. Delivered(buffer) = IF GroupsUnwritten(kind, given) THEN Untouched(buffer) ELSE given
  BY <1>2, <1>3, <1>4, <1>5 DEF Delivered
<1> QED  BY <1>1, <1>6 DEF Untouched

LEMMA DecodeStep ==
  ASSUME IInv, DecodeReturns \/ DecodeFails
  PROVE  IInv'
<1>1. given \in Blocks /\ status = "holding"
  BY DEF IInv, Given, DecodeReturns, DecodeFails
<1>2. \A buffer \in Buffers : /\ Untouched(buffer) \in Blocks \cup {Other}
                              /\ Delivered(buffer) \in Blocks \cup {Other}
  BY <1>1, DecodesTheBlock DEF Untouched
<1>3. out' \in Blocks \cup {Nothing, Other}
  BY <1>2 DEF DecodeReturns, DecodeFails
<1>4. /\ UNCHANGED <<kind, asserts, obj, given>>
      /\ status' \in {"holding", "ended"}
      /\ result' \in {"returned", "threw", "crashed"}
      /\ threw' \in BOOLEAN /\ streams' \in 0 .. MaxStreams
  <2>1. threw \in BOOLEAN /\ streams \in 0 .. MaxStreams
    BY DEF IInv, TypeOK
  <2>2. LeavesStreamOpen => streams' \in 0 .. MaxStreams
    BY <2>1, BoundsAssumption DEF LeavesStreamOpen
  <2>3. CASE DecodeReturns
    BY <1>1, <2>1, <2>3 DEF DecodeReturns
  <2>4. CASE DecodeFails
    BY <1>1, <2>1, <2>2, <2>4 DEF DecodeFails
  <2> QED  BY <2>3, <2>4
<1>5. TypeOK'
  BY <1>3, <1>4 DEF IInv, TypeOK, Content
<1>6. Given' /\ Prepared' /\ WidthUnused' /\ UsedAsFresh'
  BY <1>1, <1>4 DEF IInv, Given, Prepared, WidthUnused, UsedAsFresh
<1> QED  BY <1>5, <1>6 DEF IInv

LEMMA CleanStep ==
  ASSUME IInv, clear \/ CloneFresh
  PROVE  IInv'
<1>1. obj \in Objects /\ Torn \in Content /\ Fresh \in Objects
  BY FreshIsObject DEF IInv, TypeOK, Objects
<1>2. Cleared \in Objects /\ Cleared.b = obj.b
  BY <1>1 DEF Cleared, Objects
<1>3. obj' \in Objects /\ obj'.b \in {obj.b, 0}
  BY <1>1, <1>2, FreshIsObject DEF clear, CloneFresh
<1>4. /\ UNCHANGED <<kind, asserts, streams, threw>>
      /\ status' = "clean" /\ given' = Nothing /\ out' = Nothing /\ result' = "none"
  BY DEF clear, CloneFresh
<1>5. TypeOK'
  BY <1>3, <1>4 DEF IInv, TypeOK, Objects, Content
<1>6. Given' /\ Prepared' /\ UsedAsFresh'
  BY <1>4 DEF Given, Prepared, UsedAsFresh
<1>7. WidthUnused'
  BY <1>3, <1>4 DEF IInv, WidthUnused
<1> QED  BY <1>5, <1>6, <1>7 DEF IInv

LEMMA InductiveStep == IInv /\ [Next]_vars => IInv'
<1> SUFFICES ASSUME IInv, [Next]_vars PROVE IInv'
  OBVIOUS
<1>1. ASSUME NEW blk \in Blocks, AllocEncoded(blk) PROVE IInv'
  BY <1>1, AllocStep
<1>2. CASE EncodeReturns
  BY <1>2, EncodeStep
<1>3. CASE EncodeThrows
  BY <1>3, ThrowStep
<1>4. CASE DecodeReturns \/ DecodeFails
  BY <1>4, DecodeStep
<1>5. CASE clear \/ CloneFresh
  BY <1>5, CleanStep
<1>6. CASE Over \/ UNCHANGED vars
  BY <1>6 DEF Over, vars, IInv, TypeOK, Content, Given, Prepared, WidthUnused, UsedAsFresh
<1> QED  BY <1>1, <1>2, <1>3, <1>4, <1>5, <1>6 DEF Next
-------------------------------------------------------------------------------
(***************************************************************************)
(* No sequence of calls, failing ones included, takes an object or its     *)
(* caller out of their types.                                              *)
(***************************************************************************)
THEOREM TypeCorrect == Spec => []TypeOK
<1>1. IInv => TypeOK
  BY DEF IInv
<1> QED  BY <1>1, InitInvariant, InductiveStep, PTL DEF Spec

(***************************************************************************)
(* For every block and whatever calls came before, also ones that threw,   *)
(* an object that holds an encoding is the one a fresh object would be.    *)
(***************************************************************************)
THEOREM ReuseIsSound == Spec => []UsedAsFresh
<1>1. IInv => UsedAsFresh
  BY DEF IInv
<1> QED  BY <1>1, InitInvariant, InductiveStep, PTL DEF Spec

(***************************************************************************)
(* For every block, of any number of values of any width, the vector that  *)
(* AllocEncoded makes is long enough for what EncodeArray writes.          *)
(***************************************************************************)
THEOREM NeverOverrun == Spec => []EncodingFits
<1>1. IInv => EncodingFits
  <2> SUFFICES ASSUME IInv, status = "holding"
               PROVE  obj.content.block = given /\ obj.content.wrote <= obj.room
    BY DEF EncodingFits
  <2>1. given \in Blocks /\ kind \in AllKinds
    BY KindsAssumption DEF IInv, Given, TypeOK
  <2> QED  BY <2>1, HoldingFacts, EncodingFacts
<1> QED  BY <1>1, InitInvariant, InductiveStep, PTL DEF Spec

(***************************************************************************)
(* For every block, build and sequence of calls, a decode that returns has *)
(* delivered the block, with the three exceptions that DeliversTheBlock    *)
(* names.                                                                  *)
(***************************************************************************)
THEOREM Faithful == Spec => []DeliversTheBlock
<1>1. Init => DeliversTheBlock
  BY DEF Init, DeliversTheBlock
<1>2. IInv /\ DeliversTheBlock /\ [Next]_vars => DeliversTheBlock'
  <2> SUFFICES ASSUME IInv, DeliversTheBlock, [Next]_vars PROVE DeliversTheBlock'
    OBVIOUS
  <2>1. ASSUME NEW blk \in Blocks, AllocEncoded(blk) PROVE DeliversTheBlock'
    BY <2>1 DEF AllocEncoded, DeliversTheBlock
  <2>2. CASE EncodeReturns
    BY <2>2 DEF EncodeReturns, DeliversTheBlock, IInv, Prepared
  <2>3. CASE EncodeThrows
    BY <2>3 DEF EncodeThrows, DeliversTheBlock
  <2>4. CASE DecodeReturns
    <3>1. PICK buffer \in Buffers :
            out' = IF kind \in VByteKinds /\ ~ asserts THEN Untouched(buffer)
                   ELSE Delivered(buffer)
      BY <2>4 DEF DecodeReturns
    <3>2. Delivered(buffer) = given \/ GroupsUnwritten(kind, given)
      BY <2>4, DecodesTheBlock DEF DecodeReturns
    <3>3. UNCHANGED <<kind, asserts, given>>
      BY <2>4 DEF DecodeReturns
    <3> QED  BY <3>1, <3>2, <3>3 DEF DeliversTheBlock
  <2>5. CASE DecodeFails
    BY <2>5 DEF DecodeFails, DeliversTheBlock
  <2>6. CASE clear \/ CloneFresh
    BY <2>6 DEF clear, CloneFresh, DeliversTheBlock
  <2>7. CASE Over \/ UNCHANGED vars
    BY <2>7 DEF Over, vars, DeliversTheBlock
  <2> QED  BY <2>1, <2>2, <2>3, <2>4, <2>5, <2>6, <2>7 DEF Next
<1> QED  BY <1>1, <1>2, InitInvariant, InductiveStep, PTL DEF Spec

\* Rounding down to whole registers loses bytes only of values of 32 bits.
LEMMA RegistersLost ==
  ASSUME NEW n \in Nat, NEW b \in 0 .. 32
  PROVE  /\ 16 * (PackedBytes(n, b) \div 16) <= PackedBytes(n, b)
         /\ PackedBytes(n, b) > 16 * (PackedBytes(n, b) \div 16)
              <=> b = 32 /\ n % 4 # 0
<1> DEFINE p == PackedBytes(n, b)
<1>1. p \in Nat /\ p = CompressedBytes(n, b)
  BY PackedFits
<1>2. CASE b = 32
  <2>1. p = 4 * n
    BY <1>1, <1>2 DEF CompressedBytes
  <2>2. 16 * ((4 * n) \div 16) <= 4 * n
    OBVIOUS
  <2>3. 4 * n > 16 * ((4 * n) \div 16) <=> n % 4 # 0
    OBVIOUS
  <2> HIDE DEF p
  <2>4. /\ 16 * (p \div 16) <= p
        /\ p > 16 * (p \div 16) <=> b = 32 /\ n % 4 # 0
    BY <1>2, <2>1, <2>2, <2>3
  <2> QED  BY <2>4 DEF p
<1>3. CASE b # 32
  <2> DEFINE x == CeilDiv(n, 4) * b
  <2>1. x \in Nat
    BY DEF CeilDiv
  <2> HIDE DEF x
  <2>2. CeilDiv(x, 32) \in Nat
    BY <2>1 DEF CeilDiv
  <2>3. p = 16 * CeilDiv(x, 32)
    BY <1>1, <1>3 DEF CompressedBytes, x
  <2>4. \A y \in Nat : 16 * ((16 * y) \div 16) = 16 * y
    OBVIOUS
  <2> HIDE DEF p
  <2>5. p = 16 * (p \div 16)
    BY <2>2, <2>3, <2>4
  <2>6. /\ 16 * (p \div 16) <= p
        /\ p > 16 * (p \div 16) <=> b = 32 /\ n % 4 # 0
    BY <1>1, <1>3, <2>5
  <2> QED  BY <2>6 DEF p
<1> QED  BY <1>2, <1>3

(***************************************************************************)
(* For every block, a decode reads bytes the encoding of that block wrote, *)
(* and reads beyond the size the object reports only in the two cases that *)
(* SizeCoversTheReads names: rounded registers and the turbo packing.      *)
(***************************************************************************)
THEOREM ReadsAreCovered == Spec => []SizeCoversTheReads
<1>1. IInv => SizeCoversTheReads
  <2> SUFFICES ASSUME IInv, status = "holding"
               PROVE  /\ obj.size <= BytesRead /\ BytesRead <= obj.content.wrote
                      /\ BytesRead > obj.size <=>
                           \/ kind = "simdcomp" /\ obj.b = 32 /\ given.length % 4 # 0
                           \/ Overshoot(kind, given) > 0
    BY DEF SizeCoversTheReads
  <2>1. given \in Blocks /\ kind \in AllKinds
    BY KindsAssumption DEF IInv, Given, TypeOK
  <2>2. PICK e \in Encodings(kind, given) :
          /\ obj.content = e /\ obj.size = SizeOf(kind, e.end)
          /\ kind = "simdcomp" => obj.b = Bits(given)
    BY HoldingFacts
  <2>3. PICK rc \in LibraryEnds(kind, given) : e = Encoding(kind, given, rc)
    BY DEF Encodings
  <2>4. /\ given.length \in Nat \ {0} /\ Bits(given) \in 0 .. 32
        /\ Overshoot(kind, given) \in {0, 4}
        /\ kind # "for_turbo" => Overshoot(kind, given) = 0
    BY <2>1, BlocksAssumption DEF Bits, Overshoot
  <2>5. rc \in Nat
    BY <2>1, LibraryFits
  <2>6. /\ e.end = (IF StoredRaw(kind, given, rc) THEN 4 * given.length ELSE rc)
        /\ e.wrote = rc + Overshoot(kind, given)
        /\ StoredRaw(kind, given, rc) => kind = "tpf_xrle" /\ rc >= 4 * given.length
    BY <2>3 DEF Encoding, StoredRaw
  <2>7. CASE kind = "simdcomp"
    <3>1. rc = PackedBytes(given.length, Bits(given))
      BY <2>3, <2>7 DEF LibraryEnds
    <3>2. BytesRead = rc /\ obj.content.wrote = rc /\ obj.size = 16 * (rc \div 16)
      BY <2>2, <2>4, <2>5, <2>6, <2>7, <3>1 DEF BytesRead, SizeOf
    <3> QED
      BY <2>2, <2>4, <2>5, <2>7, <3>1, <3>2, RegistersLost
  <2>8. CASE kind = "for"
    <3>1. rc = 4 * ForWords(given.length, Spread(given))
      BY <2>3, <2>8 DEF LibraryEnds
    <3> QED
      BY <2>2, <2>4, <2>5, <2>6, <2>8, <3>1 DEF BytesRead, SizeOf
  <2>9. CASE kind = "for_turbo"
    <3>1. rc = ForTurboBytes(given.length, Spread(given))
      BY <2>3, <2>9 DEF LibraryEnds
    <3> QED
      BY <2>2, <2>4, <2>5, <2>6, <2>9, <3>1 DEF BytesRead, SizeOf
  <2>10. CASE kind \notin {"simdcomp", "for", "for_turbo"}
    <3>1. BytesRead = e.end /\ obj.size = e.end
      BY <2>2, <2>10 DEF BytesRead, SizeOf
    <3> QED
      BY <2>2, <2>4, <2>5, <2>6, <2>10, <3>1
  <2> QED  BY <2>7, <2>8, <2>9, <2>10
<1> QED  BY <1>1, InitInvariant, InductiveStep, PTL DEF Spec

(***************************************************************************)
(* Whatever calls are made, an lzma stream is left open only by a call     *)
(* that threw, and so is scratch memory, by method 15 of TurboPForCodec    *)
(* alone: of the two methods that take such memory, the other cannot throw *)
(* between taking it and giving it back.                                   *)
(***************************************************************************)
ScratchKinds == obj.scratch => kind \in {"tpf_vsz", "tpf_xrle"}

THEOREM LeaksNothing == Spec => []LeavesNothing
<1> DEFINE LInv == LeavesNothing /\ ScratchKinds
<1>1. Init => LInv
  BY DEF Init, Fresh, LeavesNothing, ScratchKinds
<1>2. TypeOK /\ LInv /\ [Next]_vars => LInv'
  <2> SUFFICES ASSUME TypeOK, LInv, [Next]_vars PROVE LInv'
    OBVIOUS
  <2>1. ASSUME NEW blk \in Blocks, AllocEncoded(blk) PROVE LInv'
    <3>1. obj'.scratch = (obj.scratch \/ kind \in {"tpf_vsz", "tpf_xrle"})
      BY <2>1 DEF AllocEncoded, Resized, TypeOK
    <3> QED
      BY <2>1, <3>1 DEF AllocEncoded, LeavesNothing, ScratchKinds
  <2>2. CASE EncodeReturns
    <3>1. obj'.scratch = FALSE
      BY <2>2 DEF EncodeReturns, Filled
    <3> QED
      BY <2>2, <3>1 DEF EncodeReturns, LeavesNothing, ScratchKinds
  <2>3. CASE EncodeThrows
    <3>1. obj'.scratch = obj.scratch
      BY <2>3 DEF EncodeThrows, TypeOK
    <3>2. kind # "tpf_xrle"
      BY <2>3 DEF EncodeThrows, Rejected, StreamKinds
    <3>3. streams' = streams \/ kind = "lzma"
      BY <2>3 DEF EncodeThrows
    <3> QED
      BY <2>3, <3>1, <3>2, <3>3 DEF EncodeThrows, LeavesNothing, ScratchKinds
  <2>4. CASE DecodeReturns
    BY <2>4 DEF DecodeReturns, LeavesNothing, ScratchKinds
  <2>5. CASE DecodeFails
    <3>1. \/ streams' = streams /\ threw' = threw
          \/ streams' = streams /\ threw' = TRUE
          \/ kind = "lzma" /\ threw' = TRUE
      BY <2>5 DEF DecodeFails
    <3>2. UNCHANGED <<kind, obj>> /\ status = "holding"
      BY <2>5 DEF DecodeFails
    <3> QED
      BY <3>1, <3>2 DEF LeavesNothing, ScratchKinds
  <2>6. CASE clear \/ CloneFresh
    <3>1. obj'.scratch => obj.scratch
      <4>1. Cleared.scratch = obj.scratch
        BY DEF Cleared, TypeOK
      <4>2. Fresh.scratch = FALSE
        BY DEF Fresh
      <4> QED
        BY <2>6, <4>1, <4>2 DEF clear, CloneFresh
    <3>2. UNCHANGED <<kind, streams, threw>> /\ status # "allocated"
      BY <2>6 DEF clear, CloneFresh
    <3> QED
      BY <3>1, <3>2 DEF LeavesNothing, ScratchKinds
  <2>7. CASE Over \/ UNCHANGED vars
    BY <2>7 DEF Over, vars, LeavesNothing, ScratchKinds
  <2> QED  BY <2>1, <2>2, <2>3, <2>4, <2>5, <2>6, <2>7 DEF Next
<1> QED  BY <1>1, <1>2, TypeCorrect, PTL DEF Spec
=============================================================================

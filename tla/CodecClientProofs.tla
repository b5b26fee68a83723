--------------------------- MODULE CodecClientProofs ---------------------------
(***************************************************************************)
(* A codec object and its caller, for words of every width, blocks of      *)
(* every length a word can count, every set of the kinds the tests expect  *)
(* to round-trip, bare or in a cascade, and callers that clean up before   *)
(* an encoding or do not.                                                  *)
(***************************************************************************)
EXTENDS CodecClient, LogicalCodecsProofs

\* The assumptions on the constants, in the form the proofs use.
LEMMA BlockFacts ==
  /\ \A b \in Blocks : IsBlock(b)
  /\ \A k \in Kinds : k \in AllKinds /\ k[2] # "lossy" /\ k[2] # "fragile"
<1>1. \A b \in Blocks : IsBlock(b)
  BY BlocksAssumption DEF IsBlock
<1> QED
  BY <1>1, KindsAssumption DEF SoundKinds

(***************************************************************************)
(* The invariant behind every property.  Type correctness alone is not     *)
(* inductive: that the array delivered is one needs what the object holds. *)
(***************************************************************************)
\* What is in the object says nothing of blocks before the last.
Untouched == SelfHealing(kind) \/ Len(written) = 1

Cleaned == /\ status = "clean" => obj.first = <<>> /\ written = <<>>
           /\ status # "clean" => written # <<>>

\* The encoding ends with the symbols of the last block, and has them alone
\* when the object was clean or heals itself.
Holds == status = "holding" =>
           /\ \E before \in Seq(Word) :
                /\ Encoded(kind, obj) = before \o Symbols(kind[1], Block)
                /\ Untouched => before = <<>>
           /\ Representable(kind[2], Encoded(kind, obj))

Measured == status = "holding" /\ Cascade(kind) => obj.inter = Len(obj.second)

\* A bare DeltaCodec or FORCodec keeps the first block in front.
FirstBlockStays ==
  kind[2] = "none" /\ ~ SelfHealing(kind) /\ status # "clean" =>
    /\ status = "holding"
    /\ \E rest \in Seq(Word) : obj.first = Symbols(kind[1], written[1]) \o rest

OutIsTheBlock == out # Nothing => status = "holding" /\ (Untouched => out = Block)

\* An appending logical codec over "pfor" holds what will be refused again just
\* when a block was refused since the last clean-up.
RefusalStays ==
  kind[2] = "pfor" /\ ~ SelfHealing(kind) =>
    /\ ~ Fits(obj.first) <=> \E j \in DOMAIN written : Refused(written[j])
    /\ status = "holding" => Fits(obj.first)

OneAtATime == Reuse = FALSE /\ status # "clean" => Len(written) = 1

IInv == /\ TypeOK /\ Ready(kind, obj) /\ Cleaned /\ OneAtATime
        /\ Holds /\ Measured /\ FirstBlockStays
        /\ OutIsTheBlock /\ StaleBlockWins /\ RefusalStays

\* A fresh object satisfies the inductive invariant.
LEMMA InitIInv == Init => IInv
<1> SUFFICES ASSUME Init PROVE IInv
  OBVIOUS
<1>1. <<>> \in Seq(Word) /\ <<>> \in Seq(Blocks)
  OBVIOUS
<1>2. Ready(kind, obj) /\ obj.first = <<>>
  BY CleanReady DEF Init, Fresh
<1> QED
  BY <1>1, <1>2 DEF Init, IInv, TypeOK, Ready, Object, Cleaned, OneAtATime, Holds,
                    Measured, FirstBlockStays, OutIsTheBlock, StaleBlockWins,
                    RefusalStays, Fits

\* An object that is not clean was given a block.
LEMMA BlockHeld ==
  ASSUME TypeOK, Cleaned, status # "clean"
  PROVE  /\ Len(written) \in Nat \ {0}
         /\ Block \in Blocks /\ written[1] \in Blocks
         /\ IsBlock(Block) /\ IsBlock(written[1])
<1>1. written \in Seq(Blocks) /\ written # <<>>
  BY DEF TypeOK, Cleaned
<1>2. Len(written) \in Nat \ {0}
  BY <1>1, EmptySeq, LenProperties
<1>3. written[Len(written)] \in Blocks /\ written[1] \in Blocks
  BY <1>1, <1>2, ElementOfSeq
<1> QED
  BY <1>2, <1>3, BlockFacts DEF Block

\* A fresh object refuses a block just when the symbols of the block do not fit.
LEMMA RefusedIs ==
  ASSUME kind \in AllKinds, NEW b, IsBlock(b)
  PROVE  Refused(b) <=> kind[2] = "pfor" /\ ~ Fits(Symbols(kind[1], b))
<1>1. Ready(kind, Fresh) /\ Fresh.first = <<>>
  BY CleanReady DEF Fresh
<1>2. Intermediate(kind, Fresh, b) = Symbols(kind[1], b)
  BY <1>1, IntermediateValue
<1> QED
  BY <1>2 DEF Refused, Throws, Representable

(***************************************************************************)
(* When the object under test throws: for the block, or because of a block *)
(* before it that is still in front.                                       *)
(***************************************************************************)
LEMMA ThrowsIs ==
  ASSUME IInv, NEW b \in Blocks
  PROVE  Throws(kind, obj, b) <=>
           \/ Refused(b)
           \/ ~ SelfHealing(kind) /\ \E j \in DOMAIN written : Refused(written[j])
<1>1. kind \in AllKinds /\ kind[2] \notin {"lossy", "fragile"} /\ IsBlock(b)
      /\ Ready(kind, obj)
  BY BlockFacts, KindsAssumption DEF IInv, TypeOK, SoundKinds
<1>2. CASE SelfHealing(kind)
  BY <1>1, <1>2, EncodesAsFresh DEF Refused
<1>3. CASE ~ SelfHealing(kind) /\ kind[2] # "pfor"
  BY <1>3 DEF Refused, Throws, Representable
<1>4. CASE ~ SelfHealing(kind) /\ kind[2] = "pfor"
  <2>1. obj.first \in Seq(Word) /\ Symbols(kind[1], b) \in Seq(Word)
    BY <1>1, SymbolsType DEF Ready, Object
  <2>2. Intermediate(kind, obj, b) = obj.first \o Symbols(kind[1], b)
    <3>1. kind[1] \in {"delta", "for"}
      BY <1>1, <1>4, KindFacts DEF SelfHealing
    <3> QED
      BY <1>1, <3>1, IntermediateValue
  <2>3. Throws(kind, obj, b) <=> ~ Fits(obj.first) \/ ~ Fits(Symbols(kind[1], b))
    BY <1>4, <2>1, <2>2, FitsConcat DEF Throws, Representable
  <2>4. Refused(b) <=> ~ Fits(Symbols(kind[1], b))
    BY <1>1, <1>4, RefusedIs
  <2>5. ~ Fits(obj.first) <=> \E j \in DOMAIN written : Refused(written[j])
    BY <1>4 DEF IInv, RefusalStays
  <2> QED
    BY <1>4, <2>3, <2>4, <2>5
<1> QED
  BY <1>2, <1>3, <1>4

(***************************************************************************)
(* What a decode delivers: words, the block itself when the encoding is    *)
(* the block's own, and the first block in front when it still is.         *)
(***************************************************************************)
LEMMA DecodeDelivers ==
  ASSUME IInv, Decode
  PROVE  /\ out' \in Seq(Word)
         /\ Untouched => out' = Block
         /\ kind[2] = "none" /\ ~ SelfHealing(kind) =>
              \A i \in 1 .. Len(Block) : i <= Len(written[1]) => out'[i] = written[1][i]
<1> DEFINE held == Encoded(kind, obj)
           n == Len(Block)
<1>1. /\ status = "holding" /\ kind \in AllKinds
      /\ kind[2] # "lossy" /\ kind[2] # "fragile"
  BY BlockFacts DEF Decode, IInv, TypeOK
<1>2. /\ IsBlock(Block) /\ IsBlock(written[1])
      /\ Block \in Seq(Word) /\ Block # <<>> /\ n \in Nat
      /\ written[1] \in Seq(Word) /\ written[1] # <<>>
  BY <1>1, BlockHeld DEF IInv, IsBlock
<1>3. out' = Delivered(kind, obj, n)
  BY DEF Decode
<1>4. PICK before \in Seq(Word) : /\ held = before \o Symbols(kind[1], Block)
                                  /\ Untouched => before = <<>>
  BY <1>1 DEF IInv, Holds
<1>5. Symbols(kind[1], Block) \in Seq(Word)
  BY <1>2, SymbolsType
<1>6. CASE Untouched
  <2>1. held = Symbols(kind[1], Block)
    BY <1>4, <1>5, <1>6, ConcatEmptySeq
  <2>2. out' = Block
    BY <1>1, <1>2, <1>3, <2>1, SymbolsDeliver
  <2>3. CASE ~ SelfHealing(kind)
    <3>1. Len(written) = 1 /\ Block = written[1]
      BY <1>6, <2>3 DEF Untouched, Block
    <3> QED
      BY <1>2, <2>2, <3>1
  <2> QED
    BY <1>2, <2>2, <2>3
<1>7. CASE ~ Untouched
  <2>1. kind[1] \in {"delta", "for"}
    BY <1>1, <1>7, KindFacts DEF Untouched, SelfHealing
  <2>2. held \in Seq(Word)
        /\ Len(held) = Len(before) + Len(Symbols(kind[1], Block))
    BY <1>4, <1>5
  <2>3. CASE kind[2] # "none"
    <3>1. CASE kind[1] = "delta"
      <4>1. n <= Len(held)
        BY <1>2, <2>2, <3>1, DeltaSymbolsType DEF Symbols
      <4>2. DecodesTo(DeltaDecode(held, n), held, n)
        BY <1>2, <2>2, <4>1, DeltaDecodeIs
      <4>3. DeltaDecode(held, n) \in Seq(Word)
        BY <1>2, <4>2, LenProperties DEF DecodesTo
      <4> QED
        BY <1>3, <1>7, <2>3, <3>1, <4>3 DEF Delivered, LogicalDecode
    <3>2. CASE kind[1] = "for"
      <4>1. n + 1 <= Len(held)
        BY <1>2, <2>2, <3>2, ForSymbolsType DEF Symbols
      <4>2. ForDecode(held, n) \in Seq(Word)
        BY <1>2, <2>2, <4>1, ForDecodeIs
      <4> QED
        BY <1>3, <1>7, <2>3, <3>2, <4>2 DEF Delivered, LogicalDecode
    <3> QED
      BY <2>1, <3>1, <3>2
  <2>4. CASE kind[2] = "none"
    <3>1. PICK rest \in Seq(Word) : held = Symbols(kind[1], written[1]) \o rest
      BY <1>1, <1>7, <2>4 DEF IInv, FirstBlockStays, Untouched, Encoded
    <3>2. CASE kind[1] = "delta"
      <4>1. n <= Len(held)
        BY <1>2, <2>2, <3>2, DeltaSymbolsType DEF Symbols
      <4>2. out' = DeltaDecode(DeltaSymbols(written[1]) \o rest, n)
        BY <1>3, <3>1, <3>2 DEF Delivered, LogicalDecode, Symbols
      <4>3. n <= Len(DeltaSymbols(written[1]) \o rest)
        BY <3>1, <3>2, <4>1 DEF Symbols
      <4> QED
        BY <1>2, <1>7, <4>2, <4>3, DeltaPrefix
    <3>3. CASE kind[1] = "for"
      <4>1. n + 1 <= Len(held)
        BY <1>2, <2>2, <3>3, ForSymbolsType DEF Symbols
      <4>2. out' = ForDecode(ForSymbols(written[1]) \o rest, n)
        BY <1>3, <3>1, <3>3 DEF Delivered, LogicalDecode, Symbols
      <4>3. n + 1 <= Len(ForSymbols(written[1]) \o rest)
        BY <3>1, <3>3, <4>1 DEF Symbols
      <4> QED
        BY <1>2, <1>7, <4>2, <4>3, ForPrefix
    <3> QED
      BY <2>1, <3>2, <3>3
  <2> QED
    BY <2>3, <2>4
<1> QED
  BY <1>6, <1>7

(***************************************************************************)
(* What an encoding leaves, in an object clean or not.                     *)
(***************************************************************************)
LEMMA EncodeHolds ==
  ASSUME IInv, NEW b \in Blocks, Encode(b)
  PROVE  IInv'
<1>1. /\ kind \in AllKinds /\ kind[2] # "lossy" /\ kind[2] # "fragile"
      /\ IsBlock(b) /\ kind' = kind
  BY BlockFacts DEF IInv, TypeOK, Encode
<1>2. /\ obj' = EncodeArray(kind, obj, b) /\ out' = Nothing
      /\ status' = IF Throws(kind, obj, b) THEN "spent" ELSE "holding"
      /\ written' = Append(written, b)
  BY DEF Encode
<1>3. /\ written \in Seq(Blocks) /\ written' \in Seq(Blocks)
      /\ Len(written) \in Nat /\ Len(written') = Len(written) + 1
      /\ written' # <<>> /\ Block' = b
  <2>1. written \in Seq(Blocks)
    BY DEF IInv, TypeOK
  <2> QED
    BY <1>2, <2>1 DEF Block
<1>4. Ready(kind', obj') /\ Ready(kind, obj)
  BY <1>1, <1>2, EncodeReady DEF IInv
<1>5. obj.first \in Seq(Word) /\ Symbols(kind[1], b) \in Seq(Word)
  BY <1>1, <1>4, SymbolsType DEF Ready, Object
<1> DEFINE mid == Intermediate(kind, obj, b)
<1>6. mid = IF SelfHealing(kind) THEN Symbols(kind[1], b)
                                 ELSE obj.first \o Symbols(kind[1], b)
  <2>1. ~ SelfHealing(kind) => kind[1] \in {"delta", "for"}
    BY <1>1, KindFacts DEF SelfHealing
  <2> QED
    BY <1>1, <1>4, <2>1, IntermediateValue
<1>7. written = <<>> => obj.first = <<>>
  BY DEF IInv, Cleaned
<1>8. TypeOK'
  <2>1. status' \in {"clean", "holding", "spent"}
    BY <1>2
  <2> QED
    BY <1>1, <1>2, <1>3, <1>4, <2>1 DEF IInv, TypeOK, Ready, Object
<1>9. Cleaned' /\ OneAtATime'
  <2>1. Reuse = FALSE => Len(written) = 0
    BY DEF Encode, IInv, Cleaned
  <2> QED
    BY <1>2, <1>3, <2>1 DEF Cleaned, OneAtATime
<1>10. status' = "holding" => Encoded(kind, obj') = mid
  BY <1>1, <1>2, <1>4, EncodedValue DEF Kept
<1>11. Holds'
  <2> SUFFICES ASSUME status' = "holding"
               PROVE  /\ \E before \in Seq(Word) :
                           /\ Encoded(kind, obj') = before \o Symbols(kind[1], b)
                           /\ Untouched' => before = <<>>
                      /\ Representable(kind[2], Encoded(kind, obj'))
    BY <1>1, <1>3 DEF Holds
  <2>1. Representable(kind[2], Encoded(kind, obj'))
    BY <1>2, <1>10 DEF Throws
  <2>2. CASE SelfHealing(kind)
    <3>1. mid = <<>> \o Symbols(kind[1], b)
      BY <1>5, <1>6, <2>2, ConcatEmptySeq
    <3>2. <<>> \in Seq(Word)
      OBVIOUS
    <3> HIDE DEF mid
    <3> QED
      BY <1>10, <2>1, <3>1, <3>2
  <2>3. CASE ~ SelfHealing(kind)
    <3>1. mid = obj.first \o Symbols(kind[1], b)
      BY <1>6, <2>3
    <3>2. Untouched' => obj.first = <<>>
      <4>1. Untouched' => Len(written') = 1
        BY <1>1, <2>3 DEF Untouched
      <4>2. Len(written) = 0 => written = <<>>
        BY <1>3, EmptySeq
      <4> QED
        BY <1>3, <1>7, <4>1, <4>2
    <3> HIDE DEF mid
    <3> QED
      BY <1>5, <1>10, <2>1, <3>1, <3>2
  <2> QED
    BY <2>2, <2>3
<1>12. Measured'
  <2>1. Throws(kind, obj, b) \/ Kept(kind[2], mid) = mid
    BY <1>1 DEF Kept
  <2> QED
    BY <1>1, <1>2, <2>1 DEF Measured, EncodeArray, Cascade
<1>13. FirstBlockStays'
  <2> SUFFICES ASSUME kind[2] = "none", ~ SelfHealing(kind)
               PROVE  /\ status' = "holding"
                      /\ \E rest \in Seq(Word) :
                           obj'.first = Symbols(kind[1], written'[1]) \o rest
    BY <1>1 DEF FirstBlockStays
  <2>1. status' = "holding"
    BY <1>2 DEF Throws, Representable
  <2>2. obj'.first = obj.first \o Symbols(kind[1], b)
    BY <1>6, <1>10, <2>1 DEF Encoded
  <2>3. CASE status = "clean"
    <3>1. obj.first = <<>> /\ written = <<>>
      BY <2>3 DEF IInv, Cleaned
    <3>2. written'[1] = b
      BY <1>2, <3>1
    <3>3. obj'.first = Symbols(kind[1], b) \o <<>> /\ <<>> \in Seq(Word)
      BY <1>5, <2>2, <3>1, ConcatEmptySeq
    <3> QED
      BY <2>1, <3>2, <3>3
  <2>4. CASE status # "clean"
    <3>1. PICK rest \in Seq(Word) : obj.first = Symbols(kind[1], written[1]) \o rest
      BY <2>4 DEF IInv, FirstBlockStays
    <3>2. Len(written) \in Nat \ {0} /\ IsBlock(written[1])
      BY <2>4, BlockHeld DEF IInv
    <3>3. written'[1] = written[1]
      BY <1>2, <1>3, <3>2
    <3>4. Symbols(kind[1], written[1]) \in Seq(Word)
      BY <3>2, SymbolsType
    <3>5. /\ obj'.first = Symbols(kind[1], written[1]) \o (rest \o Symbols(kind[1], b))
          /\ rest \o Symbols(kind[1], b) \in Seq(Word)
      BY <1>5, <2>2, <3>1, <3>4, ConcatAssociative
    <3> QED
      BY <2>1, <3>3, <3>5
  <2> QED
    BY <2>3, <2>4
<1>14. OutIsTheBlock' /\ StaleBlockWins'
  BY <1>2, ClientMarks DEF OutIsTheBlock, StaleBlockWins
<1>15. RefusalStays'
  <2> SUFFICES ASSUME kind[2] = "pfor", ~ SelfHealing(kind)
               PROVE  /\ ~ Fits(obj'.first)
                           <=> \E j \in DOMAIN written' : Refused(written'[j])
                      /\ status' = "holding" => Fits(obj'.first)
    BY <1>1 DEF RefusalStays, Refused
  <2>1. Throws(kind, obj, b) <=>
          Refused(b) \/ \E j \in DOMAIN written : Refused(written[j])
    BY ThrowsIs
  <2>2. /\ DOMAIN written' = DOMAIN written \cup {Len(written')}
        /\ written'[Len(written')] = b
        /\ \A j \in DOMAIN written : written'[j] = written[j]
    BY <1>2, <1>3
  <2>3. Throws(kind, obj, b) <=> \E j \in DOMAIN written' : Refused(written'[j])
    BY <2>1, <2>2
  <2>4. kind[1] # "none"
    BY DEF SelfHealing
  <2>5. obj'.first = IF Throws(kind, obj, b) THEN mid ELSE <<>>
    BY <1>2, <2>4 DEF EncodeArray, Cascade
  <2>6. Throws(kind, obj, b) <=> ~ Fits(mid)
    BY DEF Throws, Representable
  <2>7. Fits(<<>>)
    BY DEF Fits
  <2> HIDE DEF mid
  <2> QED
    BY <1>2, <2>3, <2>5, <2>6, <2>7
<1> QED
  BY <1>1, <1>4, <1>8, <1>9, <1>11, <1>12, <1>13, <1>14, <1>15 DEF IInv

\* Every call on the object preserves the inductive invariant.
LEMMA NextIInv ==
  ASSUME IInv, [Next]_vars
  PROVE  IInv'
<1>1. kind \in AllKinds /\ TypeOK /\ Ready(kind, obj)
  BY BlockFacts DEF IInv, TypeOK
<1>2. ASSUME NEW b \in Blocks, Encode(b)
      PROVE  IInv'
  BY <1>2, EncodeHolds
<1>3. CASE Decode
  <2>1. /\ status = "holding" /\ obj' = AfterDecode(kind, obj)
        /\ UNCHANGED <<kind, status, written, Block, Untouched>>
    BY <1>3 DEF Decode, Block, Untouched
  <2>2. Ready(kind, obj') /\ Encoded(kind, obj') = Encoded(kind, obj)
    <3>1. Ready(kind, obj')
      BY <1>1, <2>1, DecodeReady
    <3>2. Encoded(kind, obj') = Encoded(kind, obj)
      BY <1>1, <2>1 DEF AfterDecode, Encoded, Cascade, Ready, Object
    <3> QED
      BY <3>1, <3>2
  <2>3. TypeOK'
    BY <1>1, <1>3, <2>1, <2>2, DecodeDelivers DEF IInv, TypeOK, Ready, Object
  <2>4. Measured' /\ FirstBlockStays'
    <3>1. obj'.inter = obj.inter /\ obj'.second = obj.second
      BY <1>1, <2>1 DEF AfterDecode, Ready, Object
    <3>2. kind[2] = "none" => obj' = obj
      BY <2>1 DEF AfterDecode, Cascade
    <3> QED
      BY <2>1, <3>1, <3>2 DEF IInv, Measured, FirstBlockStays
  <2>5. OutIsTheBlock' /\ StaleBlockWins'
    BY <1>3, <2>1, DecodeDelivers DEF OutIsTheBlock, StaleBlockWins
  <2>6. Cleaned' /\ OneAtATime' /\ Holds'
    BY <2>1, <2>2 DEF IInv, Cleaned, OneAtATime, Holds
  <2>7. RefusalStays'
    <3> SUFFICES ASSUME kind[2] = "pfor", ~ SelfHealing(kind)
                 PROVE  /\ ~ \E j \in DOMAIN written : Refused(written[j])
                        /\ Fits(obj'.first)
      BY <2>1 DEF RefusalStays, Refused
    <3>1. Fits(obj.second)
      BY <2>1 DEF IInv, Holds, Representable, Encoded
    <3>2. ~ \E j \in DOMAIN written : Refused(written[j])
      BY <2>1 DEF IInv, RefusalStays
    <3>3. obj'.first = obj.second
      BY <1>1, <2>1 DEF AfterDecode, Cascade, SelfHealing, Ready, Object
    <3> QED
      BY <3>1, <3>2, <3>3
  <2> QED
    BY <2>1, <2>2, <2>3, <2>4, <2>5, <2>6, <2>7 DEF IInv
<1>4. CASE BenchDecode
  <2>1. /\ Cascade(kind) /\ obj.inter = Len(obj.second) /\ status = "holding"
        /\ obj' = AfterBenchDecode(kind, obj) /\ status' = "spent" /\ out' = Nothing
        /\ kind' = kind /\ written' = written
    BY <1>4 DEF IInv, BenchDecode, Measured
  <2>2. Ready(kind, obj') /\ kind[2] # "none"
    BY <1>1, <2>1, BenchDecodeReady DEF Cascade
  <2>3. RefusalStays'
    <3> SUFFICES ASSUME kind[2] = "pfor", ~ SelfHealing(kind)
                 PROVE  /\ ~ \E j \in DOMAIN written : Refused(written[j])
                        /\ Fits(obj'.first)
      BY <2>1 DEF RefusalStays, Refused
    <3>1. Fits(obj.second)
      BY <2>1 DEF IInv, Holds, Representable, Encoded
    <3>2. ~ \E j \in DOMAIN written : Refused(written[j])
      BY <2>1 DEF IInv, RefusalStays
    <3>3. obj'.first = BenchRestored(obj)
      BY <1>1, <2>1 DEF AfterBenchDecode, Ready, Object
    <3>4. obj.second \in Seq(Word) /\ ToUnsigned(0) < Limit
      BY <1>1, LimitAssumption, HalfAssumption DEF Ready, Object, ToUnsigned
    <3>5. Fits(BenchRestored(obj))
      BY <2>1, <3>1, <3>4 DEF Fits, BenchRestored
    <3> QED
      BY <3>2, <3>3, <3>5
  <2> QED
    BY <1>1, <2>1, <2>2, <2>3
    DEF IInv, TypeOK, Ready, Object, Cleaned, OneAtATime, Holds, Measured,
        FirstBlockStays, OutIsTheBlock, StaleBlockWins
<1>5. CASE ClearObject \/ ReplaceByClone
  <2>1. /\ status' = "clean" /\ written' = <<>> /\ out' = Nothing /\ kind' = kind
        /\ (obj' = Clear(obj) \/ obj' = Fresh)
    BY <1>5 DEF ClearObject, ReplaceByClone
  <2>2. Ready(kind, obj') /\ obj'.first = <<>>
    <3>1. CASE obj' = Clear(obj)
      <4>1. Ready(kind, Clear(obj))
        BY <1>1, CleanReady
      <4>2. Clear(obj).first = <<>>
        BY <1>1 DEF Clear, Ready, Object
      <4> QED
        BY <3>1, <4>1, <4>2
    <3>2. CASE obj' = Fresh
      <4>1. Ready(kind, Fresh) /\ Fresh.first = <<>>
        BY CleanReady DEF Fresh
      <4> QED
        BY <3>2, <4>1
    <3> QED
      BY <2>1, <3>1, <3>2
  <2>3. written' \in Seq(Blocks)
    BY <2>1
  <2>4. RefusalStays'
    BY <2>1, <2>2 DEF RefusalStays, Fits
  <2> QED
    BY <1>1, <2>1, <2>2, <2>3, <2>4
    DEF IInv, TypeOK, Ready, Object, Cleaned, OneAtATime, Holds, Measured,
        FirstBlockStays, OutIsTheBlock, StaleBlockWins
<1>6. CASE UNCHANGED vars
  <2>1. RefusalStays'
    BY <1>6 DEF vars, IInv, RefusalStays, Refused
  <2> QED
    BY <1>6, <2>1 DEF vars, IInv, TypeOK, Cleaned, OneAtATime, Holds, Measured,
                      FirstBlockStays, OutIsTheBlock, StaleBlockWins, Untouched, Block
<1> QED
  BY <1>2, <1>3, <1>4, <1>5, <1>6 DEF Next

\* Every behaviour of a caller keeps the invariant.
LEMMA InvariantHolds == Spec => []IInv
<1>1. Init => IInv
  BY InitIInv
<1>2. IInv /\ [Next]_vars => IInv'
  BY NextIInv
<1> QED
  BY <1>1, <1>2, PTL DEF Spec

(***************************************************************************)
(* Type correctness: no sequence of calls leaves a value outside the word, *)
(* in either buffer or in the output, not even one that encodes into       *)
(* objects that still hold an earlier block.                               *)
(***************************************************************************)
THEOREM TypeCorrect == Spec => []TypeOK
<1>1. IInv => TypeOK
  BY DEF IInv
<1> QED
  BY <1>1, InvariantHolds, PTL

(***************************************************************************)
(* Each decode, the first or a repeated one, of a bare object or of a      *)
(* cascade, with the bare codecs, run length included, delivers the block  *)
(* encoded last, except where an object that appends was used again.       *)
(***************************************************************************)
THEOREM RoundTrip == Spec => []DeliversTheBlock
<1>1. IInv => DeliversTheBlock
  <2> SUFFICES ASSUME IInv, out # Nothing, ~ Untouched
               PROVE  ~ SelfHealing(kind) /\ Len(written) > 1
    BY DEF IInv, OutIsTheBlock, DeliversTheBlock
  <2>1. status # "clean"
    BY DEF IInv, OutIsTheBlock
  <2>2. Len(written) \in Nat \ {0}
    BY <2>1, BlockHeld DEF IInv
  <2>3. \A n \in Nat \ {0} : n # 1 => n > 1
    OBVIOUS
  <2>4. Len(written) # 1 => Len(written) > 1
    BY <2>2, <2>3
  <2> QED
    BY <2>4 DEF Untouched
<1> QED
  BY <1>1, InvariantHolds, PTL

(***************************************************************************)
(* A bare DeltaCodec or FORCodec that is used again without a clean-up     *)
(* delivers the values of the first block it was given.                    *)
(***************************************************************************)
THEOREM StaleBlock == Spec => []StaleBlockWins
<1>1. IInv => StaleBlockWins
  BY DEF IInv
<1> QED
  BY <1>1, InvariantHolds, PTL

(***************************************************************************)
(* The size an object reports is the size of the last block's encoding in  *)
(* a fresh object, whenever it was clean or heals itself.                  *)
(***************************************************************************)
THEOREM SizeReported == Spec => []SizeIsOfTheBlock
<1>1. IInv => SizeIsOfTheBlock
  <2> SUFFICES ASSUME IInv, status = "holding", Untouched
               PROVE  EncodedNumValues(kind, obj)
                        = EncodedNumValues(kind, EncodeArray(kind, Fresh, Block))
    BY DEF SizeIsOfTheBlock, Untouched
  <2>1. /\ kind \in AllKinds /\ kind[2] # "lossy" /\ kind[2] # "fragile"
        /\ IsBlock(Block)
    BY BlockFacts, BlockHeld DEF IInv, TypeOK
  <2>2. /\ Encoded(kind, obj) = <<>> \o Symbols(kind[1], Block)
        /\ Representable(kind[2], Encoded(kind, obj))
    BY DEF IInv, Holds
  <2>3. Encoded(kind, obj) = Symbols(kind[1], Block)
    BY <2>1, <2>2, SymbolsType, ConcatEmptySeq
  <2>4. Ready(kind, Fresh) /\ Fresh.first = <<>>
    BY CleanReady DEF Fresh
  <2>5. Intermediate(kind, Fresh, Block) = Symbols(kind[1], Block)
    BY <2>1, <2>4, EncodesAsFresh
  <2>6. ~ Throws(kind, Fresh, Block)
    BY <2>2, <2>3, <2>5 DEF Throws
  <2>7. Encoded(kind, EncodeArray(kind, Fresh, Block)) = Symbols(kind[1], Block)
    BY <2>1, <2>4, <2>5, <2>6, EncodedValue DEF Kept
  <2> QED
    BY <2>3, <2>7 DEF EncodedNumValues
<1> QED
  BY <1>1, InvariantHolds, PTL

(***************************************************************************)
(* An EncodeArray throws for the block it is given, or, in a cascade over  *)
(* a codec that appends, for any block refused since the last clean-up.    *)
(***************************************************************************)
THEOREM RefusalRepeated == Spec => ThrowsUntilCleaned
<1>1. ASSUME IInv, NEW b \in Blocks, Encode(b)
      PROVE  status' = "spent" <=>
               \/ Refused(b)
               \/ /\ ~ SelfHealing(kind)
                  /\ \E j \in DOMAIN written : Refused(written[j])
  <2>1. status' = IF Throws(kind, obj, b) THEN "spent" ELSE "holding"
    BY <1>1 DEF Encode
  <2> QED
    BY <1>1, <2>1, ThrowsIs
<1>2. IInv /\ [Next]_vars =>
        [\A b \in Blocks : Encode(b) =>
           (status' = "spent" <=> \/ Refused(b)
                                  \/ /\ ~ SelfHealing(kind)
                                     /\ \E j \in DOMAIN written : Refused(written[j]))]_vars
  BY <1>1
<1> QED
  BY <1>2, InvariantHolds, PTL DEF Spec, ThrowsUntilCleaned

-------------------------------------------------------------------------------
(***************************************************************************)
(* What the one-block store of BlockCodec sees of the object.              *)
(***************************************************************************)
LEMMA StoredMark ==
  ASSUME IInv
  PROVE  /\ status = "holding" => Stored = Block /\ Block \in Blocks
         /\ status = "clean" => Stored = Clean
         /\ status = "spent" => Stored = Spent
<1>1. status = "holding" => Block \in Blocks
  BY BlockHeld DEF IInv
<1> QED
  BY <1>1 DEF Stored

\* For a caller that cleans up before every encoding, an object of any of the
\* kinds implements the one-block store: every call is a step of it or a stutter.
THEOREM Refinement ==
  ASSUME Reuse = FALSE
  PROVE  Spec => ImplementsContract
<1>1. Init => Contract!Init
  BY DEF Init, Contract!Init, Stored
<1>2. ASSUME IInv, [Next]_vars
      PROVE  [Contract!Next]_(Contract!vars)
  <2> USE DEF Contract!Next, Contract!vars, Contract!Put, Contract!Get,
              Contract!Spend, Contract!CleanUp
  <2>1. ASSUME NEW b \in Blocks, Encode(b)
        PROVE  Contract!Next
    <3>1. status = "clean" /\ Stored = Clean
      BY <1>2, <2>1, StoredMark DEF Encode
    <3>2. written = <<>>
      BY <1>2, <3>1 DEF IInv, Cleaned
    <3>3. written' = <<b>> /\ Block' = b
      BY <2>1, <3>2 DEF Encode, Block
    <3>4. Stored' \in {b, Spent}
      BY <2>1, <3>3 DEF Encode, Stored
    <3> QED
      BY <2>1, <3>1, <3>4 DEF Encode
  <2>2. CASE Decode
    <3>1. Stored = Block /\ Block \in Blocks
      BY <1>2, <2>2, StoredMark DEF Decode
    <3>2. UNCHANGED <<status, written>> /\ status = "holding"
      BY <2>2 DEF Decode
    <3>3. Stored' = Stored
      BY <3>2 DEF Stored, Block
    <3>4. Untouched
      BY <1>2, <3>2 DEF IInv, OneAtATime, Untouched
    <3>5. out' = Block
      BY <1>2, <2>2, <3>4, DecodeDelivers
    <3> QED
      BY <3>1, <3>3, <3>5
  <2>3. CASE BenchDecode
    <3>1. Stored = Block /\ Block \in Blocks
      BY <1>2, <2>3, StoredMark DEF BenchDecode
    <3> QED
      BY <2>3, <3>1 DEF BenchDecode, Stored
  <2>4. CASE ClearObject
    BY <2>4 DEF ClearObject, Stored
  <2>5. CASE ReplaceByClone
    BY <2>5 DEF ReplaceByClone, Stored
  <2>6. CASE UNCHANGED vars
    BY <2>6 DEF vars, Stored, Block
  <2> QED
    BY <1>2, <2>1, <2>2, <2>3, <2>4, <2>5, <2>6 DEF Next
<1> QED
  BY <1>1, <1>2, InvariantHolds, PTL
  DEF Spec, ImplementsContract, Contract!Spec
=============================================================================

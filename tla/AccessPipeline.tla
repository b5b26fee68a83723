---------------------------- MODULE AccessPipeline ----------------------------
(***************************************************************************)
(* bench_pipeline: one combination of an ordering, an initial              *)
(* transformation, an access transformation and two codecs.  In every      *)
(* repetition the raster is split into blocks, each encoded by a clone of  *)
(* the base codec; then every block is visited once, in linear or shuffled *)
(* order: decoded into a buffer they all share, transformed in that buffer *)
(* and, if the transformation changes data, encoded by a clone of the      *)
(* access codec that takes the old one's place in the grid.                *)
(*                                                                         *)
(* A codec that holds an encoding is [kind, data]: CodecClient shows that  *)
(* an object encoded once from fresh gives its block back.  The kinds:     *)
(*   direct   DirectAccessCodec: no overflow, the buffer is its storage    *)
(*   plain    no overflow slot and no failure (SimdCompCodec, ZstdCodec)   *)
(*   cascade  no overflow slot, may throw (DeltaCodec over FastPFor)       *)
(*   padded   PadSlots overflow slots that decoding may overrun; throws    *)
(*            on values of Limit or more (FastPForCodec and, as the        *)
(*            library decides what it leaves in a slot, its fused variant; *)
(*            among them FastPFor_SIMDPFor+VariableByte)                   *)
(*   fused    two overflow slots, which receive the sum of the block       *)
(*            (SimdCompFusedCodec)                                         *)
(*   dict     no overflow slot; throws on values its dictionary lacks      *)
(*            (DictCodecAVX2 of the older program in agg/)                 *)
(* agg/bench_pipeline.cpp splits and visits blocks in the same way; what   *)
(* it has beside this program is the pass that collects the dictionaries   *)
(* and a linear sum that is chosen by the name of the base codec.          *)
(***************************************************************************)
EXTENDS Transformations, Remappings

CONSTANTS
  NumBlocks, NumReps,             \* the command line
  Settings,                       \* the combinations, each with a block side
  Rasters,                        \* for each side, the rasters to read
  PadSlots, Limit,                \* of the external padded codecs
  Overruns, Keep,                 \* what a padded decode may leave in a slot
  MaxMissed                       \* bound on the reads that fail unnoticed

BlockNumbers == 1 .. NumBlocks
Kinds == {"direct", "plain", "cascade", "padded", "fused", "dict"}
\* LinearSum is the sum of agg/, which picks one of the other two.
ReadOnly == {"Scan", "LinearSumSimd", "LinearSumFused", "LinearSum"}

ASSUME BoundsAssumption == /\ {NumBlocks, NumReps, PadSlots} \subseteq Nat \ {0}
                           /\ MaxMissed \in Nat
ASSUME SlotsAssumption  == Overruns \subseteq Word \cup {Keep}
ASSUME RasterAssumption ==
  \A side \in DOMAIN Rasters :
    /\ side \in Nat \ {0} /\ side * side < Half
    /\ Rasters[side] \subseteq [BlockNumbers -> [1 .. side * side -> Word]]
ASSUME SettingsAssumption ==
  Settings \subseteq [side : DOMAIN Rasters, ordering : Orderings,
                      initial : Mutating \cup {"none"},
                      access : Mutating \cup ReadOnly, base : Kinds,
                      again : Kinds]

VARIABLES
  setting,   \* the combination
  raster,    \* the blocks of the raster, in the order they are sampled
  order,     \* accessIndexes
  overrun,   \* what the decoding of each block leaves in the overflow slots
  known,     \* min, and the two sets of unique values of agg/
  missed,    \* the blocks the pass that found them took for zeros
  rep, i,    \* the counters of the two loops
  grid,      \* codecGrid
  decbuf,    \* the shared buffer
  direct,    \* isDirectAccess
  sink,      \* kLinearSumSink
  pc,        \* one of Stages, or one of Ends
  firstGrid  \* history: the grid at the end of the first repetition
input == <<setting, raster, order, overrun>>
found == <<known, missed>>
vars  == <<input, found, rep, i, grid, decbuf, direct, sink, pc, firstGrid>>

Stages == {"scan", "split", "visit", "transform", "reencode"}

\* The combination is done; a read failed; an exception reached main; a
\* division by zero trapped.
Ends == {"done", "unread", "terminated", "trapped"}

\* blockSize * blockSize
N == setting.side * setting.side

Overflow(kind) == CASE kind = "fused"  -> 2
                    [] kind = "padded" -> PadSlots
                    [] OTHER           -> 0

\* The access orders: the identity, and what std::shuffle may make of it.
Orders == {o \in [BlockNumbers -> BlockNumbers] :
             \A j, k \in BlockNumbers : o[j] = o[k] => j = k}

Zeros(n) == [j \in 1 .. n |-> 0]

Init ==
  /\ setting \in Settings
  /\ raster \in Rasters[setting.side]
  /\ order \in Orders
  /\ overrun \in [BlockNumbers -> IF setting.base = "padded" THEN Overruns
                                  ELSE {Keep}]
  /\ known = [min |-> Half - 1, initial |-> {}, access |-> {}]
  /\ missed = {}
  /\ rep = 1 /\ i = 1
  /\ grid = <<>> /\ decbuf = <<>> /\ direct = FALSE
  /\ sink = 0
  /\ pc = "scan"
  /\ firstGrid = <<>>
-------------------------------------------------------------------------------
(***************************************************************************)
(* The pass before the combinations, which finds the minimum.  In agg/,    *)
(* computeMinAndUniqueValuesForBlock prepares each block as it is scanned, *)
(* with the minimum of the blocks scanned SO FAR, and its values before    *)
(* and after the access transformation go into the two dictionaries.  The  *)
(* pass does not look at what RasterIO returns: a block that could not be  *)
(* read is scanned as the zeros it was initialised with.                   *)
(***************************************************************************)
ShiftedBy(min, block) ==
  LET shift == IF min < 0 THEN Wrap(-min) ELSE 0
  IN  [p \in 1 .. N |-> Wrap(block[p] + shift)]

OrderedBy(min, block) ==
  ApplyOrdering(ShiftedBy(min, block), setting.ordering, setting.side)

PreparedWith(min, block) == Transformed(setting.initial, OrderedBy(min, block))

Collects == "dict" \in {setting.base, setting.again}

AfterAccess(data) ==
  IF setting.access \in Mutating THEN Transformed(setting.access, data) ELSE data

\* What the scan finds in block i.
Contents == {raster[i]} \cup IF Cardinality(missed) < MaxMissed THEN {Zeros(N)} ELSE {}

MinWith(block) == Min({known.min} \cup ToSet(block))

\* A plausible slip: the values before the transformation, for both codecs.
CollectedUntransformed(block) ==
  LET scanned == PreparedWith(MinWith(block), block)
  IN  [min |-> MinWith(block), initial |-> known.initial \cup ToSet(scanned),
       access |-> known.access \cup ToSet(scanned)]

Collected(block) ==
  LET scanned == PreparedWith(MinWith(block), block)
  IN  [min |-> MinWith(block), initial |-> known.initial \cup ToSet(scanned),
       access |-> known.access \cup ToSet(AfterAccess(scanned))]

ScanTraps(block) ==
  \/ Traps(setting.initial, OrderedBy(MinWith(block), block))
  \/ Traps(setting.access, PreparedWith(MinWith(block), block))

Scan(block) ==
  /\ pc = "scan"
  /\ Collects => ~ OrderingThrows(setting.ordering, setting.side) /\ ~ ScanTraps(block)
  /\ known' = IF Collects THEN Collected(block) ELSE [known EXCEPT !.min = MinWith(block)]
  /\ missed' = IF block = raster[i] THEN missed ELSE missed \cup {i}
  /\ i' = i + 1
  /\ pc' = IF i = NumBlocks THEN "split" ELSE "scan"
  /\ UNCHANGED <<input, rep, grid, decbuf, direct, sink, firstGrid>>

ScanStops(block) ==
  /\ pc = "scan" /\ Collects
  /\ \/ OrderingThrows(setting.ordering, setting.side) /\ pc' = "terminated"
     \/ /\ ~ OrderingThrows(setting.ordering, setting.side) /\ ScanTraps(block)
        /\ pc' = "trapped"
  /\ UNCHANGED <<input, found, rep, i, grid, decbuf, direct, sink, firstGrid>>
-------------------------------------------------------------------------------
(***************************************************************************)
(* SplitIntoFullBlocks, with the minimum of all blocks.  The first block   *)
(* that cannot be prepared or encoded ends it.                             *)
(***************************************************************************)
Prepared(k) == PreparedWith(known.min, raster[k])

\* The encodings that throw for sure; those of a cascade may.
MustThrow(kind, values, dictionary) ==
  CASE kind = "padded" -> \E v \in values : ToUnsigned(v) >= Limit
    [] kind = "dict"   -> \E v \in values : v \notin dictionary
    [] OTHER           -> FALSE

BlockTraps(k) == Traps(setting.initial, OrderedBy(known.min, raster[k]))

BlockThrows(k) == MustThrow(setting.base, ToSet(Prepared(k)), known.initial)

AllEncoded(blocks) == \A k \in blocks : ~ BlockTraps(k) /\ ~ BlockThrows(k)

SplitThrows ==
  /\ pc = "split"
  /\ \/ OrderingThrows(setting.ordering, setting.side)
     \/ \E k \in BlockNumbers : /\ AllEncoded(1 .. k - 1) /\ ~ BlockTraps(k)
                                /\ setting.base = "cascade" \/ BlockThrows(k)
  /\ pc' = "terminated"
  /\ UNCHANGED <<input, found, rep, i, grid, decbuf, direct, sink, firstGrid>>

SplitTraps ==
  /\ pc = "split" /\ ~ OrderingThrows(setting.ordering, setting.side)
  /\ \E k \in BlockNumbers : AllEncoded(1 .. k - 1) /\ BlockTraps(k)
  /\ pc' = "trapped"
  /\ UNCHANGED <<input, found, rep, i, grid, decbuf, direct, sink, firstGrid>>

\* A read that fails throws before anything is done with the block.
SplitUnread ==
  /\ pc = "split"
  /\ pc' = "unread"
  /\ UNCHANGED <<input, found, rep, i, grid, decbuf, direct, sink, firstGrid>>

SplitReturns ==
  /\ pc = "split"
  /\ ~ OrderingThrows(setting.ordering, setting.side) /\ AllEncoded(BlockNumbers)
  /\ grid' = [k \in BlockNumbers |-> [kind |-> setting.base, data |-> Prepared(k)]]
  /\ direct' = (setting.base = "direct")
  /\ i' = 1
  /\ pc' = "visit"
  /\ UNCHANGED <<input, found, rep, sink, firstGrid>>

\* A plausible slip: the shared buffer outlives its repetition.
SplitKeepsBuffer ==
  /\ SplitReturns
  /\ decbuf' = IF decbuf = <<>> THEN Zeros(N + Overflow(setting.base)) ELSE decbuf

\* The vectors of a repetition are its own.
Split == SplitReturns /\ decbuf' = Zeros(N + Overflow(setting.base))

-------------------------------------------------------------------------------
(***************************************************************************)
(* BenchmarkAccess: the visit of block order[i].                           *)
(***************************************************************************)
Visited == order[i]
Cell    == grid[Visited]

\* What DecodeArray leaves in a buffer that held buf.
Decoded(cell, buf, fill) ==
  LET slots == SubSeq(buf, N + 1, Len(buf))
      sum   == SumOf([p \in 1 .. N |-> ToUnsigned(cell.data[p])])
  IN  CASE cell.kind = "direct" -> buf
        [] cell.kind \in {"plain", "cascade", "dict"} -> cell.data \o slots
        [] cell.kind = "padded" ->
             cell.data \o [s \in DOMAIN slots |-> IF fill = Keep THEN slots[s]
                                                  ELSE fill]
        [] cell.kind = "fused" ->
             cell.data \o <<ToSigned(sum % (2 * Half)), sum \div (2 * Half)>>

Decode ==
  /\ pc = "visit" /\ i <= NumBlocks
  /\ decbuf' = IF direct THEN decbuf ELSE Decoded(Cell, decbuf, overrun[Visited])
  /\ pc' = "transform"
  /\ UNCHANGED <<input, found, rep, i, grid, direct, sink, firstGrid>>

\* The vector the lambda is given: the storage of a direct codec, or the buffer.
Buf == IF direct THEN Cell.data ELSE decbuf

\* A mutating transformation covers the whole vector, overflow slots included.
Mutate ==
  /\ pc = "transform" /\ setting.access \in Mutating
  /\ ~ Traps(setting.access, Buf)
  /\ LET after == Transformed(setting.access, Buf)
     IN  /\ decbuf' = IF direct THEN decbuf ELSE after
         /\ grid' = IF direct THEN [grid EXCEPT ![Visited].data = after] ELSE grid
  /\ pc' = "reencode"
  /\ UNCHANGED <<input, found, rep, i, direct, sink, firstGrid>>

MutateTraps ==
  /\ pc = "transform" /\ Traps(setting.access, Buf)
  /\ pc' = "trapped"
  /\ UNCHANGED <<input, found, rep, i, grid, decbuf, direct, sink, firstGrid>>

(***************************************************************************)
(* LinearSumSimd: four lanes over the quads, then the values left over.    *)
(***************************************************************************)
WrapSum(data) ==
  LET sum[k \in 0 .. Len(data)] == IF k = 0 THEN 0 ELSE Wrap(sum[k - 1] + data[k])
  IN  sum[Len(data)]

Lanes(data) == LET quads == N \div 4
               IN  [lane \in 1 .. 4 |->
                      WrapSum([q \in 1 .. quads |-> data[4 * (q - 1) + lane]])]

SimdSumNoTail(data) == WrapSum(Lanes(data))

SimdSum(data) ==
  WrapSum(<<WrapSum(Lanes(data))>> \o SubSeq(data, 4 * (N \div 4) + 1, N))

\* data[blockSize * blockSize], beyond the vector when it has no slot.
FusedSums == IF Len(Buf) > N THEN {Buf[N + 1]} ELSE Word

(***************************************************************************)
(* agg/ asks codecs[0] for its name before the loop: the fused codec's is  *)
(* among those it knows, and one padded codec's.  For the others it adds   *)
(* to the sums of the blocks before.                                       *)
(***************************************************************************)
RunningSum == Wrap(sink + SimdSum(Buf))

NamedSums == CASE setting.base = "fused"  -> FusedSums
               [] setting.base = "padded" -> FusedSums \cup {RunningSum}
               [] OTHER                   -> {RunningSum}

Read ==
  /\ pc = "transform" /\ setting.access \in ReadOnly
  /\ sink' \in CASE setting.access = "Scan"           -> {sink}
                 [] setting.access = "LinearSumSimd"  -> {SimdSum(Buf)}
                 [] setting.access = "LinearSumFused" -> FusedSums
                 [] setting.access = "LinearSum"      -> NamedSums
  /\ i' = i + 1
  /\ pc' = "visit"
  /\ UNCHANGED <<input, found, rep, grid, decbuf, direct, firstGrid>>

ToEncode == SubSeq(Buf, 1, N)

AgainThrows == MustThrow(setting.again, ToSet(ToEncode), known.access)

ReencodeAll ==
  /\ pc = "reencode" /\ ~ AgainThrows
  /\ grid' = [grid EXCEPT ![Visited] = [kind |-> setting.again, data |-> Buf]]
  /\ i' = i + 1
  /\ pc' = "visit"
  /\ UNCHANGED <<input, found, rep, decbuf, direct, sink, firstGrid>>

ReencodeInPlaceOfI ==
  /\ pc = "reencode" /\ ~ AgainThrows
  /\ grid' = [grid EXCEPT ![i] = [kind |-> setting.again, data |-> ToEncode]]
  /\ i' = i + 1
  /\ pc' = "visit"
  /\ UNCHANGED <<input, found, rep, decbuf, direct, sink, firstGrid>>

Reencode ==
  /\ pc = "reencode" /\ ~ AgainThrows
  /\ grid' = [grid EXCEPT ![Visited] = [kind |-> setting.again, data |-> ToEncode]]
  /\ i' = i + 1
  /\ pc' = "visit"
  /\ UNCHANGED <<input, found, rep, decbuf, direct, sink, firstGrid>>

ReencodeThrows ==
  /\ pc = "reencode"
  /\ setting.again = "cascade" \/ AgainThrows
  /\ pc' = "terminated"
  /\ UNCHANGED <<input, found, rep, i, grid, decbuf, direct, sink, firstGrid>>

(***************************************************************************)
(* The repetitions of RunOneCombination.  The vectors of a repetition go   *)
(* out of scope with it.                                                   *)
(***************************************************************************)
NextRepForgotten ==
  /\ pc = "visit" /\ i = NumBlocks + 1
  /\ pc' = IF rep = NumReps THEN "done" ELSE "split"
  /\ firstGrid' = IF rep = 1 THEN grid ELSE firstGrid
  /\ UNCHANGED <<input, found, rep, i, grid, decbuf, direct, sink>>

NextRep ==
  /\ pc = "visit" /\ i = NumBlocks + 1
  /\ rep' = rep + 1
  /\ pc' = IF rep = NumReps THEN "done" ELSE "split"
  /\ firstGrid' = IF rep = 1 THEN grid ELSE firstGrid
  /\ UNCHANGED <<input, found, i, grid, decbuf, direct, sink>>

Over == pc \in Ends /\ UNCHANGED vars

Step == \/ pc = "scan" /\ \E block \in Contents : Scan(block) \/ ScanStops(block)
        \/ SplitUnread \/ SplitThrows \/ SplitTraps \/ Split
        \/ Decode \/ Mutate \/ MutateTraps \/ Read \/ Reencode \/ ReencodeThrows
        \/ NextRep

Next == Step \/ Over

(***************************************************************************)
(* One thread, which always goes on to its next statement: weak fairness   *)
(* of Step, which is enabled exactly until one of the Ends (a state where  *)
(* it is not is a deadlock).                                               *)
(***************************************************************************)
Fairness == []<>(pc \in Ends) \/ []<><<TRUE>>_vars

Spec == Init /\ [][Next]_vars /\ Fairness
-------------------------------------------------------------------------------
\* The type invariant: every codec of the grid holds exactly one block.
TypeOK ==
  /\ setting \in Settings /\ raster \in Rasters[setting.side]
  /\ known \in [min : Word, initial : SUBSET Word, access : SUBSET Word]
  /\ missed \subseteq BlockNumbers
  /\ rep \in 1 .. NumReps + 1 /\ i \in 1 .. NumBlocks + 1
  /\ grid = <<>> \/ grid \in [BlockNumbers -> [kind : Kinds, data : [1 .. N -> Word]]]
  /\ decbuf = <<>> \/ decbuf \in [1 .. N + Overflow(setting.base) -> Word]
  /\ direct \in BOOLEAN /\ sink \in Word
  /\ pc \in Stages \cup Ends

(***************************************************************************)
(* Whether to decode at all, and how many overflow slots the shared buffer *)
(* has, is asked of codecs[0] before the loop, which replaces codecs as it *)
(* goes: the codec about to be decoded is still one of the kind that was   *)
(* asked, so that no decode writes beyond the buffer and no encoded block  *)
(* is taken for its own storage.                                           *)
(***************************************************************************)
CodecIsTheOneAsked ==
  pc = "visit" /\ i <= NumBlocks =>
    /\ direct = (Cell.kind = "direct")
    /\ ~ direct => Len(decbuf) = N + Overflow(Cell.kind)

(***************************************************************************)
(* At the head of the loop, the blocks visited hold the transformation of  *)
(* the prepared block, applied exactly once, in the access codec and in    *)
(* their own place of the grid; the others are untouched.  This holds      *)
(* whatever the order of access and the repetition, for codecs without     *)
(* overflow slots and for transformations that change no data; the slots   *)
(* of the others take part in the transformation.                          *)
(***************************************************************************)
Reached == {order[j] : j \in 1 .. i - 1}

BlocksTransformedOnce ==
  pc \in {"visit", "done"} =>
    \A k \in BlockNumbers :
      LET prepared == Prepared(k)
      IN  CASE k \notin Reached \/ setting.access \in ReadOnly ->
                 grid[k] = [kind |-> setting.base, data |-> prepared]
            [] k \in Reached /\ setting.access \in Mutating
                 /\ Overflow(setting.base) = 0 ->
                 grid[k] = [kind |-> setting.again,
                            data |-> Transformed(setting.access, prepared)]
            [] OTHER -> grid[k].kind = setting.again

(***************************************************************************)
(* The SIMD sum and the sum a fused codec leaves behind are, modulo the    *)
(* word, the sum of the block just visited: no stale slot, lane or tail.   *)
(* In agg/ the sum of a block is added to what the sink had, unless it is  *)
(* read from the slot of a fused codec.                                    *)
(***************************************************************************)
SumsTheBlock(before) ==
  LET prepared == Prepared(Visited)
  IN  (sink' - before - SumOf(prepared)) % (2 * Half) = 0 /\ sink' \in Word

ReadsTheSlot == setting.access \in {"LinearSumFused", "LinearSum"} /\ setting.base = "fused"
AddsToTheSink == setting.access = "LinearSum" /\ setting.base \notin {"fused", "padded"}

SumIsOfTheBlock ==
  [][Read => /\ setting.access = "LinearSumSimd" \/ ReadsTheSlot => SumsTheBlock(0)
             /\ AddsToTheSink => SumsTheBlock(sink)]_vars

(***************************************************************************)
(* Repetitions measure the same work: whatever is left in the overflow     *)
(* slots and fed to a transformation, every repetition ends with the grid  *)
(* of the first.                                                           *)
(***************************************************************************)
RepsAgree == pc \in {"visit", "done"} /\ rep > 1 /\ i = NumBlocks + 1 =>
               grid = firstGrid

\* Every combination comes to an end, or the program does.
Terminates == <>(pc \in Ends)

(***************************************************************************)
(* An ordering that is applied moves the values of a block and neither     *)
(* loses nor repeats one, so that all codecs are compared on the same      *)
(* values; Morton order is applied exactly to sides that are powers of     *)
(* two, and a codec that takes every block ends the program only there.    *)
(***************************************************************************)
\* Every divisor but 1 is even.
PowerOfTwo(n) == \A d \in 2 .. n : n % d = 0 => d % 2 = 0

Occurrences(v, data) == Cardinality({p \in DOMAIN data : data[p] = v})

OrderingKeepsTheValues ==
  /\ pc = "visit" /\ i = 1 /\ setting.initial = "none" =>
       \A k \in BlockNumbers :
         LET shifted == ShiftedBy(known.min, raster[k])
         IN  \A v \in Word : Occurrences(v, grid[k].data) = Occurrences(v, shifted)
  /\ pc \in Stages \ {"scan", "split"} /\ setting.ordering = "morton" => PowerOfTwo(setting.side)
  /\ pc = "terminated" /\ {setting.base, setting.again} \subseteq {"plain", "direct", "fused"}
       => setting.ordering = "morton" /\ ~ PowerOfTwo(setting.side)

(***************************************************************************)
(* What a division by zero, or of the least word by -1, can come from: a   *)
(* block with fewer values than classes, or values that span half the word *)
(* or more where they are classified: in the raster, with what decoding    *)
(* left in the overflow slots, or after a transformation that wraps.  And  *)
(* the slots a base codec adds to the buffer count as values there: of the *)
(* same small block, classifying by index may trap with one base codec and *)
(* not with another.                                                       *)
(***************************************************************************)
ByIndex(t) == t = "IndexBasedClassification"
ByValue(t) == t = "ValueBasedClassification"

RasterValues == UNION {ToSet(raster[k]) : k \in BlockNumbers}
Narrow == \A v, w \in RasterValues \cup {0} : v - w < Half

TrapsOnSmallOrWideBlocks ==
  /\ pc = "trapped" =>
       \/ N < Classes /\ (ByIndex(setting.initial) \/ ByIndex(setting.access))
       \/ ByValue(setting.initial) /\ ~ Narrow
       \/ ByValue(setting.access)
          /\ \/ ~ Narrow
             \/ Overflow(setting.base) > 0
             \/ setting.initial \in {"SmoothAndShift", "ValueShift"}
  /\ pc = "done" =>
       /\ ByIndex(setting.initial) => Classes <= N
       /\ ByIndex(setting.access)  => Classes <= N + Overflow(setting.base)

(***************************************************************************)
(* agg/: a dictionary that was collected block by block has every value    *)
(* that is encoded with it, unless the minimum fell below zero, or further *)
(* below it, after a block had been scanned, or the block was not read in  *)
(* the scan, or the base codec's overflow slots took part in the           *)
(* transformation.  So no combination ends for the want of a value.        *)
(***************************************************************************)
Seen(k) == IF k \in missed THEN Zeros(N) ELSE raster[k]

MinOfFirst(k) == Min(UNION {ToSet(Seen(j)) : j \in 1 .. k})

MinimumSettled ==
  \/ MinOfFirst(NumBlocks) >= 0
  \/ \A k \in BlockNumbers : MinOfFirst(k) = MinOfFirst(NumBlocks)

DictionariesSuffice ==
  Collects /\ MinimumSettled =>
    /\ pc = "split" /\ setting.base = "dict" =>
         \A k \in BlockNumbers \ missed : ToSet(Prepared(k)) \subseteq known.initial
    /\ pc = "reencode" /\ Overflow(setting.base) = 0 /\ Visited \notin missed =>
         ToSet(ToEncode) \subseteq known.access
    /\ pc = "terminated" /\ ~ OrderingThrows(setting.ordering, setting.side)
         /\ setting.base \in {"dict", "plain", "direct"} /\ missed = {}
       => setting.again # "dict"
=============================================================================

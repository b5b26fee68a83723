# A TLA+ verification of compression-geospatial

The repository benchmarks integer codecs on blocks of geospatial rasters. What can be
wrong in it is not concurrency (every program is one thread): it is *stateful codec
objects used more than once*. An object that was encoded into, failed, or was decoded
carries that history into its next call, and the two benchmark programs keep pools and
grids of such objects over long loops with early exits. That, and arithmetic at the edge
of the word, is what this project models.

Paths below are relative to the repository root.

## 1. Inventory

| Component | Source | State | Operations | Hard behaviour |
|---|---|---|---|---|
| Scalar logical codecs | `src/codecs/int32/custom_unvec_logic_codecs.h` | `compressed_data` | AllocEncoded, EncodeArray, DecodeArray, clear, CloneFresh | encoding appends; differences and offsets overflow; RLE ignores the length asked for |
| Interface and cascade | `src/codecs/generic/*.h` | two codecs, `intermediateEncodedSize` | the same, BenchEncode, BenchDecode | an exception between two steps; a decode that leaves the intermediate array behind |
| Codecs over a library | `src/codecs/int32/{simdcomp,fastpfor,turbopfor,lz4,zstd,lzma,deflate,maskedvbyte,streamvbyte,frameofreference}*_codecs.h` | a byte or word buffer, a bit width, scratch vectors | the same | whether the allocation covers the worst output; sizes that are rounded; failures that are thrown, logged or asserted; scratch memory and streams left behind |
| `bench_comp` | `bench/bench_comp.cpp`, `BenchmarkOneCodec` in `src/bench_utils.h` | the pool of codecs, the statistics | configuration → window → codec | early returns that skip the reset; configurations abandoned by an exception |
| `bench_pipeline` | `bench/bench_pipeline.cpp`, `ApplyAccessTransformation` | the grid of codecs, the shared buffer, `kLinearSumSink` | split, decode, transform, encode again, replace | facts read before a loop that changes them; overflow slots that travel from block to block; random access order |
| Transformations, remappings | `src/transformations.h`, `src/remappings.h`, `src/util.h` | none | pure | overflow, divisions that trap (by zero, and of the least word by -1), sides that are not powers of two |
| Sampling, raster access | `src/bench_utils.h`, `bench/bench_gdal_utils.h` | none | offsets, minimum, shift | ignored read failures, repeated samples, overflow of the shift |
| Registry, command lines | `src/codecs/int32/codec_collection.h`, both `main`s | none | pools by kind, selection by name, the nested loops over the options | names that are unknown, repeated or misspelt; what an exception, or a trap, ends |
| Vectorised logical codecs | `src/codecs/int32/custom_vec_logic_codecs.h` | a buffer of fixed size | as the scalar ones | lengths below a register, signed shifts |
| Earlier program | `agg/*` | as `bench_pipeline`, and two dictionaries | a scan per combination, then the same loops | dictionaries collected before the minimum is known; a sum chosen by the name of a codec |

`bench_comp` and `bench_pipeline` both call the codecs through `StatefulIntegerCodec`;
`bench_comp` keeps objects (a pool), `bench_pipeline` clones one per block. The cascade
calls its two members through the same interface. Transformations work in place on the
vector they are given, which in `bench_pipeline` is a buffer shared by all blocks, or the
storage of a DirectAccessCodec itself.

What makes each component correct:

* *logical codecs*: decoding returns the block, for every block, at every word width;
* *codec objects*: between two clean-ups an object is a one-block store;
* *codecs over a library*: what the library writes lies inside the vector made for it, a
  decode reads what was written, a call that returns delivered the block and left nothing
  behind, and an object used again is as good as new;
* *bench_comp*: a reported figure is about its window and codec, and about nothing that
  happened earlier; the figures of the codecs line up; the loops end;
* *bench_pipeline*: each block is transformed exactly once, in its own place, whatever
  the access order; sums are of the block; repetitions repeat; an ordering moves values
  and loses none; a dictionary has what is encoded with it;
* *sampling*: every block handed on is a whole block of the raster, the samples are
  spread evenly, and the shift by the minimum leaves no value negative;
* *vectorised codecs*: an encoding loop and its decoding loop agree on the registers they
  visit and on what each lane is compared with; no register leaves the block;
* *registry and command lines*: everything asked for runs once and in order, and an
  unknown name is noticed before anything runs, or changes nothing but the pool.

## 2. Modules

| Module | Models | State and actions |
|---|---|---|
| `Words` | words of `w` bits (`Half` = 2^(w-1)), two's complement, zigzag | - |
| `LogicalCodecs` | Delta, FOR and RLE codecs as functions of the buffer before a call | - |
| `CodecObjects` | all kinds of object behind the interface, cascades included, as functions | an object is `[first, second, inter]` |
| `BlockCodec` | *abstract*: a one-block store | `stored`, `out`; Put, Get, Spend, CleanUp |
| `CodecClient` | one object and a caller with every legal sequence of calls | `kind`, `obj`, `status`, `written`, `out`; Encode, Decode, BenchDecode, ClearObject, ReplaceByClone |
| `LogicalCodecsProofs` | theorems about the codecs as functions, and about the objects built from them | - |
| `CodecClientProofs` | theorems; extends `LogicalCodecsProofs` | - |
| `BufferCodecs` | every class that wraps a compression library: one object, and a caller with every legal sequence of calls, failures included | `kind`, `asserts`, `obj`, `status`, `given`, `out`, `result`, `streams` and the history `threw`; AllocEncoded, EncodeReturns, EncodeThrows, DecodeReturns, DecodeFails, clear, CloneFresh |
| `BufferCodecsProofs` | theorems | - |
| `BenchComp` | `bench_comp`: configurations, windows, pool, the four ways out of `BenchmarkOneCodec` | `pool`, `config`, `windows`, `window`, `ci`, `phase`, `stats` and the history `failed` |
| `BenchCompProofs` | theorems; extends `LogicalCodecsProofs` | - |
| `Transformations`, `Remappings` | the in-place transformations and the orderings, pure | - |
| `AccessPipeline` | `bench_pipeline`, and the scan of `agg/`: one combination and its repetitions | `known`, `grid`, `decbuf`, `order`, `rep`, `i`, `direct`, `sink`, `pc`, the inputs, the history `firstGrid`; Scan, Split, Decode, Mutate, Read, Reencode, NextRep and an action for every way of ending early |
| `AccessPipelineProofs` | theorems | - |
| `VectorCodecs` | the nine SSE, AVX2 and AVX-512 classes as functions: which registers a loop visits, and the *anchor* each value's difference is taken to | - |
| `VectorClient` | one object of such a class and a caller that cleans up or not | `scheme`, `isa`, `held`, `written`, `out`, `overrun`; Encode, EncodeOverruns, Decode, ClearObject |
| `VectorClientProofs` | theorems; extends `LogicalCodecsProofs` | - |
| `RasterBlocks` | the two passes of both programs over a raster: `SampleBlockOffsets`, the minimum, the shift, reads that fail, divisions by zero | `input`, `raster`, `pc`, `k`, `minimum` and the histories `missed`, `blocks` |
| `RasterBlocksProofs` | theorems | - |
| `Drivers` | both `main`s: the pools, selection by name, when each option string is parsed, the nested loops | `options`, `pc`, `lists`, `at`, `failures` and the history `ran` |
| `DriversProofs` | theorems | - |
| `MC*` | small instances for TLC | - |

`CodecObjects` is composed into `CodecClient` and `BenchComp`. `AccessPipeline` uses the
contract that `CodecClient` establishes instead of the objects: a codec of the grid is
encoded once from fresh, so it is represented by its kind and its block. That contract
rests in turn on `BufferCodecs`: `UsedAsFresh` and `DeliversTheBlock` there are what
`CodecObjects` takes for granted of a physical codec.

Correspondence with the code, where it is not one to one:

* `AllocEncoded` and `EncodeArray` are one operator, `EncodeArray`: no caller makes one
  call without the other. `BenchEncode` makes the same calls.
* In `CodecObjects` a physical codec's buffer is represented by the array it stands for. `simd` gives it
  back; `pfor` does so too but throws for values of `Limit` or more (2^28 for Simple16,
  per `tests/test_int32_codecs.cpp:65`); `lossy` and `fragile` stand for external schemes
  that do not round-trip, such as those `tests/test_int32_codecs.cpp:226` lists: they
  exercise the error paths of `BenchmarkOneCodec`; the runs and theorems of `BenchComp` cover
  them, those of `CodecClient` are about the sound kinds. What such a scheme gives back is
  any function of the words (`Garble`), zeros included; a decoding that throws leaves
  behind the buffer that the cascade had resized for it, overflow slots (`Slots`) and
  whatever was written of it (`Partials`) included.
* The FastPForCodecs of a pool that are clones of one another share one `IntegerCODEC`
  (`fastpfor_codecs.h:17`, `:58`). That it keeps nothing from one call to the next is an
  assumption about FastPFor, which is not in the repository.
* An RLECodec that is handed pairs it did not write, as after a scheme that does not
  round-trip, may decode past the end of `dataBack`. `BenchComp` then either goes on to the
  comparison or dies (`Overrun`, phase "crashed").
* Signed overflow is taken to wrap, as the build's code does. `Wrap` reduces the sums,
  differences and doubles of words only.
* `BufferCodecs` keeps sizes and not contents. A block is a length and how many of its
  values are `2^width - 1` rather than 0, which is what the sizes of the formats depend
  on. Where the format is fixed (simdcomp, FrameOfReference, the byte codes) the size is
  computed as the vendored library computes it; of the others the library may end
  anywhere up to the bound it documents, of which TLC takes the extremes and, for
  TurboPFor's methods 14, 15, 19 and 20, the values on both sides of the wrapper's own
  comparisons. `AllocEncoded` and `EncodeArray` are separate actions here, because what
  lies between them (a width, scratch memory) is what can go wrong. Kinds group the
  classes and methods whose own code is the same; the map names one class for each.
* In a `BufferCodecs` encoding, `end` is where the library says it ended and `wrote`
  where it last wrote. `Delivered` gives `Other` wherever the bytes would be decoded
  with another width, or packed values taken for raw ones.
* In `AccessPipeline` the kind "dict" and the access transformation "LinearSum" are those
  of `agg/bench_pipeline.cpp`, whose loops are otherwise the same. With "dict" the scan
  is `computeMinAndUniqueValuesForBlock`, without it `ComputeMinForBlock`. `agg/` passes
  its dictionaries to an `initCodecs` that is not in the repository; it is taken to build
  a `DictCodecAVX2` from them. Codecs that write the sum (simdcomp and, in `agg/`,
  `RLECodecAVX512`) are the kind "fused", in `agg/` by their names.
  `FastPForFusedCodec` is "padded": whether a sum reaches its slots is decided in a
  FastPFor that is not in the repository, so nothing is claimed of its fused sum. The same
  goes for `FastPFor_SIMDPFor+VariableByte`, one of the three names for which `agg/` reads
  the slot (`agg/bench_pipeline.cpp:193-205`): with a padded base codec `NamedSums` has
  both ways of summing, and the property neither. For the codecs it does not know `agg/` adds
  the sum to what its sink had (`RunningSum`), where `bench_pipeline` starts from zero. Its
  cascades over `RLECodecAVX512` are "fused" by that name, and a cascade that both sums and
  throws has no kind of its own: what it does beside the two is what "fused" and "cascade" do.
* The scans do not look at what a read returns. In `AccessPipeline` the scan may take a
  block for zeros (`Contents`; at most `MaxMissed` of them) that the split, which does
  look, reads later.
* A division traps, and no handler catches that, in three places: for a raster without
  one whole block or a size of zero (`SampleBlockOffsets`, and the first loops over the
  raster), for fewer values than classes (`IndexBasedClassification`), and for a range that
  has wrapped around to a bin size of -1 (`ValueBasedClassification` with a value 2^31
  above the least). `Transformations` has the condition on the vector (`Traps`), of which
  `AccessPipeline` takes the exits; `RasterBlocks` the one on the raster; `Drivers` has the
  raster's kind as an input and lets what depends on values happen or not (`MayTrap`).
* Mutating access transformations are applied to the whole vector, overflow slots
  included, as the code applies them; decoding may leave anything in the slots of a
  FastPFor codec (`Overruns`), and a read of a slot that does not exist yields any word.
* The `continue` of `bench_comp.cpp:66` is not an action: sampled offsets are those of
  whole blocks, so it is never taken.
* `VectorCodecs` keeps the choice of registers and anchors and not the instructions: a
  shuffle that broadcasts the last lane is the anchor `s - 1` of all lanes of the register
  at `s`, `_mm256_permute4x64_epi64` is the last *two* lanes in turn, and the shifts are
  the arithmetic or the logical one that the class uses at that place. `Lanes` is a
  constant, so are the theorems' registers; TLC's are 2, 4 and 3 values wide, where the
  machine's are 4, 8 and 16. A register that leaves the block ends the model
  (`EncodeOverruns`): what is beyond an array is not in it.
* In `RasterBlocks` a block is the *set* of its values; where a value is matters to
  neither the minimum nor the shift. A read that is not looked at delivers the zeros its
  vector was made with.
* In `Remappings` a Morton code is computed as the vendored libmorton does: each coordinate is
  deposited in every other bit, and the zeros of one take the bits of the other. That the
  result is a rearrangement is a theorem, not part of the definition.
* In `Drivers` a codec is the sequence of names it is built from. One entry of `ran` is
  one configuration of `bench_comp` (what `BenchComp` models) or one combination of
  `bench_pipeline` (what `AccessPipeline` models). Each parser has its own set of names
  (`KnownOrderings` to `KnownPatterns`): "default" is an ordering and not a codec, "none" a
  transformation and not an access transformation.
* Operators introduced by "A plausible slip", and those called ...`NoReset`, ...`Retried`, ...`Uncaught` and the like, each
  directly before the definition it varies, are mistakes the properties are tested
  against. No specification uses them.

## 3. Runs

| Run | Question | Bounds |
|---|---|---|
| `client_clean` | does every kind of object implement the one-block store for a caller that cleans up? | 3-bit words (all of them), all blocks of up to 3 values, all 11 sound kinds |
| `client_reuse` | what remains of it without clean-up, which blocks come back and which throw? | words of 6 values, edge values only, blocks of up to 2, three encodings between clean-ups |
| `client_bench` (violation) | does BenchDecode restore the intermediate array? | cascades, one encoding |
| `bench_comp` | results independent of the past, aligned, which are lost for good, and termination | 8 objects, 5 windows chosen so that every codec succeeds, throws and mismatches; a lossy scheme that changes every word, zeros too, and a fragile one with a slot that throws after nothing or after a run; 2 configurations of 2 windows |
| `bench_comp_reset` (violation) | is a codec reset on every way out, as the comment says? | 3 objects of the registry |
| `access_pipeline` | exactly once, in place, sums of the block, same in every repetition, values kept by the orderings, traps and exceptions only where they belong; termination | sides 1 to 4, 3 blocks in all six orders, 2 repetitions, every transformation and ordering, all six kinds as base and five to encode again, 6-bit words; rasters at the edges of the word, one of which wraps to a bin size of -1; one read the scan misses |
| `buffer_codecs` | do the allocations suffice, does a decode deliver, is anything left behind? | all 17 kinds; blocks of 1, 15, 16, 32 and 133 values, widths 0, 1, 8, 15 and 32, none, one or all of the values wide; both builds; two streams left open |
| `vector_codecs` | which blocks come back from the vectorised codecs, and from objects used again? | registers of 2, 4 and 3 values, 5-bit words, blocks of up to 14; two encodings without clean-up, three for run length |
| `raster_blocks` | are whole blocks handed on, evenly, and when are they non-negative? | every raster up to 7 by 5, sides 0 to 3, 0 to 8 samples; every pair of blocks over the edges of the word, any read failing |
| `raster_comment` (violation) | are all values shifted non-negative, as the comment says? | the same |
| `drivers` | what is run, in which order, before what ends the program, and from which pool? | one and two names of each kind, repeated and misspelt ones, names of another option, two failures; rasters without blocks, with blocks of fewer values than classes, and others |

Why the bounds are enough: the codec functions treat a value only in relation to its left
neighbour, the block's minimum or the run it is in, so three values cover first, inner
and last position, and small words put both kinds of overflow within reach of most
blocks. Reuse is a matter of what one call leaves for the next; three encodings allow a
stale buffer to be encoded over twice. In `BenchComp` a codec's history reaches a later
window through its object alone, so two windows and two configurations show every kind of
transfer (window to window, and across an abandoned configuration). In `AccessPipeline`
two blocks are enough for one to leave something in the shared buffer for the other, and
two repetitions for the second to meet what the first left; the third block makes an
access order that is not its own inverse, and a minimum that falls after a block has been
scanned. Sides 1 to 4 have blocks of fewer values than classes, a sum with quads and a
tail, and Morton codes of powers of two and of 3. In `BufferCodecs` the lengths end
inside, at and after groups of 4, 8, 16, 32 and 128 values, the widths are odd and even,
at the edges of bytes and of the word; an object is used any number of times, so no
bound is put on reuse. In `VectorClient` the longest blocks reach the third register after the
heads, so that a register is compared with the heads, with a register, and the tail with
a register, and they end inside, at and just after one. `RasterBlocks` covers fewer,
as many and more samples than blocks, in rasters with and without a cut last row or
column. In `Drivers` two names of each kind make every index of the nested loops both
advance and start again. What lies beyond these bounds is the business of the theorems:
every safety property a run checks is proved for all values of the constants (section 4).

Some results worth knowing:

* `StaleBlockWins`: a bare DeltaCodec or FORCodec used twice returns the *first* block's
  values. RLECodec and the physical codecs recover (`SelfHealing`); RLECodec does because
  its first pair is the zero run of a fresh object, which `resize(2)` preserves.
* `ResultsAreStandalone` holds of objects that heal themselves or have not failed. The
  exception is real: `bench_comp_reset` shows it. A cascade over RLECodec heals itself only
  with a scheme that round-trips: a failed decoding can put a run in the place of the zero
  run that `resize(2)` preserves, and nothing removes it again.
* `ThrowsUntilCleaned`: an array that the physical codec of a cascade over DeltaCodec or
  FORCodec refused stays in the logical codec's buffer and is refused again with every
  block, until the caller cleans up. `RefusedForGood` is what `bench_comp` makes of it: one
  window that throws costs that cascade all later windows and configurations of its pool.
* `BlocksTransformedOnce` says the exact contents only for base codecs without overflow
  slots. With slots, the transformation and its averages include them; `RepsAgree` shows
  that every repetition still ends with the same grid.
* `OrderingKeepsTheValues`: Morton order is a rearrangement for exactly the sides that are
  powers of two; for the others the program ends.
* `TrapsOnSmallOrWideBlocks`: whether IndexBasedClassification divides by zero depends on the
  overflow slots of the base codec as well as on the block: a block of one value is
  classified in the buffer of one codec and traps in that of another. ValueBasedClassification
  divides INT_MIN by -1 where the range of its values wraps around; the values are then
  half the word or more apart.
* `DictionariesSuffice`: the dictionaries of `agg/` are collected under a minimum that may
  still fall. They have every value needed unless it fell below zero after some block had
  been scanned, the scan missed the block (its read failed, unnoticed), or overflow slots were
  transformed with the block; in those cases an encoding may throw, and nothing catches it.
* `EncodingFits`: every wrapper's allocation covers its library's worst case, including
  the turbo packing's eight bytes at a time, which end 4 bytes after the end it reports.
* `SizeCoversTheReads`: SimdCompCodec computes its size in registers. For values of 32
  bits and a length that is no multiple of 4 the vector is cut up to 12 bytes short of
  what is read back (the bytes are still there: `resize` keeps the memory), and the size
  reported to the benchmark is that much too small. `simdcomp_fused_codecs.h` is the same.
* `DeliversTheBlock` of `BufferCodecs` has three exceptions. FrameOfReferenceCodec loses
  blocks of 16 or more equal values, because `nullunpacker16` and `nullunpacker32` of
  the library write eight: this is what the comment at `frameofreference_codecs.h:14`
  ("fails after transformations: threshold and valueShift") reports. DeflateCodec logs a
  failure and returns. MaskedVByte and StreamVByte decode inside an `assert`, so that a
  build with NDEBUG decodes nothing. In each case a comparison with the block, as
  `BenchmarkOneCodec` makes it, notices, unless the block is all zeros and the buffer
  new. `bench_pipeline` compares nothing.
* `LeavesNothing`: a stream of LZMACodec and the scratch vector of TurboPFor's method 15
  are lost to a call that threw, and to no other.
* `lz4_codecs.h:35` adds the negative size it wants to report to the address of a string
  literal: the model lets that call throw or end the program (`DecodeFails`).
* `RoundTripsExactlyWhenNarrow`: the vectorised delta and FOR codecs undo the zigzag with
  an arithmetic shift of a signed word, except where the AVX2 and AVX-512 delta loops
  shift in zeros. They return a block exactly when every difference decoded that way is
  narrower than half the word; the scalar codecs have no such limit.
* `RleHealsUnlessBlocksGrow`: the vectorised RLE codecs resize where they mean to reserve
  and push after it. They return the last block unless an earlier, shorter one is still
  in the vector.
* `OnlyShortSseBlocksOverrun`: `length - 4` is unsigned in the SSE delta and FOR loops, so
  blocks of one to three values are read and written past their end. The benchmark's
  blocks are squares of at least that size for any side but 1.
* `ShiftedWhenTheRangeFits`: the shift leaves no value negative exactly when the block's
  values are less than 2^31 above the minimum.
* A composite name that no codec has makes `bench_comp` measure the plain codecs, as
  `none` does, so that two such names measure them twice. A name that a codec has never
  brings them, nor anything that another name brings (`CompositesShareNoCodec`).
* `OnlyANameOrATrapEndsComp`: `bench_comp` goes on after a configuration that throws. A name
  it does not know and a division that traps end it, and what is before them has been
  measured.
* An access pattern nobody knows ends `bench_pipeline` only when it is reached, after the
  combinations before it were measured (`UnknownNamesRunNothing` is about the other names,
  which are parsed up front).

Violations found, each against a comment of the code: `BenchDecode` of a cascade
(`composite_codec.h:88` against `:98`), the reset of `BenchmarkOneCodec`
(`bench_utils.h:369` against `:356-357`), and the shift by the minimum (`bench_comp.cpp:68`
against `:134`).

**Fairness.** `BenchComp` and `AccessPipeline` assume weak fairness of their steps: each is
a single thread that always goes on to its next statement. In `AccessPipeline` it is
written out as "infinitely often ended, or infinitely often a step": a step is enabled
exactly until one of `Ends`, which the deadlock check confirms, so the two are the same and this one is
cheaper to check. There is no fairness on
individual choices (which window, whether the remapping throws). The other modules need
none: they state no liveness property. Only `vector_codecs` switches the deadlock check
off, because nothing follows an overrun; programs that end elsewhere have a step of their
own for having ended.

## 4. Proofs

Every safety property of the passing runs, action properties and the refinement included,
is a theorem of its specification; `PROJECT.json` lists them. The proofs are for every word
width (`Half`), every length of block and every value of the other constants that satisfies
the named assumptions.

**How recursive functions are dealt with.** The prover has no induction over data, so what
a decoder computes is shown by a *least counterexample* (`LeastElement`): the result
satisfies the recursive equation, the function the decoder defines satisfies it too, and a
least position where two solutions differ cannot exist. That a solution exists at all
(recursive functions are defined by CHOOSE) is shown the same way, by the least length for
which there is none (`LoopComputes`, `SpreadExists`, `ValueExists`).

`LogicalCodecsProofs`:

* `ZigzagRoundTrip`: by cases on the sign.
* `DeltaPrefix`, `DeltaRoundTrip`, `ForPrefix`, `ForRoundTrip`: decoding a buffer that
  *starts with* the symbols of a block gives the block. `SymbolRecovered` is the heart of
  both: the decoder's `Wrap(delta + previous)` undoes the encoder's `Wrap(x - previous)`
  even when the difference left the word.
* `RleRoundTrip`, `RleAfterStale`: the encoder is given a closed form, the positions where
  one run ends and the next begins. The decoder's lookup of a position in the pairs has one
  solution, and the runs' bounds are it. `RleAfterStale` puts any pairs in front: the block
  comes back exactly when all the counts in front are zero, which covers the reserved first
  pair of RLECodec and what `resize` leaves in the vectorised codecs.

`CodecClientProofs`, for every set of the sound kinds and callers that clean up or do not:
`TypeCorrect`, `RoundTrip`, `StaleBlock`, `SizeReported`, `RefusalRepeated`, `Refinement`.
`DeliversTheBlock` is not inductive: it says nothing of what the buffers hold before a
decode. `IInv` says that a holding object's encoding *ends* with the symbols of the last
block, and has nothing in front of them if the object was clean or heals itself (`Holds`);
that a bare delta or FOR object has the symbols of the *first* block in front
(`FirstBlockStays`, from which `StaleBlockWins` follows by the prefix theorems);
that what an object that does not heal itself carries is more than `pfor` takes exactly when
one of the blocks since the last clean-up was refused (`RefusalStays`); and that the size cached by a cascade is that of its second buffer (`Measured`). `Refinement` has
`Reuse = FALSE` as its hypothesis, because only a caller that cleans up is promised a
one-block store.

`BufferCodecsProofs`, for every set of blocks of any length and width, and every `Growth`:
`TypeCorrect`, `NeverOverrun`, `ReuseIsSound`, `Faithful`, `ReadsAreCovered`,
`LeaksNothing`. The arithmetic comes first: `PackedFits` (the sum of simdcomp's blocks of
128 is no longer than what it computes for the whole at once), `VByteFits`, `ForFits`, and
`LibraryFits`, which goes through the kinds. `IInv` adds to the type that a held or
allocated object is about `given` (`Given`), that an allocated object is what `Resized`
makes of a fresh one up to its content (`Prepared`), that only SimdCompCodec has a width
(`WidthUnused`), and `UsedAsFresh` itself; the last makes an encoding after a throw, or
after another encoding, the same as a first one. `ReadsAreCovered` compares the registers a
decode reads with the bytes reported, kind by kind.

`BenchCompProofs`, for any pool, lossy and fragile schemes included: `TypeCorrect`,
`StandaloneResults`, `EntriesLineUp`, `RefusalIsForGood`. The invariant has four strands:
every object can be decoded or encoded into (`AllReady`); between the encoding and the
decoding of a window an object that heals itself or never failed holds what a fresh one
would (`HoldsTheWindow`), and one that never failed enters each window fresh (`CarriesNothing`);
a cascade that appends and was refused once keeps, in its logical codec's buffer, an array
that does not fit (`Stuck`); and inside a window the objects already done are one entry ahead of the others (`Ahead`),
which is what makes `StatsLineUp` true between windows. What decoding makes of an object
with a past comes from the theorems above.

`AccessPipelineProofs`, for any blocks, number of blocks and repetitions, combination,
order of access and content of the overflow slots: `TypeCorrect`, `CodecAsked`,
`TransformedOnce`, `SmallOrWideTrap`, `Summed`, `DictionariesCover`, `RepetitionsAgree`,
`OrderingsRearrange`.

* `IInv`: the cells at the head of the loop hold the prepared block before their turn and
  its transformation after it (`Cells`); the buffer handed to a transformation is the block
  visited, and in a fused codec its slot is congruent to the sum (`Handed`); the buffer has
  room for the slots (`Placed`), and no classification by index of a longer vector traps once one
  has gone through (`Roomy`).
* Traps: a program that trapped did so on a vector with fewer values than classes, or on
  values that span half the word (`TrappedFor`). A shift by a minimum of the raster, an
  ordering and the classifications themselves keep the values of a narrow raster narrow;
  smoothing and shifting by a constant need not, which is why the property names them.
* Sums: four lanes, a tail and the two slots are all compared *modulo* 2 * `Half`
  (`Multiples`), where wrapping changes nothing.
* Dictionaries: `KInv` adds that the scan has learnt the values of the blocks so far as
  prepared with the minimum so far, as it saw them (`Known`, `MinSeen`); when the minimum is
  settled these are the values the split encodes of each block that was not missed.
* Repetitions: `RInv` adds that the grid and the buffer are at each step those of `Trace`,
  the function the loop computes from what was split; as nothing in it mentions the
  repetition, all of them end alike.
* Orderings: the zigzag undoes itself. `CodesDiffer` shows two cells never share a Morton
  code: the least pair of cells that did would have halves that do. `SquareHolds` and
  `SquareMissed` show, by halving the side, that all codes lie inside the block when the
  side is a power of two, and that the code of the last corner lies beyond it when it is
  not; a rearrangement is then an injection of a finite set into itself (`Permuted`). `OInv`
  adds what can have ended the program.

`RasterBlocksProofs`, for every size of raster, block and sample and reads that fail
anywhere: `TypeCorrect`, `ShiftSound`, `SamplingSound`. The minimum is a lower bound of
every block the first pass read (`Scanning`), so of every sampled one (`HandingOn`). That
samples are spread evenly is arithmetic: with fewer samples than blocks the interval is at
least 1 and interval times samples at most the blocks, so no block is hit twice; with more,
going round the blocks hits each equally often but for one (`FS_Injection` from the hits of
one block into those of another).

`DriversProofs`, for any pools and command lines: `InOrder`, `NothingRunsUnparsed`,
`OnlyNamesAndTrapsEnd`, `PairsMeetOnce`, `CompositesApart`. The indices of the nested loops are
read as a number in mixed base (`RankIn`): `Advance` adds one to it, the last one is the
product of the lengths, and two places of equal rank are equal. The invariant is that the
rank of the current place is one more than what has run (`Looping`), and that each entry of
`ran` was run at the place of its number (`Recorded`); a program that was ended stopped at
such a place (`EndedThere`). `PairsMeetOnce` has a hypothesis,
`DistinctNames`: no two codecs of the registry have one name. The `name()`s of the
headers are different and so are the pools of the run; those of the FastPFor schemes are
decided in FastPFor, which is not in the repository. With two codecs of one name a
selection would hold both, and that pair would be measured twice.

`VectorClientProofs`, for every width of the registers and of `size_t`: `TypeCorrect`,
`OverrunOnlyShortSse`, `VectorRoundTrips`, `RleHeals`, `StoresAsScalar`, resting on
`VecDeltaRoundTrip`, `VecForRoundTrip`, `VecRlePairsAreRlePairs`. Every anchor lies before
its position, so that decoding has one solution; a difference read with an arithmetic shift
is recovered exactly when it is narrow, and one that is not changes the first position it
meets (hence *exactly when*). Registers and tail together are the block, so the minimum
over them is the minimum of the block. A run found register by register has the length
RLECodec finds. `IInv` says what the object holds for the blocks written (`Holds`): the
delta and FOR vectors the symbols of the last block alone, the RLE vector its pairs behind
those counts of earlier blocks that no later `resize` cut off. `SizeMinusExact` says when
the unsigned bound `length - 4` is the difference itself, which is what
`OverrunOnlyShortSse` turns on.

**Assumptions.** Those named in the modules, each checked by TLC on every run that extends
the module: sizes are natural numbers, `Half` is positive (that
it is a power of two is used nowhere), blocks are shorter than `Half` and, but for those of the
vectorised codecs, not empty (their length is an
`int`, a run length an `int32_t`), blocks of `bench_pipeline` are squares of their side, a
padded codec has slots (`PadSlots`), there are from two to `Half` classes, a lossy scheme
gives words for words and a fragile one writes words (`BrokenAssumption`), the codecs named in a pool are of known kinds, and the
options of `Drivers` have the types the command line parser gives them. Beside these only
the two hypotheses above: `Reuse = FALSE` of `Refinement`, `DistinctNames` of
`PairsMeetOnce`.

**Only model-checked.** `Terminates` of `BenchComp` and of `AccessPipeline`: liveness under
fairness is out of the prover's reach. And the three violations, which are counterexamples.
That a library keeps to its documented bounds, and that TLC's small registers behave as the
machine's, are not claims of the proofs: the first is an assumption of `BufferCodecs`'
actions, the second is covered by `Lanes` being a constant.

## 5. Not modelled

* Timing and statistics: `RunningStats` and the means and variances are floating point.
* Printing, and flags of the command line other than the lists of names.
* GDAL beyond a read that succeeds or fails; the compression libraries beyond what their
  formats fix of the sizes and what they report. FastPFor, TurboPFor, zlib, LZ4, zstd,
  lzma, MaskedVByte and StreamVByte are not in the repository.
* The random reads of `bench_pipeline` and `agg/` (RandomXOR, RandomSum): indices below
  the size of the block, and a result that nobody keeps. They are the "Scan" of
  `AccessPipeline`, as LinearXOR and the scalar LinearSum are.
* `agg/custom_vec_logic_codecs.h` but for `DictCodecAVX2::encodeArray`: its delta, FOR and
  run length classes are an older copy of those `VectorCodecs` is about, and nothing in
  the repository constructs its `DictCodecPackingAVX2`, nor builds `agg/`.
* `py/`, `sh/`, `hpc/`: scripts that print command lines and inspect images.

## 6. Plan

1. *Done*: words, scalar codecs, objects, client, contract, their proofs; `BenchComp`;
   `AccessPipeline` with transformations and remappings.
2. *Done*: sampling and the shift (`RasterBlocks`); the vectorised codecs (`VectorCodecs`,
   `VectorClient`) and a first theorem about them; registry, selection and the nested
   loops (`Drivers`).
3. *Done*: the wrappers of libraries (`BufferCodecs`) with their proofs; orderings, traps
   and the dictionaries of `agg/` in `AccessPipeline`.
4. *Done*: the inductive invariants and proofs of every safety property that a run checks.
   In the order it was done: run length codecs; reuse in `CodecClient`; `BufferCodecs`;
   `BenchComp`; `RasterBlocks`; `Drivers`; `AccessPipeline` (blocks, sums, dictionaries,
   repetitions, orderings); `VectorClient`.
5. Left: a refinement of `bench_pipeline`'s grid by the objects of `CodecObjects`, which
   would replace the contract that `AccessPipeline` takes from `CodecClient`; shorter
   proofs, by moving the arithmetic that several proof modules repeat into one of them.

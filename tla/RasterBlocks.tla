----------------------------- MODULE RasterBlocks -----------------------------
(***************************************************************************)
(* How bench_comp and bench_pipeline get their blocks: a first pass over   *)
(* the raster takes its minimum, a second one reads the sampled blocks and *)
(* shifts them by it.  bench_comp takes the minimum over every whole       *)
(* block, bench_pipeline over the sampled ones; bench_comp ignores a read  *)
(* that fails, bench_pipeline only in the first pass.                      *)
(*                                                                         *)
(* A block is the set of its values: the minimum and the shift do not      *)
(* depend on where a value is.  Blocks are numbered from 0, row by row.    *)
(***************************************************************************)
EXTENDS Words, SequencesExt

CONSTANT Cases  \* rasters, each with a program, its arguments and a bound on
                \* the number of reads that fail

ASSUME RasterAssumption ==
  \A c \in Cases :
    /\ c.input \in [program : {"comp", "pipeline"}, width : Nat \ {0}, height : Nat \ {0},
                   side : Nat, count : Nat, failures : Nat]
    /\ \A block \in DOMAIN c.raster : c.raster[block] \in (SUBSET Word) \ {{}}
    /\ c.input.side > 0 =>
         DOMAIN c.raster = 0 .. (c.input.width \div c.input.side)
                                  * (c.input.height \div c.input.side) - 1

-------------------------------------------------------------------------------
(***************************************************************************)
(* SampleBlockOffsets, for at least one block of at least one pixel.       *)
(***************************************************************************)
IntervalUnclamped(total, count) == total \div count

SampleInterval(total, count) == Max({1, total \div count})

\* The numbers of the blocks sampled, in order.
SampledBlocks(total, count) ==
  [j \in 1 .. count |-> ((j - 1) * SampleInterval(total, count)) % total]

BlockOffset(number, blocksInWidth, side) ==
  [x |-> (number % blocksInWidth) * side, y |-> (number \div blocksInWidth) * side]
-------------------------------------------------------------------------------
VARIABLES
  input,    \* the program, the size of the raster, the arguments, the bad reads
  raster,   \* the values of each whole block
  pc,       \* "minimum", "blocks", "done", "failed", "trapped"
  k,        \* blocks read in this pass
  minimum,  \* the smallest value met
  missed,   \* history: the blocks the first pass could not read
  blocks    \* history: the blocks handed on, their numbers and if they were read
vars == <<input, raster, pc, k, minimum, missed, blocks>>

BlocksInWidth  == input.width \div input.side
BlocksInHeight == input.height \div input.side
TotalBlocks    == BlocksInWidth * BlocksInHeight

Init ==
  /\ \E c \in Cases : input = c.input /\ raster = c.raster
  /\ pc = "minimum" /\ k = 0
  /\ minimum = Half - 1
  /\ missed = {} /\ blocks = <<>>

Sampled == SampledBlocks(TotalBlocks, input.count)

\* A plausible slip: the loops of bench_comp leave the last row out.
ScannedButLastRow ==
  IF input.program = "comp"
  THEN [j \in 1 .. BlocksInWidth * (BlocksInHeight - 1) |-> j - 1] ELSE Sampled

\* The blocks of the first pass, in order.
Scanned ==
  IF input.program = "comp" THEN [j \in 1 .. TotalBlocks |-> j - 1] ELSE Sampled

(***************************************************************************)
(* Integer divisions by zero: of a side by a block of side 0, of the       *)
(* number of blocks by --numblocks 0, and modulo a raster without a whole  *)
(* block.  The last two are in SampleBlockOffsets, which bench_comp calls  *)
(* in the second pass only, where no handler catches a trap.               *)
(***************************************************************************)
SamplingTraps == input.count = 0 \/ TotalBlocks = 0

Traps == IF input.side = 0 THEN TRUE
         ELSE (pc = "blocks" \/ input.program = "pipeline") /\ SamplingTraps

Trap == /\ pc \in {"minimum", "blocks"} /\ k = 0 /\ Traps
        /\ pc' = "trapped"
        /\ UNCHANGED <<input, raster, k, minimum, missed, blocks>>

ComputeMinForBlock(values) ==
  /\ pc = "minimum" /\ ~ Traps /\ k < Len(Scanned)
  /\ minimum' = Min({minimum} \cup values)
  /\ k' = k + 1
  /\ UNCHANGED <<input, raster, pc, blocks>>

ScanBlock == /\ ComputeMinForBlock(raster[Scanned[k + 1]])
             /\ UNCHANGED missed

Failures == Cardinality(missed) + Cardinality({j \in 1 .. Len(blocks) : ~ blocks[j].read})

\* The result of RasterIO is not looked at: the values are those the vector
\* was made with.
ScanFails == /\ Failures < input.failures
             /\ ComputeMinForBlock({0})
             /\ missed' = missed \cup {Scanned[k + 1]}

EndScan == /\ pc = "minimum" /\ ~ Traps /\ k = Len(Scanned)
           /\ pc' = "blocks" /\ k' = 0
           /\ UNCHANGED <<input, raster, minimum, missed, blocks>>

\* v += (-min), where min is negative; both wrap.
ShiftedNoWrap(values) ==
  IF minimum < 0 THEN {v - minimum : v \in values} ELSE values

Shifted(values) ==
  IF minimum < 0 THEN {Wrap(v + Wrap(-minimum)) : v \in values} ELSE values

HandOn(values, read) ==
  /\ pc = "blocks" /\ ~ Traps /\ k < Len(Sampled)
  /\ blocks' = Append(blocks, [number |-> Sampled[k + 1],
                                values |-> Shifted(values), read |-> read])
  /\ k' = k + 1
  /\ UNCHANGED <<input, raster, pc, minimum, missed>>

ReadBlock == HandOn(raster[Sampled[k + 1]], TRUE)

\* ReadGeoTiffBlock does not look at the result either.
ReadFailsUnnoticed == /\ input.program = "comp" /\ Failures < input.failures
                      /\ HandOn({0}, FALSE)

\* SplitIntoFullBlocks throws, and nothing catches it.
ReadFails ==
  /\ input.program = "pipeline" /\ Failures < input.failures
  /\ pc = "blocks" /\ ~ Traps /\ k < Len(Sampled)
  /\ pc' = "failed"
  /\ UNCHANGED <<input, raster, k, minimum, missed, blocks>>

EndBlocks == /\ pc = "blocks" /\ ~ Traps /\ k = Len(Sampled)
             /\ pc' = "done"
             /\ UNCHANGED <<input, raster, k, minimum, missed, blocks>>

Stopped == pc \in {"done", "failed", "trapped"} /\ UNCHANGED vars

Next == \/ Trap
        \/ ScanBlock \/ ScanFails \/ EndScan
        \/ ReadBlock \/ ReadFailsUnnoticed \/ ReadFails \/ EndBlocks
        \/ Stopped

Spec == Init /\ [][Next]_vars
-------------------------------------------------------------------------------
(***************************************************************************)
(* The minimum and what is handed on are words: the type invariant.        *)
(***************************************************************************)
TypeOK ==
  /\ pc \in {"minimum", "blocks", "done", "failed", "trapped"}
  /\ minimum \in Word
  /\ missed \subseteq DOMAIN raster
  /\ blocks \in Seq([number : DOMAIN raster, values : (SUBSET Word) \ {{}}, read : BOOLEAN])

(***************************************************************************)
(* Every offset SampleBlockOffsets returns is that of a block that lies    *)
(* wholly in the raster, so that ReadGeoTiffBlock never cuts one and       *)
(* bench_comp skips none; and no block is sampled twice before every block *)
(* was sampled once, however --numblocks and the raster relate.            *)
(***************************************************************************)
Visits(number) == Cardinality({j \in 1 .. Len(blocks) : blocks[j].number = number})

SamplesWholeBlocksEvenly ==
  pc = "done" =>
    /\ Len(blocks) = input.count
    /\ \A j \in 1 .. Len(blocks) :
         LET offset == BlockOffset(blocks[j].number, BlocksInWidth, input.side)
         IN  /\ offset.x + input.side <= input.width
             /\ offset.y + input.side <= input.height
    /\ \A a, b \in DOMAIN raster : Visits(a) <= Visits(b) + 1

(***************************************************************************)
(* The values handed on of a block that both passes could read are not     *)
(* negative whenever its largest value is less than 2^31 above the         *)
(* minimum: in both programs the minimum was taken over the block, and     *)
(* over no other raster.  Where it is further above, the sum wraps and the *)
(* value handed on IS negative.                                            *)
(***************************************************************************)
ShiftedWhenTheRangeFits ==
  \A j \in 1 .. Len(blocks) :
    blocks[j].read /\ blocks[j].number \notin missed =>
      ((\A v \in blocks[j].values : v >= 0)
        <=> (\A v \in raster[blocks[j].number] : minimum < 0 => v - minimum < Half))

(***************************************************************************)
(* bench_comp.cpp, where the minimum is computed: it is "used to shift all *)
(* values non-negative".                                                   *)
(***************************************************************************)
AllValuesNonNegative ==
  missed = {} =>
    \A j \in 1 .. Len(blocks) : blocks[j].read => \A v \in blocks[j].values : v >= 0
===============================================================================

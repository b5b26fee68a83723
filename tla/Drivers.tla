-------------------------------- MODULE Drivers --------------------------------
(***************************************************************************)
(* The main programs above one benchmark: which pool of codecs a name      *)
(* stands for, in which order the option strings are parsed, and which     *)
(* combinations of them are run before an error ends the program.          *)
(*                                                                         *)
(* A codec is the sequence of the names it is built from: one, or two for  *)
(* a cascade.  Parsing keeps a name it knows and throws on any other.      *)
(* What a configuration does is BenchComp's, RasterBlocks' and             *)
(* AccessPipeline's; here it runs, throws, or divides by zero, which no    *)
(* handler catches.  For that a command line has the kind of raster it is  *)
(* given, with the block size and the number of blocks:                    *)
(*   zero    the block size is 0                                           *)
(*   empty   no block is to be sampled, or the raster has no whole block   *)
(*   small   blocks with fewer values than there are classes               *)
(*   usual   any other                                                     *)
(***************************************************************************)
EXTENDS Integers, SequencesExt

CONSTANTS
  Logical, Physical,  \* the codecs of InitLogicalCodecs and InitPhysicalCodecs
  OptionSets,         \* the command lines
  MaxFailures         \* bound on the configurations of bench_comp that throw

RasterKinds == {"zero", "empty", "small", "usual"}

ASSUME DriversAssumption ==
  /\ Logical \in Seq(STRING) /\ Physical \in Seq(STRING)
  /\ \A o \in OptionSets :
       \/ /\ o.program = "comp" /\ o.raster \in RasterKinds
          /\ {o.composites, o.orderings, o.transformations} \subseteq Seq(STRING)
       \/ /\ o.program = "pipeline" /\ o.raster \in RasterKinds
          /\ {o.orderings, o.transformations, o.accesses, o.patterns} \subseteq Seq(STRING)
          /\ {o.initial, o.again} \subseteq Seq(Seq(STRING))

-------------------------------------------------------------------------------
\* ParseOrdering, ParseTransformation, ParseAccessTransformation and
\* ParseAccessPattern: each has names of its own, and three know "default".
DataChanges == {"Threshold", "SmoothAndShift", "IndexBasedClassification",
                "ValueBasedClassification", "ValueShift"}

KnownOrderings       == {"", "default", "zigzag", "morton"}
KnownTransformations == {"", "default", "none"} \cup DataChanges
KnownAccesses        == {"", "default", "linearXOR", "linearSum", "linearSumSimd",
                         "linearSumFused", "randomXOR", "randomSum"} \cup DataChanges
KnownPatterns        == {"", "default", "linear", "random"}

AllKnown(strings, known) == ToSet(strings) \subseteq known

-------------------------------------------------------------------------------
\* InitCodecs: the non-cascaded codecs, if asked for, then one cascade over
\* each physical codec, if there is a codec to cascade.
NonCascaded == [j \in 1 .. Len(Logical \o Physical) |-> <<(Logical \o Physical)[j]>>]

Cascades(codec) == [j \in 1 .. Len(Physical) |-> codec \o <<Physical[j]>>]

\* A plausible slip: InitCodecs is asked for the others as well.
BuildCodecsWithPool(name) ==
  IF \E j \in 1 .. Len(NonCascaded) : NonCascaded[j] = <<name>>
  THEN NonCascaded \o Cascades(<<name>>) ELSE NonCascaded

\* bench_comp: the cascades of the first codec of that name, else all others.
BuildCodecsForComposite(name) ==
  IF \E j \in 1 .. Len(NonCascaded) : NonCascaded[j] = <<name>>
  THEN Cascades(<<name>>) ELSE NonCascaded

\* bench_pipeline.
BuildAllCodecs ==
  NonCascaded \o Cascades(<<"delta">>) \o Cascades(<<"rle">>) \o Cascades(<<"for">>)
    \o <<<<"direct">>>>

\* A plausible slip: one codec for each name, even if the name is repeated.
SelectByEachName(pool, names) ==
  FlattenSeq([j \in 1 .. Len(names) |-> SelectSeq(pool, LAMBDA c : c = names[j])])

\* The loop over the pool; j codecs have been compared with the names.
Selected(pool, names) ==
  LET selected[j \in 0 .. Len(pool)] ==
        IF j = 0 THEN <<>>
        ELSE IF \E n \in 1 .. Len(names) : names[n] = pool[j]
        THEN Append(selected[j - 1], pool[j]) ELSE selected[j - 1]
  IN  selected[Len(pool)]

SelectCodecsByName(pool, names) ==
  IF names = <<<<"all">>>> \/ names = <<<<"*">>>> THEN pool ELSE Selected(pool, names)

-------------------------------------------------------------------------------
VARIABLES
  options,  \* the command line
  pc,       \* "start", "loop", or one of Ends
  lists,    \* what the nested loops range over, outermost first
  at,       \* the indices of the loops
  ran,      \* history: the indices, and the codecs, of what was run
  failures  \* configurations of bench_comp that threw
vars == <<options, pc, lists, at, ran, failures>>

\* The loops are over; an exception reached main; a division by zero trapped.
Ends == {"done", "terminated", "trapped"}

Init == /\ options \in OptionSets
        /\ pc = "start"
        /\ lists = <<>> /\ at = <<>> /\ ran = <<>>
        /\ failures = 0

IsComp == options.program = "comp"

\* Nested loops: the innermost index that has a successor takes it, and those
\* inside it start again.
Advance(digits) ==
  LET j == CHOOSE m \in DOMAIN digits :
             /\ digits[m] < Len(lists[m])
             /\ \A l \in DOMAIN digits : l > m => digits[l] = Len(lists[l])
  IN  [m \in DOMAIN digits |-> IF m < j THEN digits[m]
                               ELSE IF m = j THEN digits[m] + 1 ELSE 1]

AtLast == \A m \in DOMAIN at : at[m] = Len(lists[m])

GoOn == IF AtLast THEN pc' = "done" /\ UNCHANGED at
                  ELSE at' = Advance(at) /\ UNCHANGED pc

Begin(ranges) ==
  /\ lists' = ranges
  /\ at' = [m \in DOMAIN ranges |-> 1]
  /\ pc' = IF \E m \in DOMAIN ranges : ranges[m] = <<>> THEN "done" ELSE "loop"
  /\ UNCHANGED <<options, ran, failures>>

GiveUp(end) == /\ pc' = end
               /\ UNCHANGED <<options, lists, at, ran, failures>>

\* SampleBlockOffsets divides by the number of blocks; classifying by index
\* divides by the number of values in a class, classifying by value the least
\* word by -1 if the values of a block span half of the words.
TrapsForSure(transformation) ==
  \/ options.raster = "empty"
  \/ options.raster = "small" /\ transformation = "IndexBasedClassification"

MayTrap(transformation) ==
  TrapsForSure(transformation) \/ transformation = "ValueBasedClassification"

-------------------------------------------------------------------------------
(***************************************************************************)
(* bench_pipeline.  Blocks are sampled, for their minimum, before the      *)
(* combinations of ordering and the two transformations are parsed, and    *)
(* these before anything runs.  The access pattern is parsed where it is   *)
(* used.  Nothing catches an exception.                                    *)
(***************************************************************************)
Combinations ==
  <<options.orderings, options.transformations, options.accesses>>

Parsers == <<KnownOrderings, KnownTransformations, KnownAccesses>>

BeginPipeline ==
  Begin(Combinations \o <<SelectCodecsByName(BuildAllCodecs, options.initial),
                          SelectCodecsByName(BuildAllCodecs, options.again),
                          options.patterns>>)

\* A plausible slip: only the first list is parsed up front.
StartPipelineParsingLate ==
  /\ pc = "start" /\ ~ IsComp /\ options.raster \notin {"zero", "empty"}
  /\ IF AllKnown(Combinations[1], Parsers[1])
     THEN BeginPipeline ELSE GiveUp("terminated")

StartPipeline ==
  /\ pc = "start" /\ ~ IsComp /\ options.raster \notin {"zero", "empty"}
  /\ IF \A m \in 1 .. 3 : AllKnown(Combinations[m], Parsers[m])
     THEN BeginPipeline ELSE GiveUp("terminated")

StartPipelineTraps ==
  /\ pc = "start" /\ ~ IsComp /\ options.raster \in {"zero", "empty"}
  /\ GiveUp("trapped")

PatternKnown == options.patterns[at[6]] \in KnownPatterns

RunOneCombination ==
  /\ pc = "loop" /\ ~ IsComp /\ PatternKnown /\ ~ TrapsForSure(lists[2][at[2]])
  /\ ran' = Append(ran, [at |-> at, codecs |-> <<lists[4][at[4]], lists[5][at[5]]>>])
  /\ GoOn
  /\ UNCHANGED <<options, lists, failures>>

\* The pattern is not known, or a read, a remapping or an encoding throws.
CombinationThrows ==
  /\ pc = "loop" /\ ~ IsComp
  /\ ~ PatternKnown \/ failures < MaxFailures
  /\ GiveUp("terminated")

\* A block, or the buffer it was decoded into.
CombinationTraps ==
  /\ pc = "loop" /\ ~ IsComp /\ PatternKnown
  /\ MayTrap(lists[2][at[2]]) \/ MayTrap(lists[3][at[3]])
  /\ GiveUp("trapped")

-------------------------------------------------------------------------------
(***************************************************************************)
(* bench_comp.  The pool is built for a composite name, then orderings and *)
(* transformations are parsed as the loops reach them, outside the handler *)
(* that lets the program go on after a configuration that throws.          *)
(***************************************************************************)
StartComp ==
  /\ pc = "start" /\ IsComp /\ options.raster # "zero"
  /\ Begin(<<options.composites, options.orderings, options.transformations>>)

StartCompTraps ==
  /\ pc = "start" /\ IsComp /\ options.raster = "zero"
  /\ GiveUp("trapped")

ConfigKnown == /\ lists[2][at[2]] \in KnownOrderings
               /\ lists[3][at[3]] \in KnownTransformations

InConfig == pc = "loop" /\ IsComp /\ ConfigKnown

\* What is measured, or was begun: the configuration, with the pool it is given.
Record == ran' = Append(ran, [at |-> at,
                              codecs |-> BuildCodecsForComposite(lists[1][at[1]])])

RunBenchConfig ==
  /\ InConfig /\ ~ TrapsForSure(lists[3][at[3]])
  /\ Record /\ GoOn
  /\ UNCHANGED <<options, lists, failures>>

\* A plausible slip: nothing catches the exception.
ConfigThrowsUncaught ==
  /\ InConfig /\ ~ TrapsForSure(lists[3][at[3]]) /\ failures < MaxFailures
  /\ GiveUp("terminated")

\* A plausible slip: the handler is outside the loop over the transformations.
ConfigThrowsOutOfTheLoop ==
  /\ InConfig /\ ~ TrapsForSure(lists[3][at[3]]) /\ failures < MaxFailures
  /\ failures' = failures + 1
  /\ Record
  /\ LET last == [at EXCEPT ![3] = Len(lists[3])]
     IN  IF \A m \in DOMAIN at : last[m] = Len(lists[m])
         THEN pc' = "done" /\ UNCHANGED at
         ELSE at' = Advance(last) /\ UNCHANGED pc
  /\ UNCHANGED <<options, lists>>

\* The handler in main: what was begun counts as run, and the loops go on.
ConfigThrows ==
  /\ InConfig /\ ~ TrapsForSure(lists[3][at[3]]) /\ failures < MaxFailures
  /\ failures' = failures + 1
  /\ Record /\ GoOn
  /\ UNCHANGED <<options, lists>>

\* No handler catches a trap.
ConfigTraps ==
  /\ InConfig /\ MayTrap(lists[3][at[3]])
  /\ GiveUp("trapped")

ParseThrows ==
  /\ pc = "loop" /\ IsComp /\ ~ ConfigKnown
  /\ GiveUp("terminated")

Stopped == pc \in Ends /\ UNCHANGED vars

Next == \/ StartPipeline \/ StartPipelineTraps
        \/ RunOneCombination \/ CombinationThrows \/ CombinationTraps
        \/ StartComp \/ StartCompTraps
        \/ RunBenchConfig \/ ConfigThrows \/ ConfigTraps \/ ParseThrows
        \/ Stopped

Spec == Init /\ [][Next]_vars
-------------------------------------------------------------------------------
(***************************************************************************)
(* The n-th thing a program runs is the n-th of its nested loops, the last *)
(* list varying fastest, whatever failed before it; and a program that is  *)
(* done has run them all.                                                  *)
(***************************************************************************)
Combined ==
  LET product[m \in 0 .. Len(lists)] ==
        IF m = 0 THEN 1 ELSE product[m - 1] * Len(lists[m])
  IN  product[Len(lists)]

\* The indices as the digits of a number, each to the base of its list.
Rank(indices) ==
  LET before[m \in 0 .. Len(lists)] ==
        IF m = 0 THEN 0 ELSE before[m - 1] * Len(lists[m]) + indices[m] - 1
  IN  1 + before[Len(lists)]

RunsAllInOrder ==
  /\ \A n \in DOMAIN ran : Rank(ran[n].at) = n
  /\ pc = "done" => Len(ran) = Combined

(***************************************************************************)
(* bench_pipeline runs nothing if it is given an ordering or a             *)
(* transformation it does not know, whichever it is: no hours of           *)
(* measurements before the typing error.                                   *)
(***************************************************************************)
UnknownNamesRunNothing ==
  ~ IsComp /\ (\E m \in 1 .. 3 : ~ AllKnown(Combinations[m], Parsers[m])) => ran = <<>>

(***************************************************************************)
(* A pair of codecs meets each combination and pattern once, even if the   *)
(* command line names a codec twice.                                       *)
(***************************************************************************)
SamePlace(r, q) == \A m \in {1, 2, 3, 6} : r.at[m] = q.at[m]

NoPairTwice ==
  ~ IsComp => \A i, j \in DOMAIN ran :
    SamePlace(ran[i], ran[j]) /\ ran[i].codecs = ran[j].codecs => i = j

(***************************************************************************)
(* bench_comp gives up early only where it comes to a name it does not     *)
(* know or to a division by zero, and then it has run, whatever failed,    *)
(* all that its loops have before: no failure of a configuration keeps     *)
(* another one from being run.                                             *)
(***************************************************************************)
OnlyANameOrATrapEndsComp ==
  IsComp /\ pc \in {"terminated", "trapped"} =>
    \/ options.raster = "zero"
    \/ /\ ~ ConfigKnown \/ MayTrap(lists[3][at[3]])
       /\ Len(ran) = Rank(at) - 1

(***************************************************************************)
(* Under one ordering and transformation, two composite names of           *)
(* bench_comp have a codec in common, which is then measured twice, only   *)
(* if both are the name of no codec: "none" and whatever was mistyped.     *)
(* A name of a codec brings cascades, which no other name brings.          *)
(***************************************************************************)
IsCodecName(name) == <<name>> \in ToSet(NonCascaded)

CompositesShareNoCodec ==
  IsComp => \A i, j \in DOMAIN ran :
    LET name(r) == lists[1][r.at[1]]
    IN  /\ name(ran[i]) # name(ran[j])
        /\ ran[i].at[2] = ran[j].at[2] /\ ran[i].at[3] = ran[j].at[3]
        /\ ToSet(ran[i].codecs) \cap ToSet(ran[j].codecs) # {}
        => ~ IsCodecName(name(ran[i])) /\ ~ IsCodecName(name(ran[j]))
================================================================================

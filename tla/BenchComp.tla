------------------------------- MODULE BenchComp -------------------------------
(***************************************************************************)
(* bench_comp: one pool of codec objects is benchmarked on every sampled   *)
(* block (window) of every configuration (ordering x transformation).      *)
(* BenchmarkOneCodec encodes the window, decodes it, compares, and only    *)
(* on success replaces the object by a fresh clone; an object that failed  *)
(* goes into the next window as it is.  An RLECodec that is handed pairs   *)
(* it did not write may decode past the end of dataBack: the program dies  *)
(* of it ("crashed") or goes on to the comparison.                         *)
(***************************************************************************)
EXTENDS CodecObjects

CONSTANTS Pool,        \* the kinds of the objects, in the order of the pool
          Blocks,      \* the windows a raster may yield, transformations applied
          NumConfigs,  \* bound on orderings x transformations
          NumWindows   \* bound on sampled blocks per configuration

ASSUME PoolAssumption  == Pool \in Seq(AllKinds) /\ Pool # <<>>
ASSUME BlockAssumption == /\ Blocks \subseteq Seq(Word) \ {<<>>}
                          /\ \A b \in Blocks : Len(b) < Half
ASSUME SizesAssumption == NumConfigs \in Nat /\ NumWindows \in Nat

Codecs == 1 .. Len(Pool)

VARIABLES
  pool,     \* the objects
  config,   \* number of configurations begun
  windows,  \* number of sampled blocks read in this configuration
  window,   \* the block under test
  ci,       \* the codec under test
  phase,    \* "config", "windows", "encode", "decode", "done", "crashed"
  stats,    \* codecWindowStats, with the window each entry is about
  failed    \* history: how the first failure of each object came about
vars == <<pool, config, windows, window, ci, phase, stats, failed>>

Init == /\ pool = [c \in Codecs |-> Fresh]
        /\ config = 0 /\ windows = 0 /\ window = <<>> /\ ci = 1
        /\ phase = "config"
        /\ stats = [c \in Codecs |-> <<>>]
        /\ failed = [c \in Codecs |-> "never"]

StartConfig ==
  /\ phase = "config" /\ config < NumConfigs
  /\ config' = config + 1 /\ windows' = 0
  /\ stats' = [c \in Codecs |-> <<>>]
  /\ phase' = "windows"
  /\ UNCHANGED <<pool, window, ci, failed>>

\* Another configuration follows, or the program is over.
EndOfConfig == IF config < NumConfigs THEN "config" ELSE "done"

FinishConfig ==
  /\ phase = "windows" /\ windows = NumWindows
  /\ phase' = EndOfConfig
  /\ UNCHANGED <<pool, config, windows, window, ci, stats, failed>>

\* The remapping throws (Morton order of a block whose side is not a power of
\* two): the catch in main gives the configuration up.
AbortConfig ==
  /\ phase = "windows" /\ windows < NumWindows
  /\ phase' = EndOfConfig
  /\ UNCHANGED <<pool, config, windows, window, ci, stats, failed>>

ReadWindowTooMany(b) ==
  /\ phase = "windows" /\ windows <= NumWindows
  /\ windows' = windows + 1
  /\ window' = b /\ ci' = 1
  /\ phase' = "encode"
  /\ UNCHANGED <<pool, config, stats, failed>>

(***************************************************************************)
(* The sampled offsets are those of whole blocks (they come from the       *)
(* rounded down numbers of blocks in a row and a column), so the early     *)
(* continue for a block cut by the raster boundary is never taken.         *)
(***************************************************************************)
ReadWindow(b) ==
  /\ phase = "windows" /\ windows < NumWindows
  /\ windows' = windows + 1
  /\ window' = b /\ ci' = 1
  /\ phase' = "encode"
  /\ UNCHANGED <<pool, config, stats, failed>>
-------------------------------------------------------------------------------
(***************************************************************************)
(* BenchmarkOneCodec, with its four ways out.                              *)
(***************************************************************************)
Kind == Pool[ci]

\* After the last codec of the pool comes the next window.
NextCodec == /\ phase' = IF ci = Len(Pool) THEN "windows" ELSE "encode"
             /\ ci' = IF ci = Len(Pool) THEN 1 ELSE ci + 1

\* CodecStats: zeros on every error, the encoded size on success.
Zeroed == [ok |-> FALSE, size |-> 0]

Record(result) ==
  stats' = [stats EXCEPT ![ci] =
              Append(@, [window |-> window, result |-> result,
                         before |-> failed[ci]])]

FailAs(how) == failed' = [failed EXCEPT ![ci] = IF @ = "never" THEN how ELSE @]

EncodeThrowsSilently ==
  /\ phase = "encode" /\ Throws(Kind, pool[ci], window)
  /\ pool' = [pool EXCEPT ![ci] = EncodeArray(Kind, @, window)]
  /\ stats' = stats /\ FailAs("threw")
  /\ NextCodec
  /\ UNCHANGED <<config, windows, window>>

EncodeThrowsRetried ==
  /\ phase = "encode" /\ Throws(Kind, pool[ci], window)
  /\ pool' = [pool EXCEPT ![ci] = Fresh]
  /\ UNCHANGED <<config, windows, window, ci, phase, stats, failed>>

EncodeThrows ==
  /\ phase = "encode" /\ Throws(Kind, pool[ci], window)
  /\ pool' = [pool EXCEPT ![ci] = EncodeArray(Kind, @, window)]
  /\ Record(Zeroed) /\ FailAs("threw")
  /\ NextCodec
  /\ UNCHANGED <<config, windows, window>>

EncodeReturns ==
  /\ phase = "encode" /\ ~ Throws(Kind, pool[ci], window)
  /\ pool' = [pool EXCEPT ![ci] = EncodeArray(Kind, @, window)]
  /\ phase' = "decode"
  /\ UNCHANGED <<config, windows, window, ci, stats, failed>>

\* The comparison of dataBack, which starts as zeros, with the window b.
Restores(kind, o, b) ==
  LET out == Delivered(kind, o, Len(b))
  IN  b = [p \in 1 .. Len(b) |-> IF p <= Len(out) THEN out[p] ELSE 0]

DecodesBack == Restores(Kind, pool[ci], window)

DecodeReturns == phase = "decode" /\ ~ DecodeFails(Kind, pool[ci])

SucceedNoReset ==
  /\ DecodeReturns /\ DecodesBack
  /\ Record([ok |-> TRUE, size |-> EncodedNumValues(Kind, pool[ci])])
  /\ pool' = [pool EXCEPT ![ci] = AfterDecode(Kind, @)]
  /\ NextCodec
  /\ UNCHANGED <<config, windows, window, failed>>

Succeed ==
  /\ DecodeReturns /\ DecodesBack
  /\ Record([ok |-> TRUE, size |-> EncodedNumValues(Kind, pool[ci])])
  /\ pool' = [pool EXCEPT ![ci] = Fresh]
  /\ NextCodec
  /\ UNCHANGED <<config, windows, window, failed>>

Mismatch ==
  /\ DecodeReturns /\ ~ DecodesBack
  /\ Record(Zeroed) /\ FailAs("differed")
  /\ pool' = [pool EXCEPT ![ci] = AfterDecode(Kind, @)]
  /\ NextCodec
  /\ UNCHANGED <<config, windows, window>>

DecodeThrows ==
  /\ phase = "decode" /\ DecodeFails(Kind, pool[ci])
  /\ Record(Zeroed) /\ FailAs("threw")
  /\ \E o \in AfterFailedDecode(Kind, pool[ci]) : pool' = [pool EXCEPT ![ci] = o]
  /\ NextCodec
  /\ UNCHANGED <<config, windows, window>>

\* dataBack has room for the window and the overflow slots of the first codec;
\* RLECodec asks for none, and writes as many values as its pairs count.
Overrun ==
  /\ DecodeReturns
  /\ Len(Delivered(Kind, pool[ci], Len(window))) > Len(window)
  /\ phase' = "crashed"
  /\ UNCHANGED <<pool, config, windows, window, ci, stats, failed>>

Done == phase \in {"done", "crashed"} /\ UNCHANGED vars

Step == \/ StartConfig \/ FinishConfig \/ AbortConfig
        \/ \E b \in Blocks : ReadWindow(b)
        \/ EncodeThrows \/ EncodeReturns
        \/ Succeed \/ Mismatch \/ DecodeThrows \/ Overrun

Next == Step \/ Done

(***************************************************************************)
(* The program is one thread that always goes on to its next statement.    *)
(***************************************************************************)
Spec == Init /\ [][Next]_vars /\ WF_vars(Step)
-------------------------------------------------------------------------------
Results == [ok : BOOLEAN, size : Nat]

\* The type invariant.
TypeOK ==
  /\ pool \in [Codecs -> [first : Seq(Word), second : Seq(Word), inter : Nat]]
  /\ config \in 0 .. NumConfigs /\ windows \in 0 .. NumWindows
  /\ window \in Blocks \cup {<<>>}
  /\ ci \in Codecs
  /\ phase \in {"config", "windows", "encode", "decode", "done", "crashed"}
  /\ stats \in [Codecs -> Seq([window : Blocks, result : Results,
                               before : {"never", "threw", "differed"}])]
  /\ failed \in [Codecs -> {"never", "threw", "differed"}]

(***************************************************************************)
(* What BenchmarkOneCodec reports of a window when the object is fresh.    *)
(***************************************************************************)
Alone(kind, b) ==
  LET o == EncodeArray(kind, Fresh, b)
  IN  IF /\ ~ Throws(kind, Fresh, b) /\ ~ DecodeFails(kind, o)
         /\ Restores(kind, o, b)
      THEN [ok |-> TRUE, size |-> EncodedNumValues(kind, o)]
      ELSE Zeroed

(***************************************************************************)
(* A result depends on the window and the kind of codec alone: not on the  *)
(* windows and configurations before it, nor on how the other objects of   *)
(* the pool fared, for every object that heals itself or has not failed.   *)
(* A cascade of an RLECodec heals itself only over a scheme that gives     *)
(* back what it took: a failed decoding leaves words in front of its pairs *)
(* that no later encoding removes.                                         *)
(***************************************************************************)
ResultsAreStandalone ==
  \A c \in Codecs : \A i \in DOMAIN stats[c] :
    LET entry == stats[c][i]
    IN  SelfHealing(Pool[c]) \/ entry.before = "never" =>
          entry.result = Alone(Pool[c], entry.window)

(***************************************************************************)
(* Between two windows the entries of all the objects line up: the same    *)
(* number, and about the same windows, whatever failed in between, since   *)
(* the means of a configuration are taken over them.                       *)
(***************************************************************************)
Windows(c) == [i \in DOMAIN stats[c] |-> stats[c][i].window]

StatsLineUp ==
  phase \in {"config", "windows", "done"} =>
    \A c, d \in Codecs : Windows(c) = Windows(d)

(***************************************************************************)
(* A cascade over DeltaCodec or FORCodec whose physical codec has refused  *)
(* one window reports zeros for every window after it, however small its   *)
(* values and whichever the configuration: the reset is skipped, and the   *)
(* array that was refused is encoded again in front of each window.        *)
(***************************************************************************)
RefusedForGood ==
  \A c \in Codecs : \A i \in DOMAIN stats[c] :
    /\ Cascade(Pool[c]) /\ ~ SelfHealing(Pool[c]) /\ Pool[c][2] = "pfor"
    /\ stats[c][i].before # "never"
    => stats[c][i].result = Zeroed

(***************************************************************************)
(* Every configuration ends, and so does the program: no failure, partial  *)
(* block or aborted configuration keeps a loop from advancing.             *)
(***************************************************************************)
Terminates == <>(phase \in {"done", "crashed"})

(***************************************************************************)
(* bench_utils.h, on BenchmarkOneCodec: "Returns zeroed stats on error     *)
(* (details printed to cerr/cout). Resets codec via CloneFresh."  If it    *)
(* did, every result would be the one of a fresh object.                   *)
(***************************************************************************)
EveryResultIsStandalone ==
  \A c \in Codecs : \A i \in DOMAIN stats[c] :
    stats[c][i].result = Alone(Pool[c], stats[c][i].window)
=============================================================================

---------------------------- MODULE BenchCompProofs ----------------------------
(***************************************************************************)
(* bench_comp with a pool of any length and of any kinds of objects, lossy *)
(* and fragile schemes included, for every word width and every number of  *)
(* windows and configurations.                                             *)
(***************************************************************************)
EXTENDS BenchComp, LogicalCodecsProofs

\* The assumptions on the constants, in the form the proofs use.
LEMMA PoolFacts ==
  /\ Len(Pool) \in Nat \ {0} /\ 1 \in Codecs
  /\ \A c \in Codecs : c \in Nat /\ Pool[c] \in AllKinds
  /\ \A b \in Blocks : IsBlock(b)
<1>1. Len(Pool) \in Nat \ {0} /\ \A c \in Codecs : Pool[c] \in AllKinds
  BY PoolAssumption, EmptySeq, LenProperties, ElementOfSeq DEF Codecs
<1>2. \A b \in Blocks : IsBlock(b)
  BY BlockAssumption DEF IsBlock
<1> QED
  BY <1>1, <1>2 DEF Codecs

(***************************************************************************)
(* The inductive invariant.  Each object is one its codec can be asked to  *)
(* decode or to encode into; between the encoding and the decoding of a    *)
(* window it holds what a fresh object would; and while the pool is gone   *)
(* through, the objects done are one entry ahead.                          *)
(***************************************************************************)
AllReady == \A c \in Codecs : Ready(Pool[c], pool[c])

UnderTest == phase \in {"encode", "decode"} => window \in Blocks

\* The objects of which ResultsAreStandalone speaks.
Sound(c) == SelfHealing(Pool[c]) \/ failed[c] = "never"

\* An object that has not failed enters each window fresh.
CarriesNothing ==
  \A c \in Codecs :
    failed[c] = "never" /\ (c # ci \/ phase \notin {"decode", "crashed"}) =>
      pool[c] = Fresh

HoldsTheWindow ==
  phase = "decode" /\ Sound(ci) =>
    /\ ~ Throws(Kind, Fresh, window)
    /\ Encoded(Kind, pool[ci]) = Encoded(Kind, EncodeArray(Kind, Fresh, window))

Ahead ==
  phase \in {"encode", "decode"} =>
    \A c, d \in Codecs :
      /\ (c < ci <=> d < ci) => Windows(c) = Windows(d)
      /\ c < ci /\ ~ (d < ci) => Windows(c) = Append(Windows(d), window)

\* The objects of which RefusedForGood speaks: once they have failed, their
\* buffer never fits again, and they are never decoded again.
Refusing(c) == /\ Cascade(Pool[c]) /\ ~ SelfHealing(Pool[c])
               /\ Pool[c][2] = "pfor"

Stuck ==
  \A c \in Codecs : Refusing(c) /\ failed[c] # "never" =>
    ~ Fits(pool[c].first) /\ ~ (c = ci /\ phase = "decode")

IInv == /\ TypeOK /\ AllReady /\ UnderTest /\ CarriesNothing /\ HoldsTheWindow
        /\ Ahead /\ StatsLineUp /\ ResultsAreStandalone
        /\ Stuck /\ RefusedForGood

\* Before the first configuration every object is fresh.
LEMMA InitIInv == Init => IInv
<1> SUFFICES ASSUME Init PROVE IInv
  OBVIOUS
<1>1. \A c : Ready(Pool[c], Fresh)
  BY CleanReady
<1>2. AllReady
  BY <1>1 DEF Init, AllReady
<1>3. Fresh \in Object
  BY CleanReady DEF Ready
<1>4. TypeOK
  BY <1>3, PoolFacts, SizesAssumption DEF Init, TypeOK, Object
<1>5. \A c, d \in Codecs : Windows(c) = Windows(d)
  BY DEF Init, Windows
<1> QED
  BY <1>2, <1>4, <1>5 DEF Init, IInv, UnderTest, CarriesNothing, HoldsTheWindow,
                          Ahead, StatsLineUp, ResultsAreStandalone,
                          Stuck, RefusedForGood

(***************************************************************************)
(* One object makes an encoding or a decoding and nothing else happens to  *)
(* the pool.                                                               *)
(***************************************************************************)
LEMMA OneObject ==
  ASSUME IInv, NEW o, Ready(Kind, o), pool' = [pool EXCEPT ![ci] = o]
  PROVE  /\ AllReady'
         /\ pool' \in [Codecs -> [first : Seq(Word), second : Seq(Word), inter : Nat]]
         /\ pool'[ci] = o
         /\ \A c \in Codecs \ {ci} : pool'[c] = pool[c]
<1>1. ci \in Codecs /\ pool \in [Codecs -> Object]
  BY DEF IInv, TypeOK, Object
<1>2. pool'[ci] = o /\ \A c \in Codecs \ {ci} : pool'[c] = pool[c]
  BY <1>1
<1>3. o \in Object
  BY DEF Ready
<1>4. AllReady'
  BY <1>2 DEF IInv, AllReady, Kind
<1> QED
  BY <1>1, <1>2, <1>3, <1>4 DEF Object

\* Record appends to the entries of the object under test alone.
LEMMA RecordForm ==
  ASSUME IInv, NEW r, Record(r)
  PROVE  /\ stats'[ci] = Append(stats[ci], [window |-> window, result |-> r,
                                           before |-> failed[ci]])
         /\ \A c \in Codecs \ {ci} : stats'[c] = stats[c]
         /\ \A c \in Codecs : stats[c] \in Seq([window : Blocks, result : Results,
                                                before : {"never", "threw", "differed"}])
  BY DEF IInv, TypeOK, Record

\* An entry of the new statistics is an old one, or the one just recorded.
LEMMA EntryCases ==
  ASSUME IInv, NEW r \in Results, Record(r), window \in Blocks
  PROVE  /\ stats' \in [Codecs -> Seq([window : Blocks, result : Results,
                                       before : {"never", "threw", "differed"}])]
         /\ \A c \in Codecs : \A i \in DOMAIN stats'[c] :
              \/ i \in DOMAIN stats[c] /\ stats'[c][i] = stats[c][i]
              \/ /\ c = ci /\ stats'[c][i].window = window
                 /\ stats'[c][i].result = r /\ stats'[c][i].before = failed[ci]
<1> DEFINE entry == [window |-> window, result |-> r, before |-> failed[ci]]
           Entries == [window : Blocks, result : Results,
                       before : {"never", "threw", "differed"}]
<1>1. /\ ci \in Codecs /\ failed[ci] \in {"never", "threw", "differed"}
      /\ stats \in [Codecs -> Seq(Entries)]
  BY DEF IInv, TypeOK
<1>2. entry \in Entries
  BY <1>1
<1>3. /\ stats'[ci] = Append(stats[ci], entry)
      /\ \A c \in Codecs \ {ci} : stats'[c] = stats[c]
      /\ stats' = [stats EXCEPT ![ci] = Append(@, entry)]
  BY RecordForm DEF Record
<1>4. /\ entry.window = window /\ entry.result = r /\ entry.before = failed[ci]
  OBVIOUS
<1> HIDE DEF entry, Entries
<1>5. stats' \in [Codecs -> Seq(Entries)]
  BY <1>1, <1>2, <1>3
<1>6. ASSUME NEW c \in Codecs, NEW i \in DOMAIN stats'[c]
      PROVE  \/ i \in DOMAIN stats[c] /\ stats'[c][i] = stats[c][i]
             \/ c = ci /\ stats'[c][i] = entry
  <2>1. CASE c # ci
    BY <1>3, <1>6, <2>1
  <2>2. CASE c = ci
    <3>1. stats[ci] \in Seq(Entries)
      BY <1>1
    <3>2. /\ DOMAIN stats'[ci] = 1 .. Len(stats[ci]) + 1
          /\ DOMAIN stats[ci] = 1 .. Len(stats[ci]) /\ Len(stats[ci]) \in Nat
          /\ \A j \in 1 .. Len(stats[ci]) : stats'[ci][j] = stats[ci][j]
          /\ stats'[ci][Len(stats[ci]) + 1] = entry
      BY <1>2, <1>3, <3>1
    <3> QED
      BY <1>6, <2>2, <3>2
  <2> QED
    BY <2>1, <2>2
<1>7. \A c \in Codecs : \A i \in DOMAIN stats'[c] :
        \/ i \in DOMAIN stats[c] /\ stats'[c][i] = stats[c][i]
        \/ /\ c = ci /\ stats'[c][i].window = window
           /\ stats'[c][i].result = r /\ stats'[c][i].before = failed[ci]
  BY <1>4, <1>6
<1> QED
  BY <1>5, <1>7 DEF Entries

(***************************************************************************)
(* An entry that is what a fresh object would have given keeps the results *)
(* standalone; one of zeros for an object that refuses keeps it refused.   *)
(***************************************************************************)
LEMMA RecordsAlone ==
  ASSUME IInv, NEW r \in Results, Record(r), window \in Blocks,
         Sound(ci) => r = Alone(Kind, window),
         Refusing(ci) /\ failed[ci] # "never" => r = Zeroed
  PROVE  ResultsAreStandalone' /\ RefusedForGood'
<1>1. ASSUME NEW c \in Codecs, NEW i \in DOMAIN stats'[c],
             SelfHealing(Pool[c]) \/ stats'[c][i].before = "never"
      PROVE  stats'[c][i].result = Alone(Pool[c], stats'[c][i].window)
  <2>1. CASE i \in DOMAIN stats[c] /\ stats'[c][i] = stats[c][i]
    BY <1>1, <2>1 DEF IInv, ResultsAreStandalone
  <2>2. CASE /\ c = ci /\ stats'[c][i].window = window
             /\ stats'[c][i].result = r /\ stats'[c][i].before = failed[ci]
    BY <1>1, <2>2 DEF Sound, Kind
  <2> QED
    BY <1>1, <2>1, <2>2, EntryCases
<1>2. ASSUME NEW c \in Codecs, NEW i \in DOMAIN stats'[c],
             Refusing(c), stats'[c][i].before # "never"
      PROVE  stats'[c][i].result = Zeroed
  <2>1. CASE i \in DOMAIN stats[c] /\ stats'[c][i] = stats[c][i]
    BY <1>2, <2>1 DEF IInv, RefusedForGood, Refusing
  <2>2. CASE /\ c = ci /\ stats'[c][i].window = window
             /\ stats'[c][i].result = r /\ stats'[c][i].before = failed[ci]
    BY <1>2, <2>2
  <2> QED
    BY <1>2, <2>1, <2>2, EntryCases
<1> QED
  BY <1>1, <1>2 DEF ResultsAreStandalone, RefusedForGood, Refusing

(***************************************************************************)
(* Going on to the next codec with one entry more keeps the entries in     *)
(* step: after the last codec they all line up again.                      *)
(***************************************************************************)
LEMMA RecordsLineUp ==
  ASSUME IInv, NEW r \in Results, Record(r), NextCodec, window \in Blocks,
         phase \in {"encode", "decode"}, window' = window
  PROVE  Ahead' /\ StatsLineUp'
<1>1. ci \in Codecs /\ Len(Pool) \in Nat /\ ci \in 1 .. Len(Pool)
  BY PoolFacts DEF IInv, TypeOK, Codecs
<1>2. \A c \in Codecs : Windows(c)' = IF c = ci THEN Append(Windows(c), window)
                                                ELSE Windows(c)
  <2> SUFFICES ASSUME NEW c \in Codecs
               PROVE  Windows(c)' = IF c = ci THEN Append(Windows(c), window)
                                               ELSE Windows(c)
    OBVIOUS
  <2>1. CASE c # ci
    BY <2>1, RecordForm DEF Windows
  <2>2. CASE c = ci
    <3> DEFINE n == Len(stats[ci])
    <3>1. n \in Nat /\ DOMAIN stats[ci] = 1 .. n
      BY <1>1, RecordForm, LenProperties
    <3>2. /\ DOMAIN stats'[ci] = 1 .. n + 1
          /\ \A j \in 1 .. n : stats'[ci][j] = stats[ci][j]
          /\ stats'[ci][n + 1].window = window
      <4> DEFINE entry == [window |-> window, result |-> r, before |-> failed[ci]]
                 Entries == [window : Blocks, result : Results,
                             before : {"never", "threw", "differed"}]
      <4>1. entry \in Entries /\ entry.window = window
        BY DEF IInv, TypeOK
      <4>2. stats'[ci] = Append(stats[ci], entry) /\ stats[ci] \in Seq(Entries)
        BY <1>1, RecordForm
      <4> HIDE DEF entry, Entries
      <4> QED
        BY <4>1, <4>2
    <3> HIDE DEF n
    <3>3. Windows(ci) = [i \in 1 .. n |-> stats[ci][i].window]
      BY <3>1 DEF Windows
    <3>4. Len(Windows(ci)) = n
      BY <3>1, <3>3
    <3>5. Append(Windows(ci), window)
            = [i \in 1 .. n + 1 |-> IF i = n + 1 THEN window ELSE Windows(ci)[i]]
      BY <3>1, <3>3, <3>4
    <3>6. \A i \in 1 .. n + 1 : i # n + 1 => i \in 1 .. n
      BY <3>1
    <3>7. Windows(c)' = [i \in 1 .. n + 1 |-> stats'[ci][i].window]
      BY <2>2, <3>2 DEF Windows
    <3>8. \A i \in 1 .. n + 1 : stats'[ci][i].window
                                  = IF i = n + 1 THEN window ELSE Windows(ci)[i]
      BY <3>1, <3>2, <3>3, <3>6
    <3>9. Windows(c)' = Append(Windows(ci), window)
      BY <3>5, <3>7, <3>8, Zenon
    <3> QED
      BY <2>2, <3>9
  <2> QED
    BY <2>1, <2>2
<1>3. \A c, d \in Codecs :
        /\ (c < ci <=> d < ci) => Windows(c) = Windows(d)
        /\ c < ci /\ ~ (d < ci) => Windows(c) = Append(Windows(d), window)
  BY DEF IInv, Ahead
<1>4. CASE ci = Len(Pool)
  <2>1. phase' = "windows"
    BY <1>4 DEF NextCodec
  <2>2. \A c \in Codecs : c # ci => c < ci
    BY <1>1, <1>4 DEF Codecs
  <2>3. \A c \in Codecs : Windows(c)' = Append(Windows(ci), window)
    BY <1>1, <1>2, <1>3, <2>2
  <2> QED
    BY <2>1, <2>3 DEF Ahead, StatsLineUp
<1>5. CASE ci # Len(Pool)
  <2>1. phase' = "encode" /\ ci' = ci + 1
    BY <1>5 DEF NextCodec
  <2>2. \A c \in Codecs : c \in Nat /\ (c < ci' <=> c < ci \/ c = ci)
    BY <1>1, <2>1 DEF Codecs
  <2>3. ASSUME NEW c \in Codecs, NEW d \in Codecs
        PROVE  /\ (c < ci' <=> d < ci') => Windows(c)' = Windows(d)'
               /\ c < ci' /\ ~ (d < ci') => Windows(c)' = Append(Windows(d)', window)
    <3>1. /\ c < ci => Windows(c)' = Windows(c) /\ Windows(c) = Append(Windows(ci), window)
          /\ c = ci => Windows(c)' = Append(Windows(ci), window)
          /\ ~ (c < ci') => Windows(c)' = Windows(c) /\ Windows(c) = Windows(ci)
      BY <1>1, <1>2, <1>3, <2>2
    <3>2. /\ d < ci => Windows(d)' = Windows(d) /\ Windows(d) = Append(Windows(ci), window)
          /\ d = ci => Windows(d)' = Append(Windows(ci), window)
          /\ ~ (d < ci') => Windows(d)' = Windows(d) /\ Windows(d) = Windows(ci)
      BY <1>1, <1>2, <1>3, <2>2
    <3> QED
      BY <2>2, <3>1, <3>2
  <2>4. Ahead'
    BY <2>3 DEF Ahead
  <2> QED
    BY <2>1, <2>4 DEF StatsLineUp
<1> QED
  BY <1>4, <1>5

\* The next codec is one of the pool.
LEMMA NextCodecType ==
  ASSUME ci \in Codecs, NextCodec
  PROVE  ci' \in Codecs /\ phase' \in {"windows", "encode"}
  BY PoolFacts DEF NextCodec, Codecs

(***************************************************************************)
(* The four ways on from BenchmarkOneCodec have this in common: one entry,  *)
(* one object touched, which is fresh unless the failure is on record, and *)
(* the next codec.                                                         *)
(***************************************************************************)
LEMMA OneCodecDone ==
  ASSUME IInv, phase \in {"encode", "decode"},
         NEW r \in Results, Record(r), NextCodec,
         NEW o, Ready(Kind, o), pool' = [pool EXCEPT ![ci] = o],
         UNCHANGED <<config, windows, window>>,
         \/ UNCHANGED failed /\ o = Fresh
         \/ FailAs("threw") \/ FailAs("differed"),
         Sound(ci) => r = Alone(Kind, window),
         Refusing(ci) => /\ failed[ci] # "never" => r = Zeroed
                         /\ failed'[ci] # "never" => ~ Fits(o.first)
  PROVE  IInv'
<1>1. /\ ci \in Codecs /\ window \in Blocks
      /\ failed \in [Codecs -> {"never", "threw", "differed"}]
  BY DEF IInv, TypeOK, UnderTest
<1>2. ci' \in Codecs /\ phase' \in {"windows", "encode"}
  BY <1>1, NextCodecType
<1>3. /\ ResultsAreStandalone' /\ RefusedForGood'
      /\ stats' \in [Codecs -> Seq([window : Blocks, result : Results,
                                    before : {"never", "threw", "differed"}])]
  BY <1>1, RecordsAlone, EntryCases
<1>4. /\ AllReady' /\ pool'[ci] = o /\ \A c \in Codecs \ {ci} : pool'[c] = pool[c]
      /\ pool' \in [Codecs -> [first : Seq(Word), second : Seq(Word), inter : Nat]]
  BY OneObject
<1>5. /\ failed' \in [Codecs -> {"never", "threw", "differed"}]
      /\ \A c \in Codecs \ {ci} : failed'[c] = failed[c]
      /\ o = Fresh \/ failed'[ci] # "never"
  BY <1>1 DEF FailAs
<1>6. TypeOK'
  BY <1>1, <1>2, <1>3, <1>4, <1>5 DEF IInv, TypeOK
<1>7. Ahead' /\ StatsLineUp'
  BY <1>1, RecordsLineUp
<1>8. CarriesNothing'
  <2> SUFFICES ASSUME NEW c \in Codecs, failed'[c] = "never" PROVE pool'[c] = Fresh
    BY DEF CarriesNothing
  <2> QED
    BY <1>4, <1>5 DEF IInv, CarriesNothing
<1>9. UnderTest' /\ HoldsTheWindow'
  BY <1>1, <1>2 DEF UnderTest, HoldsTheWindow
<1>10. Stuck'
  <2> SUFFICES ASSUME NEW c \in Codecs, Refusing(c), failed'[c] # "never"
               PROVE  ~ Fits(pool'[c].first)
    BY <1>2 DEF Stuck, Refusing
  <2> QED
    BY <1>4, <1>5 DEF IInv, Stuck
<1> QED
  BY <1>3, <1>4, <1>6, <1>7, <1>8, <1>9, <1>10 DEF IInv

\* What a fresh object would do with the window, as far as it is known before
\* the window is encoded.
LEMMA BeforeEncoding ==
  ASSUME IInv, phase = "encode"
  PROVE  /\ Kind \in AllKinds /\ IsBlock(window) /\ Ready(Kind, pool[ci])
         /\ Sound(ci) =>
              /\ Throws(Kind, pool[ci], window) <=> Throws(Kind, Fresh, window)
              /\ ~ Throws(Kind, pool[ci], window) =>
                   Encoded(Kind, EncodeArray(Kind, pool[ci], window))
                     = Encoded(Kind, EncodeArray(Kind, Fresh, window))
<1>1. ci \in Codecs /\ window \in Blocks
  BY DEF IInv, TypeOK, UnderTest
<1>2. Kind \in AllKinds /\ IsBlock(window) /\ Ready(Kind, pool[ci])
  BY <1>1, PoolFacts DEF IInv, AllReady, Kind
<1>3. failed[ci] = "never" => pool[ci].first = <<>>
  BY <1>1 DEF IInv, CarriesNothing, Fresh
<1> QED
  BY <1>2, <1>3, EncodesAsFresh DEF Sound, Kind

\* An object that has been refused a window refuses this one, too.
LEMMA RefusesAgain ==
  ASSUME IInv, phase = "encode", Refusing(ci)
  PROVE  /\ Throws(Kind, pool[ci], window) =>
              ~ Fits(EncodeArray(Kind, pool[ci], window).first)
         /\ failed[ci] # "never" => Throws(Kind, pool[ci], window)
<1>1. /\ ci \in Codecs /\ Kind \in AllKinds /\ IsBlock(window)
      /\ Ready(Kind, pool[ci]) /\ Kind[2] = "pfor" /\ Cascade(Kind)
      /\ Kind[1] \in {"delta", "for"}
  <2>1. ci \in Codecs /\ Kind \in AllKinds /\ IsBlock(window) /\ Ready(Kind, pool[ci])
    BY BeforeEncoding DEF IInv, TypeOK
  <2>2. Kind[2] = "pfor" /\ Cascade(Kind) /\ ~ SelfHealing(Kind)
    BY DEF Refusing, Kind
  <2> QED
    BY <2>1, <2>2, KindFacts DEF SelfHealing
<1> DEFINE mid == Intermediate(Kind, pool[ci], window)
<1>2. mid = pool[ci].first \o Symbols(Kind[1], window)
  BY <1>1, IntermediateValue
<1>3. Throws(Kind, pool[ci], window) <=> ~ Fits(mid)
  BY <1>1 DEF Throws, Representable
<1>4. Throws(Kind, pool[ci], window) =>
        EncodeArray(Kind, pool[ci], window).first = mid
  BY <1>1 DEF EncodeArray
<1>5. failed[ci] # "never" => ~ Fits(pool[ci].first)
  BY <1>1 DEF IInv, Stuck
<1>6. pool[ci].first \in Seq(Word) /\ Symbols(Kind[1], window) \in Seq(Word)
  BY <1>1, SymbolsType DEF Ready, Object
<1> HIDE DEF mid
<1>7. Fits(mid) => Fits(pool[ci].first)
  BY <1>2, <1>6, FitsConcat
<1> QED
  BY <1>3, <1>4, <1>5, <1>7

\* A window that cannot be encoded: the object keeps what the encoding left.
LEMMA EncodeThrowsStep ==
  ASSUME IInv, EncodeThrows
  PROVE  IInv'
<1> DEFINE o == EncodeArray(Kind, pool[ci], window)
<1>1. Kind \in AllKinds /\ IsBlock(window) /\ Ready(Kind, pool[ci])
  BY BeforeEncoding DEF EncodeThrows
<1>2. Ready(Kind, o)
  BY <1>1, EncodeReady
<1>3. Zeroed \in Results
  BY DEF Zeroed, Results
<1>4. Sound(ci) => Zeroed = Alone(Kind, window)
  BY BeforeEncoding DEF EncodeThrows, Alone
<1>5. pool' = [pool EXCEPT ![ci] = o]
  BY DEF EncodeThrows
<1>6. Refusing(ci) => ~ Fits(o.first)
  BY RefusesAgain DEF EncodeThrows
<1> HIDE DEF o
<1> QED
  BY <1>2, <1>3, <1>4, <1>5, <1>6, OneCodecDone DEF EncodeThrows

\* A window that is encoded: a sound object holds what a fresh one would.
LEMMA EncodeReturnsStep ==
  ASSUME IInv, EncodeReturns
  PROVE  IInv'
<1> DEFINE o == EncodeArray(Kind, pool[ci], window)
<1>1. Kind \in AllKinds /\ IsBlock(window) /\ Ready(Kind, pool[ci])
  BY BeforeEncoding DEF EncodeReturns
<1>2. Ready(Kind, o)
  BY <1>1, EncodeReady
<1>3. pool' = [pool EXCEPT ![ci] = o]
  BY DEF EncodeReturns
<1>4. /\ Sound(ci) => ~ Throws(Kind, Fresh, window)
      /\ Sound(ci) => Encoded(Kind, o) = Encoded(Kind, EncodeArray(Kind, Fresh, window))
  BY BeforeEncoding DEF EncodeReturns
<1> HIDE DEF o
<1>5. /\ AllReady' /\ pool'[ci] = o /\ \A c \in Codecs \ {ci} : pool'[c] = pool[c]
      /\ pool' \in [Codecs -> [first : Seq(Word), second : Seq(Word), inter : Nat]]
  BY <1>2, <1>3, OneObject
<1>6. /\ UNCHANGED <<config, windows, window, ci, stats, failed>>
      /\ phase = "encode" /\ phase' = "decode"
  BY DEF EncodeReturns
<1>7. TypeOK'
  BY <1>5, <1>6 DEF IInv, TypeOK
<1>8. HoldsTheWindow'
  BY <1>4, <1>5, <1>6 DEF HoldsTheWindow, Sound, Kind
<1>9. CarriesNothing'
  BY <1>5, <1>6 DEF IInv, CarriesNothing
<1>10. /\ UnderTest' /\ Ahead' /\ StatsLineUp'
       /\ ResultsAreStandalone' /\ RefusedForGood'
  <2>1. \A c : Windows(c)' = Windows(c)
    BY <1>6 DEF Windows
  <2>2. UnderTest' /\ ResultsAreStandalone' /\ RefusedForGood'
    BY <1>6 DEF IInv, UnderTest, ResultsAreStandalone, RefusedForGood
  <2>3. Ahead' /\ StatsLineUp'
    BY <1>6, <2>1 DEF IInv, Ahead, StatsLineUp
  <2> QED
    BY <2>2, <2>3
<1>11. Stuck'
  <2>1. Refusing(ci) => failed[ci] = "never"
    BY RefusesAgain DEF EncodeReturns
  <2> SUFFICES ASSUME NEW c \in Codecs, Refusing(c), failed'[c] # "never"
               PROVE  ~ Fits(pool'[c].first) /\ c # ci'
    BY DEF Stuck, Refusing
  <2> QED
    BY <1>5, <1>6, <2>1 DEF IInv, Stuck
<1> QED
  BY <1>5, <1>7, <1>8, <1>9, <1>10, <1>11 DEF IInv

(***************************************************************************)
(* The object that is decoded, and for a sound one that it answers as the  *)
(* fresh object would.                                                     *)
(***************************************************************************)
LEMMA BeforeDecoding ==
  ASSUME IInv, phase = "decode"
  PROVE  /\ Kind \in AllKinds /\ Ready(Kind, pool[ci])
         /\ EncodedNumValues(Kind, pool[ci]) \in Nat
         /\ Sound(ci) =>
              Alone(Kind, window) =
                IF ~ DecodeFails(Kind, pool[ci]) /\ DecodesBack
                THEN [ok |-> TRUE, size |-> EncodedNumValues(Kind, pool[ci])]
                ELSE Zeroed
<1>1. ci \in Codecs
  BY DEF IInv, TypeOK
<1>2. Kind \in AllKinds /\ Ready(Kind, pool[ci])
  BY <1>1, PoolFacts DEF IInv, AllReady, Kind
<1>3. EncodedNumValues(Kind, pool[ci]) \in Nat
  BY <1>2, LenProperties DEF EncodedNumValues, Encoded, Ready, Object
<1>4. ASSUME Sound(ci)
      PROVE  Alone(Kind, window) =
                IF ~ DecodeFails(Kind, pool[ci]) /\ DecodesBack
                THEN [ok |-> TRUE, size |-> EncodedNumValues(Kind, pool[ci])]
                ELSE Zeroed
  <2> DEFINE o == EncodeArray(Kind, Fresh, window)
  <2>1. ~ Throws(Kind, Fresh, window) /\ Encoded(Kind, pool[ci]) = Encoded(Kind, o)
    BY <1>4 DEF IInv, HoldsTheWindow
  <2>2. Alone(Kind, window) = IF /\ ~ Throws(Kind, Fresh, window)
                                 /\ ~ DecodeFails(Kind, o)
                                 /\ Restores(Kind, o, window)
                              THEN [ok |-> TRUE, size |-> EncodedNumValues(Kind, o)]
                              ELSE Zeroed
    BY DEF Alone
  <2> HIDE DEF o
  <2>3. /\ Delivered(Kind, pool[ci], Len(window)) = Delivered(Kind, o, Len(window))
        /\ DecodeFails(Kind, pool[ci]) <=> DecodeFails(Kind, o)
        /\ EncodedNumValues(Kind, pool[ci]) = EncodedNumValues(Kind, o)
    BY <1>2, <2>1, EncodingDecides
  <2>4. DecodesBack <=> Restores(Kind, o, window)
    BY <2>3 DEF DecodesBack, Restores
  <2> QED
    BY <2>1, <2>2, <2>3, <2>4
<1> QED
  BY <1>2, <1>3, <1>4

\* An object that refuses some windows gives back those that it took.
LEMMA RefusingDecodes ==
  ASSUME IInv, phase = "decode", Refusing(ci)
  PROVE  /\ failed[ci] = "never" /\ DecodesBack
         /\ ~ DecodeFails(Kind, pool[ci])
<1>1. /\ ci \in Codecs /\ window \in Blocks /\ Kind \in AllKinds
      /\ IsBlock(window) /\ Kind[2] = "pfor"
  BY PoolFacts DEF IInv, TypeOK, UnderTest, Kind, Refusing
<1>2. failed[ci] = "never"
  BY <1>1 DEF IInv, Stuck
<1>3. /\ ~ Throws(Kind, Fresh, window)
      /\ Encoded(Kind, pool[ci]) = Encoded(Kind, EncodeArray(Kind, Fresh, window))
  BY <1>2 DEF IInv, HoldsTheWindow, Sound
<1>4. Ready(Kind, Fresh) /\ Fresh.first = <<>>
  BY CleanReady DEF Fresh
<1>5. Encoded(Kind, EncodeArray(Kind, Fresh, window)) = Symbols(Kind[1], window)
  BY <1>1, <1>3, <1>4, EncodesAsFresh, EncodedValue DEF Kept
<1>6. Delivered(Kind, pool[ci], Len(window)) = window
  BY <1>1, <1>3, <1>5, SymbolsDeliver
<1>7. window = [p \in 1 .. Len(window) |-> IF p <= Len(window) THEN window[p] ELSE 0]
  BY <1>1 DEF IsBlock
<1>8. DecodesBack
  BY <1>6, <1>7 DEF DecodesBack, Restores
<1> QED
  BY <1>1, <1>2, <1>8 DEF DecodeFails

\* The three outcomes of a decode that ends.
LEMMA DecodeStep ==
  ASSUME IInv, Succeed \/ Mismatch \/ DecodeThrows
  PROVE  IInv'
<1>1. phase = "decode"
  BY DEF Succeed, Mismatch, DecodeThrows, DecodeReturns
<1>2. /\ Kind \in AllKinds /\ Ready(Kind, pool[ci])
      /\ EncodedNumValues(Kind, pool[ci]) \in Nat
  BY <1>1, BeforeDecoding
<1>3. Zeroed \in Results
  BY DEF Zeroed, Results
<1>4. CASE Succeed
  <2> DEFINE r == [ok |-> TRUE, size |-> EncodedNumValues(Kind, pool[ci])]
  <2>1. r \in Results
    BY <1>2 DEF Results
  <2>2. Sound(ci) => r = Alone(Kind, window)
    BY <1>1, <1>4, BeforeDecoding DEF Succeed, DecodeReturns
  <2>3. Record(r)
    BY <1>4 DEF Succeed
  <2>4. Ready(Kind, Fresh)
    BY CleanReady
  <2>5. /\ NextCodec /\ pool' = [pool EXCEPT ![ci] = Fresh]
        /\ UNCHANGED <<config, windows, window>> /\ UNCHANGED failed
    BY <1>4 DEF Succeed
  <2>6. Refusing(ci) => failed[ci] = "never"
    BY <1>1, RefusingDecodes
  <2> HIDE DEF r
  <2> QED
    BY <1>1, <2>1, <2>2, <2>3, <2>4, <2>5, <2>6, OneCodecDone
<1>5. CASE Mismatch
  <2> DEFINE o == AfterDecode(Kind, pool[ci])
  <2>1. Ready(Kind, o)
    BY <1>2, DecodeReady
  <2>2. Sound(ci) => Zeroed = Alone(Kind, window)
    BY <1>1, <1>5, BeforeDecoding DEF Mismatch
  <2>3. /\ NextCodec /\ pool' = [pool EXCEPT ![ci] = o] /\ Record(Zeroed)
        /\ UNCHANGED <<config, windows, window>> /\ FailAs("differed")
    BY <1>5 DEF Mismatch
  <2>4. ~ Refusing(ci)
    BY <1>1, <1>5, RefusingDecodes DEF Mismatch
  <2> HIDE DEF o
  <2> QED
    BY <1>1, <1>3, <2>1, <2>2, <2>3, <2>4, OneCodecDone
<1>6. CASE DecodeThrows
  <2>1. PICK o \in AfterFailedDecode(Kind, pool[ci]) : pool' = [pool EXCEPT ![ci] = o]
    BY <1>6 DEF DecodeThrows
  <2>2. Ready(Kind, o)
    BY <1>2, <1>6, <2>1, DecodeReady DEF DecodeThrows
  <2>3. Sound(ci) => Zeroed = Alone(Kind, window)
    BY <1>1, <1>6, BeforeDecoding DEF DecodeThrows
  <2>4. /\ NextCodec /\ Record(Zeroed)
        /\ UNCHANGED <<config, windows, window>> /\ FailAs("threw")
    BY <1>6 DEF DecodeThrows
  <2>5. ~ Refusing(ci)
    BY <1>1, <1>6, RefusingDecodes DEF DecodeThrows
  <2> QED
    BY <1>1, <1>3, <2>1, <2>2, <2>3, <2>4, <2>5, OneCodecDone
<1> QED
  BY <1>4, <1>5, <1>6

\* A configuration begins or ends, or a window is read: no object is touched.
LEMMA LoopStep ==
  ASSUME IInv, \/ StartConfig \/ FinishConfig \/ AbortConfig
               \/ \E b \in Blocks : ReadWindow(b)
  PROVE  IInv'
<1>1. UNCHANGED <<pool, failed>>
  BY DEF StartConfig, FinishConfig, AbortConfig, ReadWindow
<1>2. phase \in {"config", "windows"}
  BY DEF StartConfig, FinishConfig, AbortConfig, ReadWindow
<1>3. AllReady'
  BY <1>1 DEF IInv, AllReady
<1>4. CASE StartConfig
  <2>1. /\ phase' = "windows" /\ UNCHANGED <<window, ci>>
        /\ config' \in 0 .. NumConfigs /\ windows' \in 0 .. NumWindows
        /\ stats' = [c \in Codecs |-> <<>>]
    BY <1>4, SizesAssumption DEF StartConfig, IInv, TypeOK
  <2>2. TypeOK'
    BY <1>1, <2>1 DEF IInv, TypeOK
  <2>3. StatsLineUp' /\ ResultsAreStandalone' /\ RefusedForGood'
    BY <2>1 DEF StatsLineUp, ResultsAreStandalone, RefusedForGood, Windows
  <2> QED
    BY <1>1, <1>2, <1>3, <2>1, <2>2, <2>3
    DEF IInv, UnderTest, CarriesNothing, HoldsTheWindow, Ahead, Stuck
<1>5. CASE FinishConfig \/ AbortConfig
  <2>1. /\ phase' \in {"config", "done"}
        /\ UNCHANGED <<config, windows, window, ci, stats>>
    BY <1>5 DEF FinishConfig, AbortConfig, EndOfConfig
  <2>2. TypeOK'
    BY <1>1, <2>1 DEF IInv, TypeOK
  <2>3. StatsLineUp' /\ ResultsAreStandalone' /\ RefusedForGood'
    BY <1>2, <2>1 DEF IInv, StatsLineUp, ResultsAreStandalone, RefusedForGood, Windows
  <2> QED
    BY <1>1, <1>2, <1>3, <2>1, <2>2, <2>3
    DEF IInv, UnderTest, CarriesNothing, HoldsTheWindow, Ahead, Stuck
<1>6. ASSUME NEW b \in Blocks, ReadWindow(b) PROVE IInv'
  <2>1. /\ phase' = "encode" /\ window' = b /\ ci' = 1
        /\ UNCHANGED <<config, stats>> /\ windows' \in 0 .. NumWindows
    BY <1>6, SizesAssumption DEF ReadWindow, IInv, TypeOK
  <2>2. TypeOK'
    BY <1>1, <2>1, PoolFacts DEF IInv, TypeOK
  <2>3. Ahead'
    <3>1. \A c, d \in Codecs : Windows(c)' = Windows(d)'
      BY <1>2, <2>1 DEF IInv, StatsLineUp, Windows
    <3>2. \A c \in Codecs : ~ (c < ci')
      BY <2>1 DEF Codecs
    <3> QED
      BY <3>1, <3>2 DEF Ahead
  <2>4. StatsLineUp' /\ ResultsAreStandalone' /\ RefusedForGood'
    BY <2>1 DEF IInv, StatsLineUp, ResultsAreStandalone, RefusedForGood
  <2> QED
    BY <1>1, <1>2, <1>3, <2>1, <2>2, <2>3, <2>4, <1>6
    DEF IInv, UnderTest, CarriesNothing, HoldsTheWindow, Stuck
<1> QED
  BY <1>4, <1>5, <1>6

\* A decode that runs past the end of dataBack: no object is touched.
LEMMA OverrunStep ==
  ASSUME IInv, Overrun
  PROVE  IInv'
<1>1. /\ phase' = "crashed"
      /\ UNCHANGED <<pool, config, windows, window, ci, stats, failed>>
  BY DEF Overrun
<1>2. TypeOK' /\ AllReady' /\ UnderTest' /\ HoldsTheWindow' /\ Ahead' /\ StatsLineUp'
  BY <1>1 DEF IInv, TypeOK, AllReady, UnderTest, HoldsTheWindow, Ahead, StatsLineUp
<1>3. CarriesNothing'
  BY <1>1 DEF IInv, CarriesNothing
<1>4. ResultsAreStandalone' /\ RefusedForGood' /\ Stuck'
  BY <1>1 DEF IInv, ResultsAreStandalone, RefusedForGood, Stuck
<1> QED
  BY <1>1, <1>2, <1>3, <1>4 DEF IInv

\* Every step of the program preserves the inductive invariant.
LEMMA NextIInv ==
  ASSUME IInv, [Next]_vars
  PROVE  IInv'
<1>1. CASE \/ StartConfig \/ FinishConfig \/ AbortConfig
           \/ \E b \in Blocks : ReadWindow(b)
  BY <1>1, LoopStep
<1>2. CASE EncodeThrows
  BY <1>2, EncodeThrowsStep
<1>3. CASE EncodeReturns
  BY <1>3, EncodeReturnsStep
<1>4. CASE Succeed \/ Mismatch \/ DecodeThrows
  BY <1>4, DecodeStep
<1>5. CASE Overrun
  BY <1>5, OverrunStep
<1>6. CASE UNCHANGED vars
  <2>1. UNCHANGED <<pool, config, windows, window, ci, phase, stats, failed>>
    BY <1>6 DEF vars
  <2>2. \A c : Windows(c)' = Windows(c) /\ (Sound(c)' <=> Sound(c))
    BY <2>1 DEF Windows, Sound
  <2>3. TypeOK' /\ AllReady' /\ UnderTest' /\ CarriesNothing' /\ ResultsAreStandalone'
    BY <2>1 DEF IInv, TypeOK, AllReady, UnderTest, CarriesNothing, ResultsAreStandalone
  <2>4. HoldsTheWindow'
    BY <2>1, <2>2 DEF IInv, HoldsTheWindow, Kind
  <2>5. Ahead' /\ StatsLineUp'
    BY <2>1, <2>2 DEF IInv, Ahead, StatsLineUp
  <2>6. Stuck' /\ RefusedForGood'
    BY <2>1 DEF IInv, Stuck, RefusedForGood
  <2> QED
    BY <2>3, <2>4, <2>5, <2>6 DEF IInv
<1> QED
  BY <1>1, <1>2, <1>3, <1>4, <1>5, <1>6 DEF Next, Step, Done

LEMMA InvariantHolds == Spec => []IInv
<1>1. Init => IInv
  BY InitIInv
<1>2. IInv /\ [Next]_vars => IInv'
  BY NextIInv
<1> QED
  BY <1>1, <1>2, PTL DEF Spec

(***************************************************************************)
(* Type correctness of a whole run of the program.                         *)
(***************************************************************************)
THEOREM TypeCorrect == Spec => []TypeOK
<1>1. IInv => TypeOK
  BY DEF IInv
<1> QED
  BY <1>1, InvariantHolds, PTL

(***************************************************************************)
(* For any pool, the result of a window is the one a fresh object gives,   *)
(* for every object that heals itself or has not failed before, however    *)
(* many windows and configurations came before and whatever failed then.   *)
(***************************************************************************)
THEOREM StandaloneResults == Spec => []ResultsAreStandalone
<1>1. IInv => ResultsAreStandalone
  BY DEF IInv
<1> QED
  BY <1>1, InvariantHolds, PTL

(***************************************************************************)
(* The entries of all the objects line up between two windows, so the      *)
(* means of a configuration are taken over the same windows.               *)
(***************************************************************************)
THEOREM EntriesLineUp == Spec => []StatsLineUp
<1>1. IInv => StatsLineUp
  BY DEF IInv
<1> QED
  BY <1>1, InvariantHolds, PTL

(***************************************************************************)
(* A cascade over a codec that appends, once its physical codec has thrown *)
(* on a window, reports zeros for every window after it.                   *)
(***************************************************************************)
THEOREM RefusalIsForGood == Spec => []RefusedForGood
<1>1. IInv => RefusedForGood
  BY DEF IInv
<1> QED
  BY <1>1, InvariantHolds, PTL
=============================================================================

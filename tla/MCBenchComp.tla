------------------------------ MODULE MCBenchComp ------------------------------
(***************************************************************************)
(* A pool with every way of failing, over windows that encode everywhere,  *)
(* that throw or come back changed only after a delta or an offset, and    *)
(* that do so everywhere.  Words of four bits, Limit 8: exactly the        *)
(* negative words are beyond the physical codecs.                          *)
(***************************************************************************)
EXTENDS BenchComp

MCPool == << <<"delta", "none">>, <<"none", "pfor">>, <<"none", "fragile">>,
             <<"delta", "pfor">>, <<"rle", "pfor">>, <<"for", "lossy">>,
             <<"rle", "lossy">>, <<"rle", "fragile">> >>

\* The lossy scheme gives back each word one larger, zeros too; the fragile one
\* throws having written nothing, or a run that is not empty.
MCGarble   == [v \in Word |-> Wrap(v + 1)]
MCPartials == {<<>>, <<1, 1>>}

\* Objects of the registry: no lossy scheme.
RegistryPool == << <<"none", "pfor">>, <<"rle", "pfor">>, <<"delta", "pfor">> >>

MCBlocks == { <<0, 0, 0>>,      \* one run; representable everywhere
              <<1, 3, 2>>,      \* representable everywhere
              <<0, 7, 1>>,      \* representable, but not its delta symbols
              <<-1, -1, 0>>,    \* beyond the physical codecs
              <<-8, 7, 7>> }    \* its difference wraps
=============================================================================

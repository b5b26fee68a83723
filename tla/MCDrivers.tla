------------------------------- MODULE MCDrivers -------------------------------
(***************************************************************************)
(* Three logical and two physical codecs, and command lines with one and   *)
(* two names of each kind, repeated names, names nobody knows and names    *)
(* that only another option knows, on every kind of raster.                *)
(***************************************************************************)
EXTENDS Drivers

MCLogical  == <<"delta", "for", "rle">>
MCPhysical == <<"simdcomp", "simdcomp_fused">>

CompLines ==
  [program : {"comp"}, raster : RasterKinds,
   composites : {<<"none">>, <<"delta", "none">>, <<"simdcomp", "elr", "none">>},
   orderings : {<<"default">>, <<"default", "zigzag">>, <<"zigzag", "zagzig">>},
   transformations : {<<"none", "IndexBasedClassification">>, <<"Threshold", "none">>,
                      <<"ValueBasedClassification", "default">>, <<"Treshold">>}]

PipelineLines ==
  [program : {"pipeline"}, raster : RasterKinds,
   orderings : {<<"default">>, <<"zigzag", "default">>, <<"default", "zagzig">>},
   transformations : {<<"none", "IndexBasedClassification">>, <<"linearSum">>},
   accesses : {<<"linearSum", "ValueBasedClassification">>, <<"linearSum", "none">>},
   patterns : {<<"linear">>, <<"random", "linear">>, <<"linear", "rendom">>},
   initial : {<<<<"delta">>, <<"delta">>>>, <<<<"all">>>>, <<<<"delta", "lz4">>>>},
   again : {<<<<"direct">>, <<"rle", "simdcomp">>>>}]

MCOptions == CompLines \cup PipelineLines
================================================================================

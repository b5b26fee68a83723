---------------------------- MODULE MCBufferCodecs ----------------------------
(***************************************************************************)
(* Blocks that end inside, at and after the groups of the formats (4, 8,   *)
(* 16, 32 and 128 values), whose large values are at the edges of the      *)
(* bytes of the byte codes and of the word.                                *)
(***************************************************************************)
EXTENDS BufferCodecs

CONSTANT MCLengths, MCWidths

MCBlocks ==
  {blk \in [length : MCLengths, wide : {0, 1} \cup MCLengths, width : MCWidths] :
     /\ blk.wide \in {0, 1, blk.length}
     /\ blk.wide = 0 <=> blk.width = 0}
=============================================================================

---------------------------- MODULE MCFileBlocks ----------------------------
(* Files of up to five blocks with up to two extents, valid or not, and    *)
(* the block maps of MCBlockMap.                                           *)
EXTENDS FileBlocks, MCBlockMap

MCExtent == [block_within_file : 0 .. 4, start_block : {1, 8}, num_blocks : 0 .. 3]
MCFiles == [extents : UNION {[1 .. n -> MCExtent] : n \in 0 .. 2},
            fails : BOOLEAN, num_blocks_total : {0, 4, 5}]
=============================================================================

---------------------------- MODULE MCBlockRead -----------------------------
(* An instance of read_from_block for TLC: the journal holds a copy of     *)
(* block 1 in block 3, maps block 2 to the reserved block 0 and block 3 to *)
(* a block past the end.  Reads ask for whole blocks, for the part behind  *)
(* the reserved bytes, and for a range that leaves its block.  A group is  *)
(* three of the five blocks: a read from block 3 on is clamped to two, and *)
(* the start of block 4, the last one, does not fit MaxByte.               *)
EXTENDS BlockRead, TLC

MCData == 0 .. 2
MCDisk == [b \in FsBlocks |-> IF b \in {0, 1, 4} THEN 1 ELSE 2]
MCRequests == FsBlocks
MCJournal == (1 :> 3) @@ (2 :> 0) @@ (3 :> NumFsBlocks)

MCReads == [block : 0 .. 4, offset : {0}, len : {BlockSize}]
           \cup [block : {0}, offset : {Reserved}, len : {1}]
           \cup [block : {1}, offset : {1}, len : {BlockSize}]
=============================================================================

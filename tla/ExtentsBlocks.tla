--------------------------- MODULE ExtentsBlocks ----------------------------
(***************************************************************************)
(* The iterator over the blocks of a file with extents                     *)
(* (src/iters/file_blocks/extents_blocks.rs).  An action is one call of    *)
(* next_impl; impl_result_iter calls it until it yields an item or         *)
(* is_done.                                                                *)
(*                                                                         *)
(* The extents come from the iterator Extents: a finite sequence that may  *)
(* end with an error.                                                      *)
(***************************************************************************)
EXTENDS Integers, Sequences

CONSTANTS MaxBlock,   \* the largest block index (u64::MAX)
          Files       \* the files to iterate over

Extent == [block_within_file : Nat, start_block : 0 .. MaxBlock,
           num_blocks : Nat]

(* extents: what Extents yields; fails: it then yields an error. *)
FileType == [extents : Seq(Extent), fails : BOOLEAN, num_blocks_total : Nat]

ASSUME ExtentsAssumption == MaxBlock \in Nat /\ Files \subseteq FileType

VARIABLES file,
          next_extent,               \* extents taken from the iterator
          extent,                    \* number of the current extent, or None
          block_within_extent,
          blocks_remaining_in_hole,
          block_within_file,
          is_done,
          error,                     \* an error was yielded
          yielded                    \* the blocks yielded so far

vars == <<file, next_extent, extent, block_within_extent,
          blocks_remaining_in_hole, block_within_file, is_done, error, yielded>>

None == 0
Hole == 0
Total == file.num_blocks_total
NumExtents == Len(file.extents)

Init ==
    /\ file \in Files
    /\ next_extent = 0
    /\ extent = None
    /\ block_within_extent = 0
    /\ blocks_remaining_in_hole = 0
    /\ block_within_file = 0
    /\ is_done = FALSE
    /\ error = FALSE
    /\ yielded = <<>>

-----------------------------------------------------------------------------
Yield(block) ==
    /\ yielded' = Append(yielded, block)
    /\ block_within_file' = block_within_file + 1
    /\ UNCHANGED <<is_done, error>>

(* Mistake: an error does not end the iteration. *)
YieldErrorAndGoOn ==
    /\ error' = TRUE
    /\ UNCHANGED <<yielded, block_within_file, is_done>>

YieldError ==
    /\ is_done' = TRUE
    /\ error' = TRUE
    /\ UNCHANGED <<yielded, block_within_file>>

YieldNothing == UNCHANGED <<yielded, block_within_file, is_done, error>>

InFile == ~ is_done /\ block_within_file < Total
NeedsExtent == InFile /\ blocks_remaining_in_hole = 0 /\ extent = None

EndOfFile ==
    /\ ~ is_done
    /\ block_within_file >= Total
    /\ is_done' = TRUE
    /\ UNCHANGED <<file, next_extent, extent, block_within_extent,
                   blocks_remaining_in_hole, block_within_file, error, yielded>>

InHole ==
    /\ InFile
    /\ blocks_remaining_in_hole > 0
    /\ blocks_remaining_in_hole' = blocks_remaining_in_hole - 1
    /\ Yield(Hole)
    /\ UNCHANGED <<file, next_extent, extent, block_within_extent>>

(* Mistake: the sum is not checked for overflow. *)
UseExtentUnchecked(i, w) ==
    LET e == file.extents[i]
    IN  IF w = e.num_blocks
        THEN /\ extent' = None
             /\ block_within_extent' = w
             /\ YieldNothing
        ELSE /\ extent' = i
             /\ Yield(e.start_block + w)
             /\ block_within_extent' = w + 1

(* The rest of next_impl once there is an extent, i, at its block w *)
UseExtent(i, w) ==
    LET e == file.extents[i]
    IN  IF w = e.num_blocks
        THEN /\ extent' = None
             /\ block_within_extent' = w
             /\ YieldNothing
        ELSE /\ extent' = i
             /\ IF e.start_block + w > MaxBlock
                THEN YieldError /\ block_within_extent' = w
                ELSE /\ Yield(e.start_block + w)
                     /\ block_within_extent' = w + 1

InExtent ==
    /\ InFile
    /\ blocks_remaining_in_hole = 0
    /\ extent # None
    /\ UseExtent(extent, block_within_extent)
    /\ UNCHANGED <<file, next_extent, blocks_remaining_in_hole>>

(* Mistake: the index in the extent is not reset. *)
NextExtentWithoutReset ==
    /\ NeedsExtent
    /\ next_extent < NumExtents
    /\ next_extent' = next_extent + 1
    /\ file.extents[next_extent'].block_within_file <= block_within_file
    /\ UseExtent(next_extent', block_within_extent)
    /\ UNCHANGED <<file, blocks_remaining_in_hole>>

(* A new extent that continues the file where it is *)
NextExtent ==
    /\ NeedsExtent
    /\ next_extent < NumExtents
    /\ next_extent' = next_extent + 1
    /\ file.extents[next_extent'].block_within_file <= block_within_file
    /\ UseExtent(next_extent', 0)
    /\ UNCHANGED <<file, blocks_remaining_in_hole>>

(* A new extent after a hole: the hole comes first. *)
HoleBeforeExtent ==
    /\ NeedsExtent
    /\ next_extent < NumExtents
    /\ next_extent' = next_extent + 1
    /\ file.extents[next_extent'].block_within_file > block_within_file
    /\ blocks_remaining_in_hole' =
          file.extents[next_extent'].block_within_file - block_within_file
    /\ extent' = next_extent'
    /\ block_within_extent' = 0
    /\ YieldNothing
    /\ UNCHANGED file

ExtentError ==
    /\ NeedsExtent
    /\ next_extent = NumExtents
    /\ file.fails
    /\ YieldError
    /\ UNCHANGED <<file, next_extent, extent, block_within_extent,
                   blocks_remaining_in_hole>>

(* Mistake: the file ends with its last extent. *)
NoFinalHole ==
    /\ NeedsExtent
    /\ next_extent = NumExtents
    /\ ~ file.fails
    /\ is_done' = TRUE
    /\ UNCHANGED <<file, next_extent, extent, block_within_extent, error,
                   blocks_remaining_in_hole, block_within_file, yielded>>

(* No more extents: the rest of the file is a hole. *)
FinalHole ==
    /\ NeedsExtent
    /\ next_extent = NumExtents
    /\ ~ file.fails
    /\ blocks_remaining_in_hole' = Total - block_within_file
    /\ YieldNothing
    /\ UNCHANGED <<file, next_extent, extent, block_within_extent>>

Step == \/ EndOfFile \/ InHole \/ InExtent \/ NextExtent
        \/ HoleBeforeExtent \/ ExtentError \/ FinalHole

(* Every later call returns None. *)
Done == is_done /\ UNCHANGED vars

Next == Step \/ Done

Spec == Init /\ [][Next]_vars

-----------------------------------------------------------------------------
TypeOK ==
    /\ file \in FileType
    /\ next_extent \in 0 .. NumExtents
    /\ extent \in 0 .. next_extent
    /\ block_within_extent \in Nat
    /\ blocks_remaining_in_hole \in Nat
    /\ block_within_file \in 0 .. Total
    /\ is_done \in BOOLEAN
    /\ error \in BOOLEAN
    /\ yielded \in Seq(0 .. MaxBlock)

(* Extents as a valid tree has them: in order, without overlap, within the *)
(* range of block indices.                                                 *)
End(e) == e.block_within_file + e.num_blocks
WellFormed(f) ==
    /\ \A i \in 1 .. Len(f.extents) :
          f.extents[i].start_block + f.extents[i].num_blocks <= MaxBlock
    /\ \A i, j \in 1 .. Len(f.extents) :
          i < j => End(f.extents[i]) <= f.extents[j].block_within_file

(* Block b of the file is in its i-th extent. *)
Covers(f, i, b) == f.extents[i].block_within_file <= b /\ b < End(f.extents[i])

(* d is where a file with these extents has its block b. *)
IsBlock(f, b, d) ==
    IF \E i \in 1 .. Len(f.extents) : Covers(f, i, b)
    THEN \E i \in 1 .. Len(f.extents) :
            /\ Covers(f, i, b)
            /\ d = f.extents[i].start_block + (b - f.extents[i].block_within_file)
    ELSE d = Hole

(* On a valid tree the k-th item is the location of the k-th block of the  *)
(* file, through holes at the start, in the middle and at the end, empty   *)
(* extents and extents that reach past the end of the file.                *)
YieldsFileBlocks ==
    WellFormed(file) =>
        \A k \in 1 .. Len(yielded) : IsBlock(file, k - 1, yielded[k])

(* Whatever the extents are, valid or not, the iterator yields exactly one *)
(* item per block of the file unless it yields an error: File::read_bytes  *)
(* unwraps the next item on the strength of this.                          *)
OneItemPerBlock ==
    /\ Len(yielded) = block_within_file
    /\ is_done /\ ~ error => Len(yielded) = Total
=============================================================================

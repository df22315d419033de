------------------------------ MODULE BlockMap ------------------------------
(***************************************************************************)
(* The iterator over the blocks of a file with a block map                 *)
(* (src/iters/file_blocks/block_map.rs).  The nested iterators for         *)
(* indirect, doubly and triply indirect blocks are a stack of the indirect *)
(* blocks that are open, each with the index of its next entry; a step is  *)
(* one change of that stack or one item.                                   *)
(***************************************************************************)
EXTENDS Integers, Sequences

CONSTANTS NumDirect,        \* direct entries of level_0 (12)
          EntriesPerBlock,  \* block indices in an indirect block
          Maps              \* the files to iterate over

NumEntries == NumDirect + 3

(* A file: the entries in the inode, the contents of the readable indirect *)
(* blocks, and the number of blocks.  Block 0 is never readable at offset  *)
(* 0: read_from_block refuses it.                                          *)
IsMap(f) ==
    /\ f.level_0 \in [1 .. NumEntries -> Nat]
    /\ \A b \in DOMAIN f.disk : f.disk[b] \in [1 .. EntriesPerBlock -> Nat]
    /\ 0 \notin DOMAIN f.disk
    /\ f.num_blocks_total \in Nat

AreMaps ==
    /\ NumDirect \in Nat
    /\ EntriesPerBlock \in Nat \ {0}
    /\ \A f \in Maps : IsMap(f)

ASSUME BlockMapAssumption == AreMaps

VARIABLES map,                  \* the file
          level_0_index,        \* from 0
          levels,               \* the open indirect blocks, outermost first
          num_blocks_yielded,
          map_done,             \* is_done
          map_error,            \* an error was yielded
          map_yielded           \* the blocks yielded so far

map_vars == <<map, level_0_index, levels, num_blocks_yielded, map_done,
              map_error, map_yielded>>

MapInit ==
    /\ map \in Maps
    /\ level_0_index = 0
    /\ levels = <<>>
    /\ num_blocks_yielded = 0
    /\ map_done = FALSE
    /\ map_error = FALSE
    /\ map_yielded = <<>>

-----------------------------------------------------------------------------
InMapFile == ~ map_done /\ num_blocks_yielded < map.num_blocks_total
InMap == InMapFile /\ level_0_index < NumEntries
block_0 == map.level_0[level_0_index + 1]

(* Levels of indirect blocks below the current entry of level_0 *)
Depth == level_0_index - NumDirect + 1

MapYield(block) ==
    /\ map_yielded' = Append(map_yielded, block)
    /\ num_blocks_yielded' = num_blocks_yielded + 1
    /\ UNCHANGED <<map_done, map_error>>

(* IndirectBlockIter::new: the block is read, or the iteration fails. *)
OpenBlock(block, stack) ==
    IF block \in DOMAIN map.disk
    THEN /\ levels' = Append(stack, [block |-> block, index |-> 0])
         /\ UNCHANGED <<map_done, map_error>>
    ELSE /\ map_done' = TRUE
         /\ map_error' = TRUE
         /\ UNCHANGED levels

Top == levels[Len(levels)]
Entry == map.disk[Top.block][Top.index + 1]

(* The stack after the next entry of the innermost block was taken *)
Advanced == [levels EXCEPT ![Len(levels)].index = @ + 1]
Inside == InMap /\ levels # <<>>

MapEndOfFile ==
    /\ ~ map_done
    /\ num_blocks_yielded >= map.num_blocks_total
    /\ map_done' = TRUE
    /\ UNCHANGED <<map, level_0_index, levels, num_blocks_yielded,
                   map_error, map_yielded>>

(* All entries of level_0 are used up. *)
EndOfMap ==
    /\ InMapFile
    /\ level_0_index = NumEntries
    /\ map_done' = TRUE
    /\ UNCHANGED <<map, level_0_index, levels, num_blocks_yielded,
                   map_error, map_yielded>>

Direct ==
    /\ InMap
    /\ level_0_index < NumDirect
    /\ level_0_index' = level_0_index + 1
    /\ MapYield(block_0)
    /\ UNCHANGED <<map, levels>>

OpenRoot ==
    /\ InMap
    /\ level_0_index >= NumDirect
    /\ levels = <<>>
    /\ OpenBlock(block_0, levels)
    /\ UNCHANGED <<map, level_0_index, num_blocks_yielded, map_yielded>>

YieldEntry ==
    /\ Inside
    /\ Len(levels) = Depth
    /\ Top.index < EntriesPerBlock
    /\ levels' = Advanced
    /\ MapYield(Entry)
    /\ UNCHANGED <<map, level_0_index>>

(* Mistake: the entry is not consumed when its block is opened. *)
DescendAgain ==
    /\ Inside
    /\ Len(levels) < Depth
    /\ Top.index < EntriesPerBlock
    /\ OpenBlock(Entry, levels)
    /\ UNCHANGED <<map, level_0_index, num_blocks_yielded, map_yielded>>

Descend ==
    /\ Inside
    /\ Len(levels) < Depth
    /\ Top.index < EntriesPerBlock
    /\ OpenBlock(Entry, Advanced)
    /\ UNCHANGED <<map, level_0_index, num_blocks_yielded, map_yielded>>

Close ==
    /\ Inside
    /\ Top.index = EntriesPerBlock
    /\ levels' = SubSeq(levels, 1, Len(levels) - 1)
    /\ level_0_index' = IF levels' = <<>> THEN level_0_index + 1 ELSE level_0_index
    /\ UNCHANGED <<map, num_blocks_yielded, map_done, map_error, map_yielded>>

MapStep == \/ MapEndOfFile \/ EndOfMap \/ Direct \/ OpenRoot
           \/ YieldEntry \/ Descend \/ Close

MapDone == map_done /\ UNCHANGED map_vars
MapNext == MapStep \/ MapDone

MapSpec == MapInit /\ [][MapNext]_map_vars

-----------------------------------------------------------------------------
Level == [block : DOMAIN map.disk, index : 0 .. EntriesPerBlock]

MapTypeOK ==
    /\ map \in Maps
    /\ level_0_index \in 0 .. NumEntries
    /\ levels \in Seq(Level)
    /\ Len(levels) <= 3
    /\ num_blocks_yielded \in 0 .. map.num_blocks_total
    /\ map_done \in BOOLEAN
    /\ map_error \in BOOLEAN
    /\ map_yielded \in Seq(Nat)

(* Entry i of an indirect block.  A block index of zero indicates a hole,  *)
(* at every level.                                                         *)
Child(block, i) == IF block = 0 THEN 0 ELSE map.disk[block][i + 1]

(* The indirect entries of level_0, and the number of file blocks before   *)
(* each of them: a block at depth n has EntriesPerBlock^n below it.        *)
Root(n) == map.level_0[NumDirect + n]
Span(n) == CASE n = 0 -> 1
             [] n = 1 -> EntriesPerBlock
             [] n = 2 -> EntriesPerBlock * EntriesPerBlock
             [] n = 3 -> EntriesPerBlock * EntriesPerBlock * EntriesPerBlock
Before(n) == CASE n = 1 -> NumDirect
               [] n = 2 -> NumDirect + Span(1)
               [] n = 3 -> NumDirect + Span(1) + Span(2)
               [] n = 4 -> NumDirect + Span(1) + Span(2) + Span(3)
Capacity == Before(4)

(* Block k below the n-th indirect entry *)
Below(n, k) ==
    LET i == k \div EntriesPerBlock
        j == k % EntriesPerBlock
    IN  CASE n = 1 -> Child(Root(1), k)
          [] n = 2 -> Child(Child(Root(2), i), j)
          [] n = 3 -> Child(Child(Child(Root(3), i \div EntriesPerBlock),
                                  i % EntriesPerBlock), j)

FileBlock(k) ==
    IF k < Before(1) THEN map.level_0[k + 1]
    ELSE LET n == IF k < Before(2) THEN 1 ELSE IF k < Before(3) THEN 2 ELSE 3
         IN  Below(n, k - Before(n))

(* The k-th item is the location of block k of the file, across the        *)
(* borders of indirect blocks and levels; and a file that fits in a block  *)
(* map yields one item per block, or an error.                             *)
YieldsMappedBlocks ==
    /\ \A k \in 1 .. Len(map_yielded) : map_yielded[k] = FileBlock(k - 1)
    /\ map_done /\ ~ map_error /\ map.num_blocks_total <= Capacity
          => Len(map_yielded) = map.num_blocks_total

(* "OK to unwrap: already checked that the position is not at the end of   *)
(* the file, so there must be at least one more block to read"             *)
(* (File::read_bytes), for every size an inode can have.                   *)
AlwaysOneMoreBlock ==
    map_done /\ ~ map_error => Len(map_yielded) = map.num_blocks_total

(* Every indirect block that the map points to below `block` can be read; *)
(* a zero points to nothing.                                               *)
Readable(block, depth) ==
    LET Points(b, n) == n = 0 \/ b = 0 \/ b \in DOMAIN map.disk
        Entries(b) == IF b = 0 THEN {} ELSE {map.disk[b][i] : i \in 1 .. EntriesPerBlock}
        All(S, n) == \A b \in S : Points(b, n)
    IN  /\ Points(block, depth)
        /\ depth > 1 => All(Entries(block), depth - 1)
        /\ depth > 2 => \A b \in Entries(block) : All(Entries(b), depth - 2)

(* "A block index of zero indicates a hole" (BlockMap): if every indirect  *)
(* block that the map points to can be read, the iteration does not fail.  *)
HolesReadable ==
    (\A n \in 1 .. 3 : Readable(map.level_0[NumDirect + n], n)) => ~ map_error
=============================================================================

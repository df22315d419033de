----------------------------- MODULE FileBlocks -----------------------------
(***************************************************************************)
(* The iterator over the blocks of a file (src/iters/file_blocks.rs): the  *)
(* flags of the inode choose one of two iterators, and every call goes to  *)
(* that one.  The other does not exist; its variables keep some initial    *)
(* value.                                                                  *)
(***************************************************************************)
EXTENDS ExtentsBlocks, BlockMap

VARIABLE inner     \* the variant of FileBlocksInner

all_vars == <<inner, vars, map_vars>>

UnusedMap == CHOOSE f \in Maps : TRUE
UnusedFile == CHOOSE f \in Files : TRUE

(* If ExtentsBlocks::new fails (Extents has the checks) there is no iterator. *)
NewExtentsBlocks ==
    inner = "ExtentsBlocks" /\ map = UnusedMap /\ MapInit /\ Init

NewBlockMap ==
    inner = "BlockMap" /\ file = UnusedFile /\ Init /\ MapInit

FileBlocksInit == NewExtentsBlocks \/ NewBlockMap

NextInExtents == inner = "ExtentsBlocks" /\ Step /\ UNCHANGED <<inner, map_vars>>
NextInMap == inner = "BlockMap" /\ MapStep /\ UNCHANGED <<inner, vars>>

FileBlocksDone == (is_done \/ map_done) /\ UNCHANGED all_vars

FileBlocksNext == NextInExtents \/ NextInMap \/ FileBlocksDone

(* One call of next runs until it has an item, and the caller goes on. *)
FileBlocksSpec == /\ FileBlocksInit
                  /\ [][FileBlocksNext]_all_vars
                  /\ WF_all_vars(NextInExtents \/ NextInMap)

-----------------------------------------------------------------------------
(* Whatever the inode holds, extents out of order or overlapping, a block  *)
(* map with a block that is its own entry, the iteration over the blocks   *)
(* of a file ends.                                                         *)
IterationEnds == <>(is_done \/ map_done)
=============================================================================

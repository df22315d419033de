----------------------------- MODULE BlockCache -----------------------------
(***************************************************************************)
(* The LRU block cache of src/block_cache.rs.                              *)
(*                                                                         *)
(* A call of get_or_insert_blocks is a short run of steps: it either finds *)
(* the block (Hit), or reads a group of blocks into read_buf and copies    *)
(* them into the deque one by one, last block first (Read, InsertBlock,    *)
(* Return), or gives the reader's error back (ReadError).  Every assert!   *)
(* and unwrap of the code that could fail leads to pc = "panic".           *)
(***************************************************************************)
EXTENDS Integers

CONSTANTS NumFsBlocks,        \* num_fs_blocks
          NumEntries,         \* CacheOpts::num_entries
          MaxBlocksPerRead,   \* CacheOpts::max_blocks_per_read
          Data,               \* possible contents of one block
          Zeros,              \* a block of zero bytes
          Disk,               \* contents of every block behind the reader
          Requests,           \* block indices that callers ask for
          NoResult

FsBlocks == 0 .. NumFsBlocks - 1

(* The assert of with_opts, and the precondition `block_index <            *)
(* num_fs_blocks` that read_from_block establishes before every call.      *)
ASSUME CacheAssumption ==
    /\ NumFsBlocks \in Nat \ {0}
    /\ NumEntries \in Nat
    /\ MaxBlocksPerRead \in Nat \ {0}
    /\ MaxBlocksPerRead <= NumEntries
    /\ Zeros \in Data
    /\ Disk \in [FsBlocks -> Data]
    /\ Requests \subseteq FsBlocks

VARIABLES entries,       \* most recently used first
          read_buf,      \* one slot per block of a group read
          pc,            \* "idle", "insert" or "panic"
          block_index,   \* the block asked for by the current or last call
          todo,          \* blocks of the group still to be inserted
          result         \* what the last call returned

vars == <<entries, read_buf, pc, block_index, todo, result>>

Slots == 1 .. NumEntries
BufSlots == 1 .. MaxBlocksPerRead
CacheEntry == [block_index : FsBlocks, data : Data]

(* What an entry for block b may hold: the disk's contents of b, and for   *)
(* block 0 also the zeros that the entries are created with.               *)
Contents == [b \in FsBlocks |-> {Disk[b]} \cup (IF b = 0 THEN {Zeros} ELSE {})]

Ok(b, d) == [block |-> b, ok |-> TRUE, data |-> d]
Err(b) == [block |-> b, ok |-> FALSE]

-----------------------------------------------------------------------------
(* with_opts: all entries start out as block 0, full of zeros. *)
Init ==
    /\ entries = [i \in Slots |-> [block_index |-> 0, data |-> Zeros]]
    /\ read_buf = [i \in BufSlots |-> Zeros]
    /\ pc = "idle"
    /\ block_index = 0
    /\ todo = 0
    /\ result = NoResult

cached(b) == \E i \in Slots : entries[i].block_index = b

(* entries.iter().position(|entry| entry.block_index == block_index) *)
position(b) ==
    CHOOSE i \in Slots : /\ entries[i].block_index = b
                         /\ \A j \in 1 .. i - 1 : entries[j].block_index # b

(* Mistake: the entry is not moved. *)
move_to_front_forgotten(p) == entries

(* entries.remove(p), then push_front of the removed entry *)
move_to_front(p) ==
    [i \in Slots |-> IF i = 1 THEN entries[p]
                     ELSE IF i <= p THEN entries[i - 1] ELSE entries[i]]

(* The group read is clamped to the end of the filesystem. *)
num_blocks_to_read(b) ==
    IF b + MaxBlocksPerRead <= NumFsBlocks
    THEN MaxBlocksPerRead ELSE NumFsBlocks - b

(* pop_back, overwrite the popped entry, push_front *)
insert_block(b, slot) ==
    [i \in Slots |-> IF i = 1 THEN [block_index |-> b, data |-> read_buf[slot]]
                     ELSE entries[i - 1]]

-----------------------------------------------------------------------------
(* The block is cached: its entry moves to the front and is returned. *)
Hit(b) ==
    /\ pc = "idle"
    /\ cached(b)
    /\ entries' = move_to_front(position(b))
    /\ block_index' = b
    /\ result' = Ok(b, entries'[1].data)
    /\ UNCHANGED <<read_buf, pc, todo>>

(* The block is not cached and f fills the first num_blocks_to_read blocks *)
(* of read_buf; whatever an earlier read left in the others stays there.   *)
Read(b) ==
    /\ pc = "idle"
    /\ ~ cached(b)
    /\ read_buf' = [i \in BufSlots |-> IF i <= num_blocks_to_read(b)
                                       THEN Disk[b + i - 1] ELSE read_buf[i]]
    /\ todo' = num_blocks_to_read(b)
    /\ block_index' = b
    /\ result' = NoResult
    /\ pc' = "insert"
    /\ UNCHANGED entries

(* f fails: the error is returned before any entry is touched, but the     *)
(* reader may have written anything to the part of read_buf it was given.  *)
ReadError(b) ==
    /\ pc = "idle"
    /\ ~ cached(b)
    /\ \E junk \in [1 .. num_blocks_to_read(b) -> Data] :
          read_buf' = [i \in BufSlots |-> IF i <= num_blocks_to_read(b)
                                          THEN junk[i] ELSE read_buf[i]]
    /\ block_index' = b
    /\ result' = Err(b)
    /\ UNCHANGED <<entries, pc, todo>>

(* Mistake: the loop without rev(), which leaves the last block in front. *)
InsertBlockForward ==
    /\ pc = "insert"
    /\ todo > 0
    /\ LET n == num_blocks_to_read(block_index)
       IN  entries' = insert_block(block_index + n - todo, n - todo + 1)
    /\ todo' = todo - 1
    /\ UNCHANGED <<read_buf, pc, block_index, result>>

(* One round of the loop `for i in (0..num_blocks).rev()`, with i =        *)
(* todo - 1, including the assert of insert_block and the unwrap of        *)
(* pop_back.                                                               *)
InsertBlock ==
    /\ pc = "insert"
    /\ todo > 0
    /\ IF todo <= MaxBlocksPerRead /\ NumEntries > 0
       THEN /\ entries' = insert_block(block_index + todo - 1, todo)
            /\ todo' = todo - 1
            /\ UNCHANGED pc
       ELSE pc' = "panic" /\ UNCHANGED <<entries, todo>>
    /\ UNCHANGED <<read_buf, block_index, result>>

(* The end of the call: assert that the requested block is at the front. *)
Return ==
    /\ pc = "insert"
    /\ todo = 0
    /\ IF entries[1].block_index = block_index
       THEN pc' = "idle" /\ result' = Ok(block_index, entries[1].data)
       ELSE pc' = "panic" /\ UNCHANGED result
    /\ UNCHANGED <<entries, read_buf, block_index, todo>>

Next ==
    \/ \E b \in Requests : Hit(b) \/ Read(b) \/ ReadError(b)
    \/ InsertBlock
    \/ Return

Spec == Init /\ [][Next]_vars

-----------------------------------------------------------------------------
(* The deque keeps its length and the loop counter stays within the group. *)
TypeOK ==
    /\ entries \in [Slots -> CacheEntry]
    /\ read_buf \in [BufSlots -> Data]
    /\ pc \in {"idle", "insert", "panic"}
    /\ block_index \in FsBlocks
    /\ todo \in 0 .. MaxBlocksPerRead
    /\ result \in {NoResult} \cup {Ok(b, d) : b \in Requests, d \in Data}
                            \cup {Err(b) : b \in Requests}

(* No assert or unwrap of get_or_insert_blocks and insert_block ever fails:  *)
(* the loop index stays inside read_buf, the group never reaches past the    *)
(* end of the filesystem and, when the loop is done, the requested block is  *)
(* at the front of the deque.                                                *)
NoPanic == pc # "panic"

(* Apart from the zeros that block 0 starts with, the cache never holds      *)
(* anything but what the disk holds: neither the leftovers of an earlier or  *)
(* failed read in read_buf nor the previous contents of a reused entry can   *)
(* be taken for a block's data.                                              *)
Coherent ==
    \A i \in Slots : entries[i].data \in Contents[entries[i].block_index]

(* The loop invariant of a group read: read_buf holds the group that was     *)
(* read, starting with the requested block, and the block inserted last, now *)
(* at the front, is the one after the blocks still to be inserted.           *)
GroupInv ==
    pc = "insert" =>
        LET n == num_blocks_to_read(block_index)
        IN  /\ block_index \in Requests
            /\ todo <= n
            /\ \A i \in 1 .. n : read_buf[i] = Disk[block_index + i - 1]
            /\ todo < n => entries[1].block_index = block_index + todo

(* Every answer is the disk's contents of the block that was asked for.      *)
(* ("Get the cache entry for `block_index`, reading and inserting blocks     *)
(* into the cache if not already present", get_or_insert_blocks)             *)
AnswersFromDisk ==
    result # NoResult /\ result.ok => result.data = Disk[result.block]

(* The cache implements BlockStore: except for the zeros of block 0, a       *)
(* caller cannot tell it from reading the disk directly.                     *)
Store == INSTANCE BlockStore WITH
             Requests <- Requests,
             Contents <- Contents,
             NoResult <- NoResult,
             result   <- result
ImplementsStore == Store!Spec
=============================================================================

-------------------------------- MODULE File --------------------------------
(***************************************************************************)
(* An open file (src/file.rs): reads and seeks over the iterator           *)
(* FileBlocks.  An action is one call, with every outcome it can have.     *)
(*                                                                         *)
(* The bytes of a read are described by where they come from: the block    *)
(* and the offset in it, or Zero in a hole.  The iterator yields the items *)
(* of the file and then, if `fails`, an error; after that it has ended.    *)
(***************************************************************************)
EXTENDS Integers, Sequences

CONSTANTS BlockSize,
          Files,        \* the files to open
          BufLens,      \* lengths of the buffers passed to read_bytes
          Offsets,      \* offsets passed to seek
          MaxPosition   \* bound: no seek goes beyond it

FileType == [size : Nat, items : Seq(Nat), fails : BOOLEAN]

ASSUME FileAssumption ==
    /\ BlockSize \in Nat \ {0}
    /\ Files \subseteq FileType
    /\ BufLens \subseteq Nat
    /\ Offsets \subseteq Int
    /\ MaxPosition \in Nat

VARIABLES file,
          position,
          block_index,    \* the current block, or None
          taken,          \* calls of file_blocks.next() since the last reset
          result,         \* what the last call returned
          panicked

vars == <<file, position, block_index, taken, result, panicked>>

None == -1
Zero == <<0, 0>>
NoResult == [call |-> "none"]
Error == [call |-> "error"]

(* The iterator after n calls of next: the item of the call after those *)
HasItem(n) == n < Len(file.items)
Item(n) == file.items[n + 1]
IsError(n) == n = Len(file.items) /\ file.fails

Init ==
    /\ file \in Files
    /\ position = 0
    /\ block_index = None
    /\ taken = 0
    /\ result = NoResult
    /\ panicked = FALSE

-----------------------------------------------------------------------------
Minimum(a, b) == IF a <= b THEN a ELSE b
offset_within_block == position % BlockSize

(* The buffer is cut at the end of the file and at the end of the block. *)
read_len(len) ==
    Minimum(len, Minimum(file.size - position, BlockSize - offset_within_block))

Byte(block, offset) == IF block = 0 THEN Zero ELSE <<block, offset>>
BytesOf(block, n) ==
    [i \in 1 .. n |-> Byte(block, offset_within_block + i - 1)]

(* An empty buffer, or the end of the file: nothing is touched. *)
ReadNothing(len) ==
    /\ ~ panicked
    /\ len = 0 \/ position >= file.size
    /\ result' = [call |-> "read", from |-> position, len |-> len, data |-> <<>>]
    /\ UNCHANGED <<file, position, block_index, taken, panicked>>

CanRead(len) == ~ panicked /\ len > 0 /\ position < file.size

(* There is no current block and the iterator has no item: an error is     *)
(* returned once; None makes the unwrap panic.                             *)
ReadNoBlock(len) ==
    /\ CanRead(len)
    /\ block_index = None
    /\ ~ HasItem(taken)
    /\ IF IsError(taken)
       THEN result' = Error /\ taken' = taken + 1 /\ UNCHANGED panicked
       ELSE panicked' = TRUE /\ UNCHANGED <<result, taken>>
    /\ UNCHANGED <<file, position, block_index>>

(* The block that a read uses, and the iterator after it was fetched *)
HasBlock == block_index # None \/ HasItem(taken)
Block == IF block_index # None THEN block_index ELSE Item(taken)
TakenAfter == IF block_index # None THEN taken ELSE taken + 1

(* read_from_block fails: the block is kept for the next call. *)
ReadFails(len) ==
    /\ CanRead(len)
    /\ HasBlock
    /\ Block # 0
    /\ block_index' = Block
    /\ taken' = TakenAfter
    /\ result' = Error
    /\ UNCHANGED <<file, position, panicked>>

(* Mistake: the current block is not cleared at its end. *)
ReadBytesKeepBlock(len) ==
    /\ CanRead(len)
    /\ HasBlock
    /\ LET n == read_len(len)
       IN  /\ result' = [call |-> "read", from |-> position, len |-> len,
                         data |-> BytesOf(Block, n)]
           /\ block_index' = Block
           /\ position' = position + n
    /\ taken' = TakenAfter
    /\ UNCHANGED <<file, panicked>>

ReadBytes(len) ==
    /\ CanRead(len)
    /\ HasBlock
    /\ LET n == read_len(len)
       IN  /\ result' = [call |-> "read", from |-> position, len |-> len,
                         data |-> BytesOf(Block, n)]
           /\ block_index' = IF offset_within_block + n >= BlockSize
                             THEN None ELSE Block
           /\ position' = position + n
    /\ taken' = TakenAfter
    /\ UNCHANGED <<file, panicked>>

(* Mistake: one block too many is skipped for a position inside a block. *)
skip_blocks_rounding_up(p) == (p + BlockSize - 1) \div BlockSize

(* The iterator is advanced by the whole blocks in the position. *)
skip_blocks(p) == p \div BlockSize

(* The iterator starts again; its items, and its error, are dropped.  More *)
(* calls than it has items leave it ended.                                 *)
seek_to(p) ==
    /\ taken' = Minimum(skip_blocks(p), Len(file.items) + 1)
    /\ block_index' = None
    /\ position' = p

(* Seek::seek from the start, the end or the current position.  An offset  *)
(* before the start is refused.  FileBlocks::new succeeded on the same     *)
(* inode when the file was opened, so it succeeds again.                   *)
Seek(base, offset) ==
    /\ ~ panicked
    /\ base + offset <= MaxPosition
    /\ IF base + offset >= 0
       THEN seek_to(base + offset) /\ result' = NoResult
       ELSE result' = Error /\ UNCHANGED <<position, block_index, taken>>
    /\ UNCHANGED <<file, panicked>>

(* The caller's thread unwinds. *)
Stopped == panicked /\ UNCHANGED vars

Next ==
    \/ \E len \in BufLens :
          ReadNothing(len) \/ ReadNoBlock(len) \/ ReadFails(len) \/ ReadBytes(len)
    \/ \E offset \in Offsets :
          \/ Seek(0, offset) /\ offset >= 0
          \/ Seek(file.size, offset)
          \/ Seek(position, offset)
    \/ Stopped

Spec == Init /\ [][Next]_vars

-----------------------------------------------------------------------------
TypeOK ==
    /\ file \in FileType
    /\ position \in Nat
    /\ block_index \in Nat \cup {None}
    /\ taken \in 0 .. Len(file.items) + 1
    /\ panicked \in BOOLEAN

(* The byte of the file at p: the item for its block, at its offset. *)
FileByte(p) == Byte(file.items[p \div BlockSize + 1], p % BlockSize)

(* Any sequence of reads of any lengths, failed reads that are retried,    *)
(* and seeks forwards, backwards, into blocks and past the end returns the *)
(* bytes of the file at the position of the call; a read returns nothing   *)
(* only for an empty buffer or at the end of the file ("Returns `Ok(0)` if *)
(* the end of the file has been reached").                                 *)
ReadsFileContents ==
    result.call = "read" =>
        /\ \A i \in 1 .. Len(result.data) :
              /\ result.from + i <= file.size
              /\ (result.from + i - 1) \div BlockSize < Len(file.items)
              /\ result.data[i] = FileByte(result.from + i - 1)
        /\ result.data = <<>> <=> (result.len = 0 \/ result.from >= file.size)

(* The iterator and the position stay together: the current block is the   *)
(* one at the position, and without one the iterator is about to yield it. *)
InSync ==
    position < file.size /\ taken <= Len(file.items) =>
        IF block_index = None
        THEN taken = position \div BlockSize
        ELSE /\ taken = position \div BlockSize + 1
             /\ block_index = Item(position \div BlockSize)

(* The unwrap of the next block does not fail in a file whose iterator has *)
(* one item per block, however reads, failed reads and seeks alternate.    *)
CompleteFilesDoNotPanic ==
    Len(file.items) * BlockSize >= file.size => ~ panicked

(* "OK to unwrap: already checked that the position is not at the end of   *)
(* the file, so there must be at least one more block to read"             *)
(* (read_bytes).                                                           *)
NoPanic == ~ panicked
=============================================================================

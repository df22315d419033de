--------------------------- MODULE JournalLoader ----------------------------
(***************************************************************************)
(* Journal::load: the journal superblock is checked and BlockMapLoader     *)
(* (src/journal/block_map.rs) walks the blocks of the journal inode,       *)
(* building the map from filesystem blocks to the journal blocks that      *)
(* replace them.                                                           *)
(*                                                                         *)
(* A journal block is a record: its kind (what its header says, or that it *)
(* cannot be read at all), the sequence number of the header, whether its  *)
(* checksum is right and, depending on the kind, its tags or its table of  *)
(* revoked blocks.  Blocks are named by their position in the journal      *)
(* file; position 0 is the superblock.                                     *)
(***************************************************************************)
EXTENDS Integers, Sequences

CONSTANTS FsBlocks,       \* filesystem blocks that the journal may replace
          JournalLen,     \* number of blocks of the journal inode
          MaxSequence,    \* the largest sequence number (u32::MAX)
          Superblocks,    \* journal superblocks to load
          Logs            \* contents of the journal to load

Positions == 0 .. JournalLen - 1
Sequences == 0 .. MaxSequence

(* Corruption is the one class of error that only ends the journal. *)
ErrorClass == {"Corrupt", "Incompatible", "Io"}

(* A tag of a descriptor block: data_ok says that its checksum matches the *)
(* data block that follows, in the sequence of the descriptor.             *)
Tag == [block : FsBlocks, data_ok : BOOLEAN, escaped : BOOLEAN]

(* "none": no magic number (a data block, or never written).  "iter_error" *)
(* and "read_error": FileBlocks, or read_from_block, fails with `err`.     *)
(* tags_end: "last" if the final tag has LAST_TAG, "truncated" if the      *)
(* block ends first.  table_ok: the size of a revocation table is valid.   *)
JournalBlock ==
    [kind : {"none", "descriptor", "revocation", "commit", "other",
             "iter_error", "read_error"},
     sequence : Sequences, sum_ok : BOOLEAN,
     tags : Seq(Tag), tags_end : {"last", "truncated"},
     revoked : SUBSET FsBlocks, table_ok : BOOLEAN,
     err : {"Corrupt", "Io"}]

(* The journal inode and superblock: whether there is one, whether it can  *)
(* be read, and what JournalSuperblock::read_bytes looks at.               *)
Superblock ==
    [present : BOOLEAN, io : {"ok", "Corrupt", "Io"}, magic : BOOLEAN,
     v2 : BOOLEAN, required : BOOLEAN, unsupported : BOOLEAN,
     crc32c : BOOLEAN, sum_ok : BOOLEAN, size_ok : BOOLEAN,
     sequence : Sequences, start_block : Nat]

ASSUME JournalAssumption ==
    /\ JournalLen \in Nat
    /\ MaxSequence \in Nat
    /\ Superblocks \subseteq Superblock
    /\ Logs \subseteq [Positions -> JournalBlock]

VARIABLES superblock,
          log,                     \* position -> journal block
          pc,                      \* "superblock", "skip", "next", "tags",
                                   \* "ok" or "err"
          error,                   \* class of the error of a failed load
          pos,                     \* next position of journal_block_iter
          iter_done,                 \* journal_block_iter has ended
          block_index,             \* position of the current block
          tag,                     \* tags of the descriptor already processed
          block_map,
          uncommitted_block_map,
          revoked_blocks,
          sequence

input == <<superblock, log>>
maps == <<block_map, uncommitted_block_map, revoked_blocks, sequence>>
vars == <<input, pc, error, pos, iter_done, block_index, tag, maps>>

Absent == -1
NoBlocks == [b \in FsBlocks |-> Absent]

Init ==
    /\ superblock \in Superblocks
    /\ log \in Logs
    /\ pc = "superblock"
    /\ error = "none"
    /\ pos = 0
    /\ iter_done = FALSE
    /\ block_index = 0
    /\ tag = 0
    /\ block_map = NoBlocks
    /\ uncommitted_block_map = NoBlocks
    /\ revoked_blocks = {}
    /\ sequence = 0

-----------------------------------------------------------------------------
(* The three ways in which a step can end the load. *)
Finish == pc' = "ok" /\ UNCHANGED error
Fail(class) == pc' = "err" /\ error' = class

(* Mistake: every error only ends the journal. *)
StopAlways(class) == Finish

(* Any error met inside process_next: corruption ends the journal, with    *)
(* what was committed before; anything else fails the load.                *)
Stop(class) == IF class = "Corrupt" THEN Finish ELSE Fail(class)

(* check_incompat_features and the other checks of                         *)
(* JournalSuperblock::read_bytes and load, in the order of the code.       *)
superblock_error(sb) ==
    CASE sb.io # "ok"                    -> sb.io
      [] sb.io = "ok" /\ ~ sb.magic      -> "Corrupt"
      [] sb.io = "ok" /\ sb.magic /\ (~ sb.v2 \/ ~ sb.required
                          \/ sb.unsupported \/ ~ sb.crc32c) -> "Incompatible"
      [] sb.io = "ok" /\ sb.magic /\ sb.v2 /\ sb.required
           /\ ~ sb.unsupported /\ sb.crc32c
           /\ (~ sb.sum_ok \/ ~ sb.size_ok) -> "Corrupt"
      [] OTHER                           -> "none"

(* Journal::load up to the loop: no journal inode, an empty map; a         *)
(* superblock that cannot be used fails the load, corrupt or not.          *)
LoadSuperblock ==
    /\ pc = "superblock"
    /\ IF ~ superblock.present
       THEN Finish /\ UNCHANGED sequence
       ELSE IF superblock_error(superblock) # "none"
            THEN Fail(superblock_error(superblock)) /\ UNCHANGED sequence
            ELSE /\ pc' = "skip"
                 /\ sequence' = superblock.sequence
                 /\ UNCHANGED error
    /\ UNCHANGED <<input, pos, iter_done, block_index, tag, block_map,
                   uncommitted_block_map, revoked_blocks>>

(* The first call of next on Skip<FileBlocks> drops start_block items.  An *)
(* error among them is dropped like any other item, and FileBlocks ends    *)
(* after an error.                                                         *)
SkipToStart ==
    /\ pc = "skip"
    /\ LET start == superblock.start_block
           failed == \E p \in Positions : p < start /\ log[p].kind = "iter_error"
       IN  /\ iter_done' = (failed \/ start >= JournalLen)
           /\ pos' = IF iter_done' THEN pos ELSE start
    /\ pc' = "next"
    /\ UNCHANGED <<input, error, block_index, tag, maps>>

-----------------------------------------------------------------------------
(* The loop of load_block_map: one action per kind of journal block. *)
AtEnd == iter_done \/ pos >= JournalLen

EndOfJournal ==
    /\ pc = "next"
    /\ AtEnd
    /\ Finish
    /\ UNCHANGED <<input, pos, iter_done, block_index, tag, maps>>

(* The `?` on the item of the iterator is outside process_next: whatever   *)
(* the class of the error, it fails the load.                              *)
IterError ==
    /\ pc = "next"
    /\ ~ AtEnd
    /\ log[pos].kind = "iter_error"
    /\ Fail(log[pos].err)
    /\ iter_done' = TRUE
    /\ UNCHANGED <<input, pos, block_index, tag, maps>>

(* process_next for a block that the iterator yielded *)
Take ==
    /\ pc = "next"
    /\ ~ AtEnd
    /\ log[pos].kind # "iter_error"
    /\ block_index' = pos
    /\ pos' = pos + 1
    /\ UNCHANGED <<input, iter_done>>

ReadError ==
    /\ Take
    /\ log[pos].kind = "read_error"
    /\ Stop(log[pos].err)
    /\ UNCHANGED <<tag, maps>>

NoMagic ==
    /\ Take
    /\ log[pos].kind = "none"
    /\ Finish
    /\ UNCHANGED <<tag, maps>>

HasHeader == log[pos].kind \notin {"iter_error", "read_error", "none"}

WrongSequence ==
    /\ Take
    /\ HasHeader
    /\ log[pos].sequence # sequence
    /\ Stop("Corrupt")
    /\ UNCHANGED <<tag, maps>>

(* Mistake: the sequence number is not compared. *)
ProcessAnySequence(kind) ==
    /\ Take
    /\ log[pos].kind = kind

(* A block of the expected transaction with the given type *)
Process(kind) ==
    /\ Take
    /\ log[pos].kind = kind
    /\ log[pos].sequence = sequence

(* Mistake: the type is checked before the sequence number. *)
UnknownTypeFirst ==
    /\ Take
    /\ log[pos].kind = "other"
    /\ Stop("Incompatible")
    /\ UNCHANGED <<tag, maps>>

UnknownType ==
    /\ Process("other")
    /\ Stop("Incompatible")
    /\ UNCHANGED <<tag, maps>>

BadBlock ==
    /\ Process("descriptor") \/ Process("revocation") \/ Process("commit")
    /\ ~ log[pos].sum_ok \/ (log[pos].kind = "revocation" /\ ~ log[pos].table_ok)
    /\ Stop("Corrupt")
    /\ UNCHANGED <<tag, maps>>

process_descriptor_block ==
    /\ Process("descriptor")
    /\ log[pos].sum_ok
    /\ pc' = "tags"
    /\ tag' = 0
    /\ UNCHANGED <<error, maps>>

process_revocation_block ==
    /\ Process("revocation")
    /\ log[pos].sum_ok
    /\ log[pos].table_ok
    /\ revoked_blocks' = revoked_blocks \cup log[pos].revoked
    /\ UNCHANGED <<pc, error, tag, block_map, uncommitted_block_map, sequence>>

(* Mistake: an entry of an earlier transaction is not replaced. *)
CommitKeepsOldest ==
    /\ Process("commit")
    /\ log[pos].sum_ok
    /\ block_map' =
         [b \in FsBlocks |->
            IF uncommitted_block_map[b] # Absent /\ b \notin revoked_blocks /\ block_map[b] = Absent
            THEN uncommitted_block_map[b] ELSE block_map[b]]
    /\ uncommitted_block_map' = NoBlocks
    /\ revoked_blocks' = {}
    /\ IF sequence = MaxSequence
       THEN Stop("Corrupt") /\ UNCHANGED sequence
       ELSE sequence' = sequence + 1 /\ UNCHANGED <<pc, error>>
    /\ UNCHANGED tag

(* The revoked blocks of this transaction are dropped from what it         *)
(* commits.  The map is extended before the sequence number can overflow.  *)
process_commit_block ==
    /\ Process("commit")
    /\ log[pos].sum_ok
    /\ block_map' =
         [b \in FsBlocks |->
            IF uncommitted_block_map[b] # Absent /\ b \notin revoked_blocks
            THEN uncommitted_block_map[b] ELSE block_map[b]]
    /\ uncommitted_block_map' = NoBlocks
    /\ revoked_blocks' = {}
    /\ IF sequence = MaxSequence
       THEN Stop("Corrupt") /\ UNCHANGED sequence
       ELSE sequence' = sequence + 1 /\ UNCHANGED <<pc, error>>
    /\ UNCHANGED tag

-----------------------------------------------------------------------------
(* The loop over the tags of the descriptor block at block_index. *)
Descriptor == log[block_index]
NextTag == Descriptor.tags[tag + 1]

(* Mistake: the iterator over the tags never ends when the last tag is     *)
(* missing.                                                                *)
TagsDoneNever ==
    /\ pc = "tags"
    /\ tag = Len(Descriptor.tags)
    /\ pc' = IF Descriptor.tags_end = "last" THEN "next" ELSE pc
    /\ UNCHANGED <<input, error, pos, iter_done, block_index, tag, maps>>

TagsDone ==
    /\ pc = "tags"
    /\ tag = Len(Descriptor.tags)
    /\ IF Descriptor.tags_end = "last"
       THEN pc' = "next" /\ UNCHANGED error
       ELSE Stop("Corrupt")
    /\ UNCHANGED <<input, pos, iter_done, block_index, tag, maps>>

TagEscaped ==
    /\ pc = "tags"
    /\ tag < Len(Descriptor.tags)
    /\ NextTag.escaped
    /\ Stop("Incompatible")
    /\ UNCHANGED <<input, pos, iter_done, block_index, tag, maps>>

TagTruncated ==
    /\ pc = "tags"
    /\ tag < Len(Descriptor.tags)
    /\ ~ NextTag.escaped
    /\ AtEnd
    /\ Stop("Corrupt")
    /\ UNCHANGED <<input, pos, iter_done, block_index, tag, maps>>

(* Here the error of the iterator is inside process_next. *)
TagIterError ==
    /\ pc = "tags"
    /\ tag < Len(Descriptor.tags)
    /\ ~ NextTag.escaped
    /\ ~ AtEnd
    /\ log[pos].kind = "iter_error"
    /\ Stop(log[pos].err)
    /\ iter_done' = TRUE
    /\ UNCHANGED <<input, pos, block_index, tag, maps>>

TagData ==
    /\ pc = "tags"
    /\ tag < Len(Descriptor.tags)
    /\ ~ NextTag.escaped
    /\ ~ AtEnd
    /\ log[pos].kind # "iter_error"
    /\ pos' = pos + 1
    /\ IF log[pos].kind = "read_error"
       THEN Stop(log[pos].err) /\ UNCHANGED <<tag, uncommitted_block_map>>
       ELSE IF ~ NextTag.data_ok
       THEN Stop("Corrupt") /\ UNCHANGED <<tag, uncommitted_block_map>>
       ELSE /\ uncommitted_block_map' =
                 [uncommitted_block_map EXCEPT ![NextTag.block] = pos]
            /\ tag' = tag + 1
            /\ UNCHANGED <<pc, error>>
    /\ UNCHANGED <<input, iter_done, block_index, block_map, revoked_blocks,
                   sequence>>

-----------------------------------------------------------------------------
Step ==
    \/ LoadSuperblock
    \/ SkipToStart
    \/ EndOfJournal
    \/ IterError
    \/ ReadError
    \/ NoMagic
    \/ WrongSequence
    \/ UnknownType
    \/ BadBlock
    \/ process_descriptor_block
    \/ process_revocation_block
    \/ process_commit_block
    \/ TagsDone
    \/ TagEscaped
    \/ TagTruncated
    \/ TagIterError
    \/ TagData

Loaded == pc \in {"ok", "err"}

(* load has returned *)
Done == Loaded /\ UNCHANGED vars

Next == Step \/ Done

Spec == Init /\ [][Next]_vars

-----------------------------------------------------------------------------
BlockMap == [FsBlocks -> Positions \cup {Absent}]

TypeOK ==
    /\ superblock \in Superblock
    /\ log \in [Positions -> JournalBlock]
    /\ pc \in {"superblock", "skip", "next", "tags", "ok", "err"}
    /\ error \in ErrorClass \cup {"none"}
    /\ pos \in 0 .. JournalLen
    /\ iter_done \in BOOLEAN
    /\ block_index \in 0 .. JournalLen
    /\ tag \in Nat
    /\ block_map \in BlockMap
    /\ uncommitted_block_map \in BlockMap
    /\ revoked_blocks \in SUBSET FsBlocks
    /\ sequence \in Sequences

(* Position p holds the data that an intact descriptor block before it,    *)
(* of transaction s, says will replace filesystem block b.                 *)
JournaledIn(b, p, s) ==
    \E d \in Positions :
        /\ superblock.start_block <= d /\ d < p
        /\ log[d].kind = "descriptor" /\ log[d].sum_ok
        /\ log[d].sequence = s
        /\ p - d \in 1 .. Len(log[d].tags)
        /\ log[d].tags[p - d].block = b
        /\ log[d].tags[p - d].data_ok

(* Transaction s has an intact commit block after p that was read.         *)
CommittedAfter(p, s) ==
    \E c \in Positions :
        /\ p < c /\ c < pos
        /\ log[c].kind = "commit" /\ log[c].sum_ok /\ log[c].sequence = s

(* Whatever the journal holds, nothing becomes visible through it but the  *)
(* checksummed data of a transaction that was committed: not the data of   *)
(* an incomplete transaction, of one that a bad block interrupts, or of an *)
(* older pass over the journal (an earlier sequence number).               *)
OnlyCommitted ==
    \A b \in FsBlocks : block_map[b] # Absent =>
        \E s \in Sequences : /\ superblock.sequence <= s
                             /\ JournaledIn(b, block_map[b], s)
                             /\ CommittedAfter(block_map[b], s)

(* What the transaction being read has collected is journaled in it, and   *)
(* while tags are processed the iterator is exactly at the data block of   *)
(* the next tag.                                                           *)
CollectInv ==
    /\ \A b \in FsBlocks : uncommitted_block_map[b] # Absent =>
          /\ JournaledIn(b, uncommitted_block_map[b], sequence)
          /\ uncommitted_block_map[b] < pos
    /\ pc = "tags" =>
          /\ block_index \in Positions
          /\ superblock.start_block <= block_index
          /\ Descriptor.kind = "descriptor" /\ Descriptor.sum_ok
          /\ Descriptor.sequence = sequence
          /\ tag <= Len(Descriptor.tags)
          /\ pos = block_index + tag + 1

(* A usable superblock was found: the log was, or is being, read. *)
Reading == superblock.present /\ superblock_error(superblock) = "none"

(* "Propagate any other type of error" (load_block_map): if the load       *)
(* succeeds, none of the blocks it consumed failed with an I/O error.      *)
IoErrorsPropagate ==
    pc = "ok" /\ Reading =>
        \A p \in Positions :
            superblock.start_block <= p /\ p < pos
                => ~ (log[p].kind = "read_error" /\ log[p].err = "Io")
=============================================================================

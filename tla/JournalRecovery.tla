-------------------------- MODULE JournalRecovery ---------------------------
(***************************************************************************)
(* The journal loader composed with the program that writes the journal    *)
(* (jbd2, not part of this repository) and a crash.  The writer commits    *)
(* transactions to the log, writes blocks back in place, and may stop at   *)
(* any moment, in the middle of a transaction too; then JournalLoader      *)
(* reads what is on disk.  A disk may also be damaged: then the superblock *)
(* and the log are any of Superblocks and Logs.                            *)
(*                                                                         *)
(* The writer is modelled only as far as the loader depends on it: the     *)
(* blocks of a transaction are its revocations, a descriptor with one tag  *)
(* per data block, the data blocks, and last, once all the others are on   *)
(* disk, the commit block; blocks of earlier passes stay in the log until  *)
(* they are overwritten.                                                   *)
(***************************************************************************)
EXTENDS JournalLoader, Functions

CONSTANTS MaxWrites,            \* bound on the versions of blocks written
          RevokeLoggedBlocks,   \* may a block still in the log be revoked?
          WrapLog               \* may the log continue at its beginning?

ASSUME RecoveryAssumption ==
    /\ MaxWrites \in Nat
    /\ RevokeLoggedBlocks \in BOOLEAN
    /\ WrapLog \in BOOLEAN

VARIABLES damaged,   \* the journal is not what the writer left
          running,   \* the writer has not stopped yet
          home,      \* contents of every block, in place
          truth,     \* contents as of the last commit or in-place write
          jdata,     \* contents of the data blocks in the journal
          head,      \* where the next transaction goes
          used,      \* number of blocks of the log that are in use
          inlog,     \* blocks with a live copy in the log
          tid,       \* sequence number of the next transaction
          version    \* the last version of a block that was written

writerVars == <<running, home, truth, jdata, head, used, inlog, tid, version>>
loaderVars == <<pc, error, pos, iter_done, block_index, tag, maps>>
recoveryVars == <<input, loaderVars, writerVars, damaged>>

Blank == [kind |-> "none", sequence |-> 0, sum_ok |-> TRUE, tags |-> <<>>,
          tags_end |-> "last", revoked |-> {}, table_ok |-> TRUE,
          err |-> "Corrupt"]

(* The block of the journal superblock itself, whose header has sequence   *)
(* number 0, and a journal that nothing was written to.                    *)
BlankLog == [p \in Positions |->
                IF p = 0 THEN [Blank EXCEPT !.kind = "other"] ELSE Blank]
CleanSuperblock ==
    [present |-> TRUE, io |-> "ok", magic |-> TRUE, v2 |-> TRUE,
     required |-> TRUE, unsupported |-> FALSE, crc32c |-> TRUE,
     sum_ok |-> TRUE, size_ok |-> TRUE, sequence |-> 1, start_block |-> 0]

RecoveryInit ==
    /\ Init
    /\ running \in BOOLEAN
    /\ running => superblock = CleanSuperblock /\ log = BlankLog
    /\ damaged = ~ running
    /\ home = [b \in FsBlocks |-> 0]
    /\ truth = [b \in FsBlocks |-> 0]
    /\ jdata = [p \in Positions |-> 0]
    /\ head = 1
    /\ used = 0
    /\ inlog = {}
    /\ tid = 1
    /\ version = 0

-----------------------------------------------------------------------------
(* Position of the i-th block of a transaction written at head, and the    *)
(* inverse: after the last block comes the first one after the superblock. *)
At(i) == IF head + i < JournalLen THEN head + i ELSE head + i - (JournalLen - 1)
Offset(p) == IF head <= p THEN p - head ELSE p - head + (JournalLen - 1)

(* The blocks of transaction tid that replaces `writes` (a sequence of     *)
(* blocks) and revokes `revokes`; `present` are the data blocks that are   *)
(* on disk.                                                                *)
RevocationBlock(revokes) ==
    [Blank EXCEPT !.kind = "revocation", !.sequence = tid, !.revoked = revokes]
DescriptorBlock(writes, present) ==
    [Blank EXCEPT !.kind = "descriptor", !.sequence = tid,
                  !.tags = [k \in DOMAIN writes |->
                              [block |-> writes[k], data_ok |-> k \in present,
                               escaped |-> FALSE]]]
CommitBlock == [Blank EXCEPT !.kind = "commit", !.sequence = tid]

RevokePart(revokes) == IF revokes = {} THEN <<>> ELSE <<RevocationBlock(revokes)>>

Transaction(writes, revokes, present) ==
    RevokePart(revokes) \o <<DescriptorBlock(writes, present)>>
        \o [k \in DOMAIN writes |-> Blank] \o <<CommitBlock>>

(* There is room for n blocks and, unless WrapLog, the live part of the    *)
(* log stays in one piece (head is back at 1 when the last block is used). *)
Fits(n) == /\ used + n <= JournalLen - 1
           /\ WrapLog \/ (/\ head >= superblock.start_block
                          /\ head + n <= JournalLen)

(* What may be revoked: blocks the transaction does not write and, unless  *)
(* RevokeLoggedBlocks, without a live copy in the log.                     *)
MayRevoke(revokes, writes) ==
    /\ revokes \cap Range(writes) = {}
    /\ RevokeLoggedBlocks \/ revokes \cap inlog = {}

(* The first transaction in an empty log is recorded in the superblock     *)
(* before any of its blocks is written.                                    *)
Activated == IF superblock.start_block = 0
             THEN [superblock EXCEPT !.start_block = head, !.sequence = tid]
             ELSE superblock

(* A transaction is written completely. *)
CommitTransaction(writes, revokes) ==
    LET txn == Transaction(writes, revokes, DOMAIN writes)
        first == Len(RevokePart(revokes)) + 1
    IN  /\ running
        /\ tid < MaxSequence
        /\ version + Len(writes) <= MaxWrites
        /\ Fits(Len(txn))
        /\ MayRevoke(revokes, writes)
        /\ log' = [p \in Positions |-> IF p > 0 /\ Offset(p) < Len(txn)
                                       THEN txn[Offset(p) + 1] ELSE log[p]]
        /\ jdata' = [p \in Positions |->
                        IF p > 0 /\ Offset(p) - first + 1 \in DOMAIN writes
                        THEN version + (Offset(p) - first + 1) ELSE jdata[p]]
        /\ truth' = [b \in FsBlocks |->
                        IF b \in Range(writes)
                        THEN version + (CHOOSE k \in DOMAIN writes : writes[k] = b)
                        ELSE truth[b]]
        /\ superblock' = Activated
        /\ inlog' = (inlog \ revokes) \cup Range(writes)
        /\ head' = At(Len(txn))
        /\ used' = used + Len(txn)
        /\ tid' = tid + 1
        /\ version' = version + Len(writes)
        /\ UNCHANGED <<loaderVars, running, home>>

(* The writer stops while it writes a transaction: any of its blocks but   *)
(* the commit block may have reached the disk.                             *)
CrashInTransaction(writes, revokes, ondisk) ==
    LET first == Len(RevokePart(revokes)) + 1
        txn == Transaction(writes, revokes,
                           {k \in DOMAIN writes : first + k \in ondisk})
    IN  /\ running
        /\ Fits(Len(txn))
        /\ MayRevoke(revokes, writes)
        /\ ondisk \subseteq 1 .. Len(txn) - 1
        /\ log' = [p \in Positions |-> IF p > 0 /\ Offset(p) + 1 \in ondisk
                                       THEN txn[Offset(p) + 1] ELSE log[p]]
        /\ superblock' = Activated
        /\ running' = FALSE
        /\ UNCHANGED <<loaderVars, home, truth, jdata, head, used,
                       inlog, tid, version>>

(* The writer stops between two transactions. *)
Crash ==
    /\ running
    /\ running' = FALSE
    /\ UNCHANGED <<input, loaderVars, home, truth, jdata, head, used, inlog,
                   tid, version>>

(* A block is written back in place; its copy stays in the log. *)
WriteBack(b) ==
    /\ running
    /\ b \in inlog
    /\ home[b] # truth[b]
    /\ home' = [home EXCEPT ![b] = truth[b]]
    /\ UNCHANGED <<input, loaderVars, running, truth, jdata, head, used,
                   inlog, tid, version>>

(* File data is not journaled: a block without a live copy in the log, for *)
(* example one that was just revoked, is reused and written in place.      *)
WriteInPlace(b) ==
    /\ running
    /\ b \notin inlog
    /\ version < MaxWrites
    /\ version' = version + 1
    /\ home' = [home EXCEPT ![b] = version']
    /\ truth' = [truth EXCEPT ![b] = version']
    /\ UNCHANGED <<input, loaderVars, running, jdata, head, used, inlog, tid>>

(* Everything is in place: the log is emptied.  Its blocks stay on disk    *)
(* and the next transaction goes after them.                               *)
Checkpoint ==
    /\ running
    /\ superblock.start_block # 0
    /\ home = truth
    /\ superblock' = [superblock EXCEPT !.start_block = 0, !.sequence = tid]
    /\ inlog' = {}
    /\ used' = 0
    /\ UNCHANGED <<loaderVars, log, running, home, truth, jdata, head, tid,
                   version>>

(* Mounting a clean filesystem again: the next transaction goes to the     *)
(* beginning of the log, over the blocks of older ones.                    *)
Remount ==
    /\ running
    /\ superblock.start_block = 0
    /\ head # 1
    /\ head' = 1
    /\ UNCHANGED <<input, loaderVars, running, home, truth, jdata, used, inlog,
                   tid, version>>

(* The loader runs on what the crash left. *)
Load == ~ running /\ Step /\ UNCHANGED <<writerVars, damaged>>

LoadDone == ~ running /\ Loaded /\ UNCHANGED recoveryVars

Writes == {<<b>> : b \in FsBlocks}
            \cup {<<b, c>> : b \in FsBlocks, c \in FsBlocks}
DistinctWrites == {w \in Writes : IsInjective(w)}

Write ==
    /\ running
    /\ \/ \E writes \in DistinctWrites, revokes \in SUBSET FsBlocks :
             \/ CommitTransaction(writes, revokes)
             \/ \E ondisk \in SUBSET (1 .. Len(writes) + 2) :
                   CrashInTransaction(writes, revokes, ondisk)
       \/ Crash
       \/ \E b \in FsBlocks : WriteBack(b) \/ WriteInPlace(b)
       \/ Checkpoint
       \/ Remount
    /\ UNCHANGED damaged

RecoveryNext == Write \/ Load \/ LoadDone

(* load is one call that runs without waiting for anything. *)
RecoverySpec == RecoveryInit /\ [][RecoveryNext]_recoveryVars /\ WF_recoveryVars(Load)

-----------------------------------------------------------------------------
(* What a reader of block b sees: Journal::map_block_index, then the data. *)
map_block_index(b) == block_map[b]
View(b) == IF map_block_index(b) = Absent THEN home[b]
           ELSE jdata[map_block_index(b)]

(* "Added support for reading filesystems that weren't cleanly unmounted"  *)
(* (CHANGELOG.md): once the journal is loaded, every block reads as it was *)
(* at the last commit before the crash, however much of a further          *)
(* transaction, of write-back and of older log contents is on disk.        *)
RecoversCommitted == pc = "ok" /\ ~ damaged => \A b \in FsBlocks : View(b) = truth[b]

(* "All valid ext2/ext3/ext4 filesystems should be readable" (README.md):  *)
(* loading the journal of a filesystem that was not cleanly unmounted      *)
(* never fails.                                                            *)
JournalLoads == ~ damaged => pc # "err"

(* "Invalid data should never cause ... non-terminating loops" (README):   *)
(* whatever the journal holds, and wherever the crash was, load returns.   *)
RecoveryEnds == ~ running ~> Loaded
=============================================================================

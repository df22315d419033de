---------------------------- MODULE JournalProofs ----------------------------
(***************************************************************************)
(* Proofs about the journal.  First JournalLoader, for every journal:      *)
(* whatever the superblock and the log hold, only committed data becomes   *)
(* visible.  Then JournalRecovery, the loader on the log that the writer   *)
(* and a crash left: it succeeds and gives back what was committed.        *)
(***************************************************************************)
EXTENDS JournalRecovery, TLAPS

(* Where the loader is: nothing is collected before the loop, the iterator *)
(* is never before the start block, and sequence numbers only grow.        *)
PhaseInv ==
    /\ pc \in {"superblock", "skip"} =>
          block_map = NoBlocks /\ uncommitted_block_map = NoBlocks
    /\ pc \in {"next", "tags"} =>
          /\ superblock.sequence <= sequence
          /\ ~ iter_done => superblock.start_block <= pos
    /\ pc = "skip" => superblock.sequence = sequence

IInv == TypeOK /\ PhaseInv /\ CollectInv /\ OnlyCommitted

(* A block that is not in the empty map is mapped to nothing. *)
LEMMA EmptyMap == NoBlocks \in BlockMap /\ \A b \in FsBlocks : NoBlocks[b] = Absent
  BY Zenon DEF NoBlocks, BlockMap

(* The initial state satisfies the inductive invariant. *)
LEMMA InitIInv == Init => IInv
<1> SUFFICES ASSUME Init PROVE IInv
  BY Zenon
<1>1. TypeOK
  <2>1. superblock \in Superblock /\ log \in [Positions -> JournalBlock]
    BY JournalAssumption, Zenon DEF Init
  <2>2. block_map \in BlockMap /\ uncommitted_block_map \in BlockMap
    BY EmptyMap, Zenon DEF Init
  <2>3. iter_done \in BOOLEAN
    BY Zenon DEF Init
  <2>4. /\ pos \in 0 .. JournalLen /\ block_index \in 0 .. JournalLen
        /\ tag \in Nat /\ sequence \in Sequences
    BY JournalAssumption DEF Init, Sequences
  <2>5. /\ pc \in {"superblock", "skip", "next", "tags", "ok", "err"}
        /\ error \in ErrorClass \cup {"none"}
        /\ revoked_blocks \in SUBSET FsBlocks
    BY Zenon DEF Init
  <2> QED
    BY <2>1, <2>2, <2>3, <2>4, <2>5, Zenon DEF TypeOK
<1>2. PhaseInv /\ CollectInv /\ OnlyCommitted
  BY Zenon, EmptyMap DEF Init, PhaseInv, CollectInv, OnlyCommitted
<1> QED
  BY Zenon, <1>1, <1>2 DEF IInv

(* Reading on does not undo a commit: a step that leaves the journal and   *)
(* the map alone and does not move the iterator back keeps OnlyCommitted.  *)
LEMMA OnlyCommittedKept ==
  ASSUME TypeOK, OnlyCommitted, UNCHANGED <<superblock, log, block_map>>,
         pos' \in Nat, pos <= pos'
  PROVE  OnlyCommitted'
<1> SUFFICES ASSUME NEW b \in FsBlocks, block_map[b] # Absent
             PROVE  \E s \in Sequences : /\ superblock.sequence <= s
                                         /\ JournaledIn(b, block_map[b], s)'
                                         /\ CommittedAfter(block_map[b], s)'
  BY Zenon DEF OnlyCommitted
<1>1. PICK s \in Sequences : /\ superblock.sequence <= s
                             /\ JournaledIn(b, block_map[b], s)
                             /\ CommittedAfter(block_map[b], s)
  BY Zenon DEF OnlyCommitted
<1>2. JournaledIn(b, block_map[b], s)'
  BY Zenon, <1>1 DEF JournaledIn
<1>3. CommittedAfter(block_map[b], s)'
  <2>1. PICK c \in Positions :
           /\ block_map[b] < c /\ c < pos
           /\ log[c].kind = "commit" /\ log[c].sum_ok /\ log[c].sequence = s
    BY Zenon, <1>1 DEF CommittedAfter
  <2>2. c < pos'
    BY <2>1, JournalAssumption DEF TypeOK, Positions
  <2> QED
    BY Zenon, <2>1, <2>2 DEF CommittedAfter
<1> QED
  BY Zenon, <1>1, <1>2, <1>3

(* The same for what the current transaction has collected. *)
LEMMA CollectedKept ==
  ASSUME TypeOK, CollectInv,
         UNCHANGED <<superblock, log, uncommitted_block_map, sequence>>,
         pos' \in Nat, pos <= pos',
         NEW b \in FsBlocks, uncommitted_block_map[b] # Absent
  PROVE  /\ JournaledIn(b, uncommitted_block_map[b], sequence)'
         /\ (uncommitted_block_map[b] < pos)'
<1>1. /\ JournaledIn(b, uncommitted_block_map[b], sequence)
      /\ uncommitted_block_map[b] < pos
  BY Zenon DEF CollectInv
<1>2. uncommitted_block_map[b] \in Int
  BY JournalAssumption DEF TypeOK, BlockMap, Positions, Absent
<1>3. pos \in Int
  BY JournalAssumption DEF TypeOK
<1> QED
  BY <1>1, <1>2, <1>3 DEF JournaledIn

(* A block of the log has the fields of its type. *)
LEMMA BlockType ==
  ASSUME TypeOK, NEW p \in Positions
  PROVE  /\ log[p].err \in {"Corrupt", "Io"}
         /\ log[p].revoked \subseteq FsBlocks
         /\ log[p].sequence \in Sequences
         /\ log[p].tags \in Seq(Tag)
<1>1. log[p] \in JournalBlock
  BY Zenon DEF TypeOK
<1> QED
  BY Zenon, <1>1 DEF JournalBlock

(* The iterator is within the journal when it has not ended. *)
LEMMA Within ==
  ASSUME TypeOK, ~ AtEnd
  PROVE  pos \in Positions /\ pos + 1 \in 0 .. JournalLen /\ ~ iter_done
  BY JournalAssumption DEF TypeOK, AtEnd, Positions

(* An ended load is either a success or a failure with a class. *)
LEMMA StopType ==
  ASSUME TypeOK, NEW class \in ErrorClass, Stop(class)
  PROVE  pc' \in {"ok", "err"} /\ error' \in ErrorClass \cup {"none"}
  BY Zenon DEF TypeOK, Stop, Finish, Fail

(* The steps that end the load, or go on without touching the maps. *)
Quiet ==
    /\ UNCHANGED <<input, maps>>
    /\ pos' \in 0 .. JournalLen /\ pos <= pos'
    /\ pc' \in {"ok", "err"}
    /\ error' \in ErrorClass \cup {"none"}
    /\ iter_done' \in BOOLEAN
    /\ block_index' \in 0 .. JournalLen
    /\ tag' \in Nat

(* Ending the load keeps the inductive invariant. *)
LEMMA QuietIInv == IInv /\ Quiet => IInv'
<1> SUFFICES ASSUME IInv, Quiet PROVE IInv'
  BY Zenon
<1> USE DEF IInv
<1>0. pos' \in Nat /\ pos <= pos'
  BY JournalAssumption DEF Quiet
<1>1. TypeOK'
  BY Zenon DEF TypeOK, Quiet, input, maps
<1>2. PhaseInv'
  BY Zenon DEF PhaseInv, Quiet
<1>3. CollectInv'
  BY Zenon, <1>0, CollectedKept DEF CollectInv, Quiet, input, maps
<1>4. OnlyCommitted'
  BY Zenon, <1>0, OnlyCommittedKept DEF Quiet, input, maps
<1> QED
  BY Zenon, <1>1, <1>2, <1>3, <1>4

(* Ending the load is Quiet for the steps outside and inside the tag loop. *)
LEMMA EndingSteps ==
  ASSUME IInv,
         \/ EndOfJournal \/ IterError \/ ReadError \/ NoMagic \/ WrongSequence
         \/ UnknownType \/ BadBlock \/ TagEscaped \/ TagTruncated \/ TagIterError
  PROVE  IInv'
<1> USE DEF IInv
<1>0. /\ pos \in 0 .. JournalLen /\ pos <= pos /\ tag \in Nat /\ JournalLen \in Nat
      /\ block_index \in 0 .. JournalLen /\ iter_done \in BOOLEAN
      /\ error \in ErrorClass \cup {"none"}
  BY JournalAssumption DEF TypeOK
<1>1. ASSUME NEW class \in ErrorClass, Take, Stop(class), UNCHANGED <<tag, maps>>
      PROVE  IInv'
  <2>1. pos \in Positions /\ pos + 1 \in 0 .. JournalLen
    BY Zenon, <1>1, Within DEF Take
  <2>2. /\ pos' \in 0 .. JournalLen /\ pos <= pos'
        /\ block_index' \in 0 .. JournalLen
    BY <1>0, <1>1, <2>1 DEF Take, Positions
  <2>3. pc' \in {"ok", "err"} /\ error' \in ErrorClass \cup {"none"}
    BY Zenon, <1>1, StopType
  <2> QED
    BY <1>0, <1>1, <2>2, <2>3, QuietIInv, Zenon DEF Quiet, Take
<1>2. "Corrupt" \in ErrorClass /\ "Incompatible" \in ErrorClass /\ "Io" \in ErrorClass
  BY Zenon DEF ErrorClass
<1>3. CASE EndOfJournal
  BY Zenon, <1>0, <1>3, QuietIInv DEF EndOfJournal, Finish, Quiet
<1>4. CASE IterError
  <2>1. log[pos].err \in ErrorClass
    BY Zenon, <1>4, Within, BlockType DEF IterError, ErrorClass
  <2> QED
    BY <1>0, <1>4, <2>1, QuietIInv, Zenon DEF IterError, Fail, Quiet
<1>5. CASE ReadError
  <2>1. log[pos].err \in ErrorClass
    BY Zenon, <1>5, Within, BlockType DEF ReadError, Take, ErrorClass
  <2> QED
    BY <1>1, <1>5, <2>1, Zenon DEF ReadError
<1>6. CASE NoMagic
  BY Zenon, <1>1, <1>2, <1>6 DEF NoMagic, Stop
<1>7. CASE WrongSequence
  BY <1>1, <1>2, <1>7, Zenon DEF WrongSequence
<1>8. CASE UnknownType
  BY <1>1, <1>2, <1>8, Zenon DEF UnknownType, Process
<1>9. CASE BadBlock
  BY <1>1, <1>2, <1>9, Zenon DEF BadBlock, Process
<1>10. ASSUME NEW class \in ErrorClass, Stop(class),
              UNCHANGED <<input, pos, block_index, tag, maps>>,
              iter_done' \in BOOLEAN
       PROVE  IInv'
  <2>1. pc' \in {"ok", "err"} /\ error' \in ErrorClass \cup {"none"}
    BY Zenon, <1>10, StopType
  <2> QED
    BY Zenon, <1>0, <1>10, <2>1, QuietIInv DEF Quiet
<1>11. CASE TagEscaped
  BY Zenon, <1>0, <1>2, <1>10, <1>11 DEF TagEscaped
<1>12. CASE TagTruncated
  BY Zenon, <1>0, <1>2, <1>10, <1>12 DEF TagTruncated
<1>13. CASE TagIterError
  <2>1. log[pos].err \in ErrorClass
    BY Zenon, <1>13, Within, BlockType DEF TagIterError, ErrorClass
  <2> QED
    BY <1>10, <1>13, <2>1, Zenon DEF TagIterError
<1> QED
  BY Zenon, <1>3, <1>4, <1>5, <1>6, <1>7, <1>8, <1>9, <1>11, <1>12, <1>13

(* Checking the superblock keeps the invariant: nothing is mapped yet. *)
LEMMA LoadSuperblockIInv == IInv /\ LoadSuperblock => IInv'
<1> SUFFICES ASSUME IInv, LoadSuperblock PROVE IInv'
  BY Zenon
<1> USE DEF IInv
<1>1. superblock_error(superblock) \in ErrorClass \cup {"none"}
  BY Zenon DEF TypeOK, Superblock, superblock_error, ErrorClass
<1>2. superblock.sequence \in Sequences
  BY Zenon DEF TypeOK, Superblock
<1>3. /\ pc' \in {"skip", "ok", "err"} /\ error' \in ErrorClass \cup {"none"}
      /\ sequence' \in Sequences
      /\ pc' = "skip" => sequence' = superblock.sequence
  BY Zenon, <1>1, <1>2 DEF LoadSuperblock, Finish, Fail, TypeOK
<1>4. /\ block_map = NoBlocks /\ uncommitted_block_map = NoBlocks
      /\ UNCHANGED <<superblock, log, pos, iter_done, block_index, tag, block_map,
                     uncommitted_block_map, revoked_blocks>>
  BY Zenon DEF LoadSuperblock, PhaseInv, input
<1>5. TypeOK'
  BY Zenon, <1>3, <1>4 DEF TypeOK
<1>6. PhaseInv'
  BY Zenon, <1>3, <1>4 DEF PhaseInv, NoBlocks
<1>7. CollectInv' /\ OnlyCommitted'
  BY Zenon, <1>3, <1>4, EmptyMap DEF CollectInv, OnlyCommitted
<1> QED
  BY Zenon, <1>5, <1>6, <1>7

(* Skipping to the start block leaves the iterator there or ended. *)
LEMMA SkipToStartIInv == IInv /\ SkipToStart => IInv'
<1> SUFFICES ASSUME IInv, SkipToStart PROVE IInv'
  BY Zenon
<1> USE DEF IInv
<1>1. superblock.start_block \in Nat /\ superblock.sequence \in Nat
  BY JournalAssumption DEF TypeOK, Superblock, Sequences
<1>2. iter_done' \in BOOLEAN
  BY Zenon DEF SkipToStart
<1>3. /\ pos' \in 0 .. JournalLen
      /\ ~ iter_done' => superblock.start_block <= pos'
  <2>1. CASE iter_done'
    <3>1. pos' = pos
      BY <2>1, Zenon DEF SkipToStart
    <3> QED
      BY Zenon, <2>1, <3>1 DEF TypeOK
  <2>2. CASE ~ iter_done'
    <3>1. ~ (superblock.start_block >= JournalLen) /\ pos' = superblock.start_block
      BY <2>2, Zenon DEF SkipToStart
    <3> QED
      BY <1>1, <3>1, JournalAssumption
  <2> QED
    BY Zenon, <2>1, <2>2
<1>4. /\ block_map = NoBlocks /\ uncommitted_block_map = NoBlocks
      /\ superblock.sequence = sequence /\ pc' = "next"
      /\ UNCHANGED <<superblock, log, error, block_index, tag, block_map,
                     uncommitted_block_map, revoked_blocks, sequence>>
  BY Zenon DEF SkipToStart, PhaseInv, input, maps
<1>5. TypeOK'
  BY Zenon, <1>2, <1>3, <1>4 DEF TypeOK
<1>6. PhaseInv'
  BY <1>1, <1>3, <1>4 DEF PhaseInv
<1>7. CollectInv' /\ OnlyCommitted'
  BY Zenon, <1>4, EmptyMap DEF CollectInv, OnlyCommitted
<1> QED
  BY Zenon, <1>5, <1>6, <1>7

(* A descriptor block is entered with the iterator at its first data block. *)
LEMMA DescriptorIInv == IInv /\ process_descriptor_block => IInv'
<1> SUFFICES ASSUME IInv, process_descriptor_block PROVE IInv'
  BY Zenon
<1> USE DEF IInv
<1>1. /\ pos \in Positions /\ pos + 1 \in 0 .. JournalLen /\ ~ iter_done
      /\ pc = "next" /\ pc' = "tags" /\ pos' = pos + 1 /\ block_index' = pos
      /\ tag' = 0 /\ log[pos].kind = "descriptor" /\ log[pos].sum_ok
      /\ log[pos].sequence = sequence
      /\ UNCHANGED <<superblock, log, error, iter_done, block_map,
                     uncommitted_block_map, revoked_blocks, sequence>>
  BY Zenon, Within DEF process_descriptor_block, Process, Take, input, maps
<1>2. superblock.start_block \in Nat /\ pos \in Nat /\ pos' \in Nat /\ pos <= pos'
  BY <1>1, JournalAssumption DEF TypeOK, Superblock, Positions
<1>3. superblock.start_block <= pos /\ superblock.sequence <= sequence
  BY Zenon, <1>1 DEF PhaseInv
<1>4. TypeOK'
  BY Zenon, <1>1, JournalAssumption DEF TypeOK, Positions
<1>5. PhaseInv'
  BY <1>1, <1>2, <1>3 DEF PhaseInv
<1>6. CollectInv'
  <2>1. log[pos].tags \in Seq(Tag)
    BY Zenon, <1>1, BlockType
  <2>2. Len(log[pos].tags) \in Nat
    BY <2>1
  <2> QED
    BY <1>1, <1>2, <1>3, <2>2, CollectedKept DEF CollectInv, Descriptor
<1>7. OnlyCommitted'
  BY Zenon, <1>1, <1>2, OnlyCommittedKept
<1> QED
  BY Zenon, <1>4, <1>5, <1>6, <1>7

(* A revocation block only adds to the revoked blocks. *)
LEMMA RevocationIInv == IInv /\ process_revocation_block => IInv'
<1> SUFFICES ASSUME IInv, process_revocation_block PROVE IInv'
  BY Zenon
<1> USE DEF IInv
<1>1. /\ pos \in Positions /\ pos + 1 \in 0 .. JournalLen /\ ~ iter_done
      /\ pc = "next" /\ pos' = pos + 1 /\ block_index' = pos
      /\ revoked_blocks' = revoked_blocks \cup log[pos].revoked
      /\ UNCHANGED <<superblock, log, pc, error, tag, iter_done, block_map,
                     uncommitted_block_map, sequence>>
  BY Zenon, Within DEF process_revocation_block, Process, Take, input
<1>2. superblock.start_block \in Nat /\ pos \in Nat /\ pos' \in Nat /\ pos <= pos'
  BY <1>1, JournalAssumption DEF TypeOK, Superblock, Positions
<1>3. TypeOK'
  <2>1. revoked_blocks' \in SUBSET FsBlocks
    BY Zenon, <1>1, BlockType DEF TypeOK
  <2> QED
    BY Zenon, <1>1, <2>1, JournalAssumption DEF TypeOK, Positions
<1>4. PhaseInv'
  BY <1>1, <1>2 DEF PhaseInv
<1>5. CollectInv'
  BY Zenon, <1>1, <1>2, CollectedKept DEF CollectInv
<1>6. OnlyCommitted'
  BY Zenon, <1>1, <1>2, OnlyCommittedKept
<1> QED
  BY Zenon, <1>3, <1>4, <1>5, <1>6

(* A commit block moves what the transaction collected into the map: each  *)
(* entry is journaled in this transaction, and its commit block was read.  *)
LEMMA CommitIInv == IInv /\ process_commit_block => IInv'
<1> SUFFICES ASSUME IInv, process_commit_block PROVE IInv'
  BY Zenon
<1> USE DEF IInv
<1>1. /\ pos \in Positions /\ pos + 1 \in 0 .. JournalLen /\ ~ iter_done
      /\ pc = "next" /\ pos' = pos + 1 /\ block_index' = pos
      /\ log[pos].kind = "commit" /\ log[pos].sum_ok
      /\ log[pos].sequence = sequence
      /\ uncommitted_block_map' = NoBlocks /\ revoked_blocks' = {}
      /\ UNCHANGED <<superblock, log, tag, iter_done>>
  BY Zenon, Within DEF process_commit_block, Process, Take, input
<1>2. /\ superblock.start_block \in Nat /\ superblock.sequence \in Nat
      /\ pos \in Nat /\ pos' \in Nat /\ pos <= pos' /\ sequence \in Nat
  BY <1>1, JournalAssumption DEF TypeOK, Superblock, Positions, Sequences
<1>3. /\ sequence' \in Sequences /\ sequence <= sequence'
      /\ pc' \in {"next", "ok"} /\ error' \in ErrorClass \cup {"none"}
  BY <1>1, JournalAssumption
  DEF process_commit_block, Stop, Finish, TypeOK, Sequences
<1>4. block_map' =
        [b \in FsBlocks |->
           IF uncommitted_block_map[b] # Absent /\ b \notin revoked_blocks
           THEN uncommitted_block_map[b] ELSE block_map[b]]
  BY Zenon DEF process_commit_block
<1>5. TypeOK'
  <2>1. block_map' \in BlockMap /\ uncommitted_block_map' \in BlockMap
    BY Zenon, <1>1, <1>4, EmptyMap DEF TypeOK, BlockMap
  <2> QED
    BY Zenon, <1>1, <1>3, <2>1, JournalAssumption DEF TypeOK, Positions
<1>6. PhaseInv'
  BY <1>1, <1>2, <1>3 DEF PhaseInv, Sequences
<1>7. CollectInv'
  BY Zenon, <1>1, <1>3, EmptyMap DEF CollectInv
<1>8. OnlyCommitted'
  <2> SUFFICES ASSUME NEW b \in FsBlocks, block_map'[b] # Absent
               PROVE  \E s \in Sequences :
                          /\ superblock'.sequence <= s
                          /\ JournaledIn(b, block_map[b], s)'
                          /\ CommittedAfter(block_map[b], s)'
    BY Zenon DEF OnlyCommitted
  <2>1. CASE uncommitted_block_map[b] # Absent /\ b \notin revoked_blocks
    <3>1. block_map'[b] = uncommitted_block_map[b]
      BY Zenon, <1>4, <2>1
    <3>2. /\ JournaledIn(b, uncommitted_block_map[b], sequence)
          /\ uncommitted_block_map[b] < pos
      BY Zenon, <2>1 DEF CollectInv
    <3>4. /\ sequence \in Sequences /\ superblock'.sequence <= sequence
      BY Zenon, <1>1 DEF TypeOK, PhaseInv
    <3>5. pos < pos'
      BY <1>1, <1>2
    <3>6. \E c \in Positions :
             /\ block_map'[b] < c /\ c < pos'
             /\ log'[c].kind = "commit" /\ log'[c].sum_ok
             /\ log'[c].sequence = sequence
      BY Zenon, <1>1, <3>1, <3>2, <3>5
    <3>7. \E d \in Positions :
             /\ superblock'.start_block <= d /\ d < block_map'[b]
             /\ log'[d].kind = "descriptor" /\ log'[d].sum_ok
             /\ log'[d].sequence = sequence
             /\ block_map'[b] - d \in 1 .. Len(log'[d].tags)
             /\ log'[d].tags[block_map'[b] - d].block = b
             /\ log'[d].tags[block_map'[b] - d].data_ok
      BY Zenon, <1>1, <3>1, <3>2 DEF JournaledIn
    <3> QED
      BY Zenon, <3>4, <3>6, <3>7 DEF JournaledIn, CommittedAfter
  <2>2. CASE ~ (uncommitted_block_map[b] # Absent /\ b \notin revoked_blocks)
    <3>1. block_map'[b] = block_map[b]
      BY Zenon, <1>4, <2>2
    <3>2. PICK s \in Sequences : /\ superblock.sequence <= s
                                 /\ JournaledIn(b, block_map[b], s)
                                 /\ CommittedAfter(block_map[b], s)
      BY Zenon, <3>1 DEF OnlyCommitted
    <3>3. JournaledIn(b, block_map[b], s)'
      BY Zenon, <1>1, <3>1, <3>2 DEF JournaledIn
    <3>4. PICK c \in Positions :
             /\ block_map[b] < c /\ c < pos
             /\ log[c].kind = "commit" /\ log[c].sum_ok /\ log[c].sequence = s
      BY Zenon, <3>2 DEF CommittedAfter
    <3>5. c < pos'
      BY <1>1, <1>2, <3>4, JournalAssumption DEF Positions
    <3>6. CommittedAfter(block_map[b], s)'
      BY Zenon, <1>1, <3>1, <3>4, <3>5 DEF CommittedAfter
    <3> QED
      BY Zenon, <1>1, <3>2, <3>3, <3>6
  <2> QED
    BY Zenon, <2>1, <2>2
<1> QED
  BY Zenon, <1>5, <1>6, <1>7, <1>8

(* Leaving the loop over the tags, on to the next block or out. *)
LEMMA TagsDoneIInv == IInv /\ TagsDone => IInv'
<1> SUFFICES ASSUME IInv, TagsDone PROVE IInv'
  BY Zenon
<1> USE DEF IInv
<1>1. /\ pc = "tags" /\ pc' \in {"next", "ok"} /\ UNCHANGED error
      /\ UNCHANGED <<superblock, log, pos, iter_done, block_index, tag, block_map,
                     uncommitted_block_map, revoked_blocks, sequence>>
  BY Zenon DEF TagsDone, Stop, Finish, input, maps
<1>2. pos \in Nat /\ pos' \in Nat /\ pos <= pos'
  BY <1>1, JournalAssumption DEF TypeOK
<1>3. TypeOK' /\ PhaseInv'
  BY Zenon, <1>1 DEF TypeOK, PhaseInv
<1>4. CollectInv'
  BY Zenon, <1>1, <1>2, CollectedKept DEF CollectInv
<1>5. OnlyCommitted'
  BY Zenon, <1>1, <1>2, OnlyCommittedKept
<1> QED
  BY Zenon, <1>3, <1>4, <1>5

(* The data block of a tag is collected for the block the tag names. *)
LEMMA TagDataIInv == IInv /\ TagData => IInv'
<1> SUFFICES ASSUME IInv, TagData PROVE IInv'
  BY Zenon
<1> USE DEF IInv
<1>1. /\ pos \in Positions /\ pos + 1 \in 0 .. JournalLen /\ ~ iter_done
      /\ pc = "tags" /\ tag < Len(Descriptor.tags) /\ pos' = pos + 1
      /\ UNCHANGED <<superblock, log, iter_done, block_index, block_map,
                     revoked_blocks, sequence>>
  BY Zenon, Within DEF TagData, input
<1>2. /\ block_index \in Positions /\ superblock.start_block <= block_index
      /\ Descriptor.kind = "descriptor" /\ Descriptor.sum_ok
      /\ Descriptor.sequence = sequence /\ pos = block_index + tag + 1
  BY Zenon, <1>1 DEF CollectInv
<1>3. /\ superblock.start_block \in Nat /\ pos \in Nat /\ pos' \in Nat
      /\ pos <= pos' /\ tag \in Nat /\ block_index \in Nat
  BY <1>1, <1>2, JournalAssumption DEF TypeOK, Superblock, Positions
<1>4. /\ Len(Descriptor.tags) \in Nat /\ tag + 1 \in 1 .. Len(Descriptor.tags)
      /\ NextTag.block \in FsBlocks
  <2>1. Descriptor.tags \in Seq(Tag)
    BY Zenon, <1>2, BlockType DEF Descriptor
  <2>2. Len(Descriptor.tags) \in Nat /\ tag + 1 \in 1 .. Len(Descriptor.tags)
    BY <1>1, <1>3, <2>1
  <2>3. NextTag \in Tag
    BY <2>1, <2>2 DEF NextTag
  <2> QED
    BY Zenon, <2>2, <2>3 DEF Tag
<1>5. CASE log[pos].kind = "read_error" \/ ~ NextTag.data_ok
  <2>1. log[pos].err \in ErrorClass /\ "Corrupt" \in ErrorClass
    BY Zenon, <1>1, BlockType DEF ErrorClass
  <2>2. /\ \E class \in ErrorClass : Stop(class)
        /\ UNCHANGED <<tag, uncommitted_block_map>>
    BY <1>5, <2>1, Zenon DEF TagData
  <2>3. pc' \in {"ok", "err"} /\ error' \in ErrorClass \cup {"none"}
    BY Zenon, <2>2, StopType
  <2>4. Quiet
    BY Zenon, <1>1, <1>3, <2>2, <2>3 DEF Quiet, TypeOK, input, maps
  <2> QED
    BY Zenon, <2>4, QuietIInv
<1>6. CASE log[pos].kind # "read_error" /\ NextTag.data_ok
  <2>1. /\ uncommitted_block_map' = [uncommitted_block_map EXCEPT ![NextTag.block] = pos]
        /\ tag' = tag + 1 /\ UNCHANGED <<pc, error>>
    BY Zenon, <1>6 DEF TagData
  <2>2. TypeOK'
    <3>1. uncommitted_block_map' \in BlockMap
      BY Zenon, <1>1, <1>4, <2>1 DEF TypeOK, BlockMap
    <3> QED
      BY <1>1, <1>3, <2>1, <3>1 DEF TypeOK
  <2>3. PhaseInv'
    BY <1>1, <1>3, <2>1 DEF PhaseInv
  <2>4. CollectInv'
    <3>1. ASSUME NEW b \in FsBlocks, uncommitted_block_map'[b] # Absent
          PROVE  /\ JournaledIn(b, uncommitted_block_map[b], sequence)'
                 /\ uncommitted_block_map'[b] < pos'
      <4>1. CASE b = NextTag.block
        <5>1. uncommitted_block_map'[b] = pos
          BY Zenon, <1>4, <2>1, <4>1 DEF TypeOK, BlockMap
        <5>2. pos - block_index = tag + 1 /\ block_index < pos
          BY <1>2, <1>3
        <5>3. \E d \in Positions :
                 /\ superblock'.start_block <= d /\ d < pos
                 /\ log'[d].kind = "descriptor" /\ log'[d].sum_ok
                 /\ log'[d].sequence = sequence'
                 /\ pos - d \in 1 .. Len(log'[d].tags)
                 /\ log'[d].tags[pos - d].block = b
                 /\ log'[d].tags[pos - d].data_ok
          BY Zenon, <1>1, <1>2, <1>4, <1>6, <4>1, <5>2 DEF Descriptor, NextTag
        <5> QED
          BY <1>1, <1>3, <5>1, <5>3 DEF JournaledIn
      <4>2. CASE b # NextTag.block
        <5>1. uncommitted_block_map'[b] = uncommitted_block_map[b]
          BY Zenon, <2>1, <4>2 DEF TypeOK, BlockMap
        <5>2. /\ JournaledIn(b, uncommitted_block_map[b], sequence)
              /\ uncommitted_block_map[b] < pos
          BY Zenon, <3>1, <5>1 DEF CollectInv
        <5>3. uncommitted_block_map[b] \in Int
          BY JournalAssumption DEF TypeOK, BlockMap, Positions, Absent
        <5>4. JournaledIn(b, uncommitted_block_map[b], sequence)'
          BY Zenon, <1>1, <5>1, <5>2 DEF JournaledIn
        <5>5. uncommitted_block_map'[b] < pos'
          BY <1>3, <5>1, <5>2, <5>3
        <5> QED
          BY Zenon, <5>4, <5>5
      <4> QED
        BY Zenon, <4>1, <4>2
    <3>2. Descriptor' = Descriptor
      BY Zenon, <1>1 DEF Descriptor
    <3>3. tag' <= Len(Descriptor'.tags) /\ pos' = block_index' + tag' + 1
      BY <1>1, <1>2, <1>3, <1>4, <2>1, <3>2
    <3> QED
      BY Zenon, <1>1, <1>2, <3>1, <3>2, <3>3 DEF CollectInv
  <2>5. OnlyCommitted'
    BY Zenon, <1>1, <1>3, OnlyCommittedKept
  <2> QED
    BY Zenon, <2>2, <2>3, <2>4, <2>5
<1> QED
  BY Zenon, <1>5, <1>6

-----------------------------------------------------------------------------
(* Every step of the loader keeps the inductive invariant, and so does     *)
(* doing nothing.                                                          *)
LEMMA StepIInv == IInv /\ Step => IInv'
  BY Zenon, LoadSuperblockIInv, SkipToStartIInv, EndingSteps, DescriptorIInv,
     RevocationIInv, CommitIInv, TagsDoneIInv, TagDataIInv DEF Step

LEMMA StutterIInv == IInv /\ UNCHANGED vars => IInv'
<1> SUFFICES ASSUME IInv, UNCHANGED vars PROVE IInv'
  BY Zenon
<1>1. UNCHANGED <<superblock, log, pc, error, pos, iter_done, block_index, tag,
                  block_map, uncommitted_block_map, revoked_blocks, sequence>>
  BY Zenon DEF vars, input, maps
<1>2. TypeOK' /\ PhaseInv'
  BY Zenon, <1>1 DEF IInv, TypeOK, PhaseInv
<1>3. CollectInv'
  BY Zenon, <1>1 DEF IInv, CollectInv, JournaledIn, Descriptor
<1>4. OnlyCommitted'
  <2>1. TypeOK /\ OnlyCommitted /\ pos' \in Nat /\ pos <= pos'
    BY <1>1, JournalAssumption DEF IInv, TypeOK
  <2> QED
    BY Zenon, <1>1, <2>1, OnlyCommittedKept
<1> QED
  BY Zenon, <1>2, <1>3, <1>4 DEF IInv

(* Every reachable state of the loader satisfies the inductive invariant. *)
THEOREM LoaderInvariant == Spec => []IInv
<1>1. IInv /\ [Next]_vars => IInv'
  BY Zenon, StepIInv, StutterIInv DEF Next, Done
<1> QED
  BY <1>1, InitIInv, PTL DEF Spec

(* The loader's types hold for every journal: in particular the sequence   *)
(* number never passes u32::MAX and only journal blocks are mapped to.     *)
THEOREM LoaderTypeOK == Spec => []TypeOK
<1>1. IInv => TypeOK
  BY Zenon DEF IInv
<1> QED
  BY <1>1, LoaderInvariant, PTL

(* While tags are processed, the iterator and the tags agree (CollectInv), *)
(* for every journal.                                                      *)
THEOREM LoaderCollects == Spec => []CollectInv
<1>1. IInv => CollectInv
  BY Zenon DEF IInv
<1> QED
  BY <1>1, LoaderInvariant, PTL

(* For every journal, of any length and with any contents, load_block_map  *)
(* makes nothing visible but checksummed data of committed transactions.   *)
THEOREM LoaderOnlyCommitted == Spec => []OnlyCommitted
<1>1. IInv => OnlyCommitted
  BY Zenon DEF IInv
<1> QED
  BY <1>1, LoaderInvariant, PTL

-----------------------------------------------------------------------------
(* The blocks that were consumed, unless the load failed, hold no I/O      *)
(* error; nothing is consumed before the iterator is at the start block.   *)
NoIoError(p) == ~ (log[p].kind = "read_error" /\ log[p].err = "Io")

IoInv ==
    /\ pc \in {"superblock", "skip"} => pos = 0
    /\ pc # "err" => \A p \in Positions :
                        superblock.start_block <= p /\ p < pos => NoIoError(p)

(* A step that does not move the iterator consumes nothing. *)
LEMMA IoStays ==
  ASSUME IoInv, UNCHANGED <<superblock, log, pos>>,
         pc' \in {"next", "tags", "ok", "err"}, pc # "err"
  PROVE  IoInv'
  BY Zenon DEF IoInv, NoIoError

(* A step that consumes one block ends the load with an error or has seen  *)
(* that the block can be read, or that it is corrupt.                      *)
LEMMA IoConsumes ==
  ASSUME TypeOK, IoInv, UNCHANGED <<superblock, log>>, pos' = pos + 1,
         pc \in {"next", "tags"}, pc' \in {"next", "tags", "ok", "err"},
         pc' # "err" => NoIoError(pos)
  PROVE  IoInv'
<1> SUFFICES ASSUME pc' # "err", NEW p \in Positions,
                    superblock.start_block <= p, p < pos'
             PROVE  NoIoError(p)'
  BY Zenon DEF IoInv
<1>1. p < pos \/ p = pos
  BY JournalAssumption DEF TypeOK, Positions
<1> QED
  BY Zenon, <1>1 DEF IoInv, NoIoError

LEMMA IoStep == TypeOK /\ IoInv /\ Step => IoInv'
<1> SUFFICES ASSUME TypeOK, IoInv, Step PROVE IoInv'
  BY Zenon
<1>1. CASE LoadSuperblock
  BY Zenon, <1>1 DEF LoadSuperblock, IoInv, Finish, Fail, NoIoError, input
<1>2. CASE SkipToStart
  <2>1. /\ pc = "skip" /\ pc' = "next" /\ pos = 0
        /\ UNCHANGED <<superblock, log>>
    BY Zenon, <1>2 DEF SkipToStart, IoInv, input
  <2>2. pos' = 0 \/ pos' = superblock.start_block
    BY <1>2, <2>1, Zenon DEF SkipToStart
  <2>3. superblock.start_block \in Nat
    BY Zenon DEF TypeOK, Superblock
  <2> QED
    BY <2>1, <2>2, <2>3, JournalAssumption DEF IoInv, Positions
<1>3. CASE EndOfJournal \/ IterError
  BY Zenon, <1>3, IoStays DEF EndOfJournal, IterError, Finish, Fail, input
<1>4. ASSUME Take, pc' \in {"next", "tags", "ok", "err"}, pc' # "err" => NoIoError(pos)
      PROVE  IoInv'
  BY Zenon, <1>4, IoConsumes DEF Take, input
<1>5. CASE ReadError
  BY Zenon, <1>4, <1>5 DEF ReadError, Stop, Finish, Fail, NoIoError
<1>6. CASE NoMagic \/ WrongSequence \/ UnknownType \/ BadBlock
  BY Zenon, <1>4, <1>6
     DEF NoMagic, WrongSequence, HasHeader, UnknownType, BadBlock, Process,
                    Stop, Finish, Fail, NoIoError
<1>7. CASE process_descriptor_block \/ process_revocation_block
  BY Zenon, <1>4, <1>7
     DEF process_descriptor_block, process_revocation_block, Process, Take,
                    NoIoError
<1>8. CASE process_commit_block
  BY Zenon, <1>4, <1>8 DEF process_commit_block, Process, Take, Stop, Finish, NoIoError
<1>9. CASE TagsDone \/ TagEscaped \/ TagTruncated \/ TagIterError
  BY Zenon, <1>9, IoStays
     DEF TagsDone, TagEscaped, TagTruncated, TagIterError, Stop, Finish,
                       Fail, input
<1>10. CASE TagData
  <2>1. /\ pc = "tags" /\ pos' = pos + 1 /\ UNCHANGED <<superblock, log>>
    BY Zenon, <1>10 DEF TagData, input
  <2>2. /\ pc' \in {"tags", "ok", "err"}
        /\ pc' # "err" => NoIoError(pos)
    BY Zenon, <1>10 DEF TagData, Stop, Finish, Fail, NoIoError
  <2> QED
    BY Zenon, <2>1, <2>2, IoConsumes
<1> QED
  BY Zenon, <1>1, <1>2, <1>3, <1>5, <1>6, <1>7, <1>8, <1>9, <1>10 DEF Step

(* For every journal: a load that succeeds has met no I/O error among the  *)
(* blocks it consumed, wherever in the log or in a descriptor they are.    *)
THEOREM LoaderPropagatesIoErrors == Spec => []IoErrorsPropagate
<1>1. Init => IoInv
  BY JournalAssumption DEF Init, IoInv, Positions
<1>2. TypeOK /\ IoInv /\ [Next]_vars => IoInv'
  <2>1. ASSUME IoInv, UNCHANGED vars PROVE IoInv'
    BY Zenon, <2>1 DEF vars, input, IoInv, NoIoError
  <2> QED
    BY Zenon, <2>1, IoStep DEF Next, Done
<1>3. IoInv => IoErrorsPropagate
  BY Zenon DEF IoInv, IoErrorsPropagate, NoIoError
<1> QED
  BY <1>1, <1>2, <1>3, LoaderTypeOK, PTL DEF Spec

-----------------------------------------------------------------------------
(* The invariant of the writer and the loader together.  The live log is   *)
(* what the transactions since the last checkpoint wrote: positions Start  *)
(* up to End, where the next transaction goes.                             *)
Start == superblock.start_block
End == superblock.start_block + used

(* A position of the log whose transaction is committed and not yet        *)
(* checkpointed.                                                           *)
Live(p) == Start # 0 /\ Start <= p /\ p < End

(* Where the live log holds a copy of block b: the positions that a tag of *)
(* a live descriptor announces.                                            *)
Copies(b) ==
    {p \in Positions :
        \E d \in Positions : /\ Live(d) /\ log[d].kind = "descriptor"
                             /\ p - d \in 1 .. Len(log[d].tags)
                             /\ log[d].tags[p - d].block = b}

WriterTypeOK ==
    /\ home \in [FsBlocks -> Nat] /\ truth \in [FsBlocks -> Nat]
    /\ jdata \in [Positions -> Nat]
    /\ head \in Nat /\ used \in Nat /\ version \in Nat /\ inlog \subseteq FsBlocks
    /\ tid \in Sequences

(* Where the live part of the log is, and where the next transaction goes. *)
Placed ==
    /\ Reading /\ tid > 0 /\ head > 0
    /\ Start = 0 => used = 0 /\ inlog = {}
    /\ Start # 0 => /\ Start < JournalLen /\ End <= JournalLen
                    /\ head = End \/ (head = 1 /\ End = JournalLen)
    /\ used = 0 => superblock.sequence = tid

(* A block as the writer writes it: readable, with the right checksum *)
Intact(blk) ==
    /\ blk.kind \in {"none", "descriptor", "revocation", "commit", "other"}
    /\ blk.sum_ok /\ blk.table_ok /\ blk.tags_end = "last"
    /\ \A k \in 1 .. Len(blk.tags) : ~ blk.tags[k].escaped

(* The log holds nothing else.  A commit block is of an earlier            *)
(* transaction than the next one.                                          *)
Written ==
    \A p \in Positions :
        /\ Intact(log[p])
        /\ log[p].kind \in {"commit", "other"} => log[p].sequence < tid

(* A transaction of the live log begins at p and has sequence number s, or *)
(* the live log ends there.                                                *)
Begins(p, s) ==
    \/ p = End /\ s = tid
    \/ p < End /\ log[p].kind \in {"revocation", "descriptor"} /\ log[p].sequence = s

(* The live log is a chain of complete transactions. *)
Chained ==
    /\ Start # 0 => Begins(Start, superblock.sequence)
    /\ \A p \in Positions : Live(p) =>
        /\ log[p].kind = "revocation" =>
              /\ p + 1 < End
              /\ log[p + 1].kind = "descriptor" /\ log[p + 1].sequence = log[p].sequence
              /\ \A k \in 1 .. Len(log[p + 1].tags) :
                    log[p + 1].tags[k].block \notin log[p].revoked
        /\ log[p].kind = "descriptor" =>
              LET c == p + Len(log[p].tags) + 1
              IN  /\ c < End
                  /\ log[c].kind = "commit" /\ log[c].sequence = log[p].sequence
                  /\ \A k \in 1 .. Len(log[p].tags) :
                        log[p].tags[k].data_ok /\ log[p + k].kind = "none"
        /\ log[p].kind = "commit" => Begins(p + 1, log[p].sequence + 1)

(* A block without a live copy is up to date in place; the newest live     *)
(* copy of any other is up to date.                                        *)
UpToDate ==
    \A b \in FsBlocks :
        IF b \in inlog
        THEN \E p \in Copies(b) : jdata[p] = truth[b] /\ \A q \in Copies(b) : q <= p
        ELSE home[b] = truth[b] /\ Copies(b) = {}

WriterInv == WriterTypeOK /\ Placed /\ Written /\ Chained /\ UpToDate

(* map leads from every block to its newest live copy before position e. *)
Newest(map, e) ==
    \A b \in FsBlocks :
        /\ map[b] # Absent => map[b] \in Copies(b) /\ map[b] < e
        /\ \A q \in Copies(b) : q < e => q <= map[b]

(* What the map will be if the current transaction commits. *)
Merged == [b \in FsBlocks |-> IF uncommitted_block_map[b] # Absent
                              THEN uncommitted_block_map[b] ELSE block_map[b]]

Collected == \A b \in FsBlocks : uncommitted_block_map[b] # Absent => b \notin revoked_blocks
TagsKept(d) ==
    \A k \in 1 .. Len(log[d].tags) : log[d].tags[k].block \notin revoked_blocks

(* The loader is past the live log. *)
Past == sequence = tid /\ Newest(block_map, End)

(* The loader between two blocks of the live log *)
AtBlock ==
    /\ Live(pos) /\ ~ iter_done
    /\ log[pos].kind \in {"revocation", "descriptor", "commit"}
    /\ log[pos].sequence = sequence
    /\ Newest(Merged, pos) /\ Collected
    /\ log[pos].kind # "commit" => uncommitted_block_map = NoBlocks
    /\ log[pos].kind = "revocation" => revoked_blocks = {}
    /\ log[pos].kind = "descriptor" => TagsKept(pos)

AtTag ==
    /\ Live(block_index) /\ ~ iter_done
    /\ Newest(Merged, pos) /\ Collected /\ TagsKept(block_index)

LoaderInv ==
    /\ running => pc = "superblock"
    /\ pc # "err"
    /\ pc \in {"superblock", "skip"} => revoked_blocks = {}
    /\ pc = "next" => AtBlock \/ (Past /\ pos >= End)
    /\ pc = "tags" => AtTag \/ (Past /\ block_index >= End)
    /\ pc = "ok" => Newest(block_map, End)

RecoveryInv ==
    /\ IInv /\ IoInv
    /\ damaged \in BOOLEAN /\ running \in BOOLEAN /\ (running => ~ damaged)
    /\ ~ damaged => WriterInv /\ LoaderInv

-----------------------------------------------------------------------------
(* The loader on a log that the writer left *)

(* What the chain says of the live block at p *)
LEMMA ChainedAt ==
  ASSUME WriterInv, NEW p \in Positions, Live(p)
  PROVE  /\ log[p].kind = "revocation" =>
               /\ p + 1 < End
               /\ log[p + 1].kind = "descriptor" /\ log[p + 1].sequence = log[p].sequence
               /\ \A k \in 1 .. Len(log[p + 1].tags) :
                     log[p + 1].tags[k].block \notin log[p].revoked
         /\ log[p].kind = "descriptor" =>
               /\ p + Len(log[p].tags) + 1 < End
               /\ log[p + Len(log[p].tags) + 1].kind = "commit"
               /\ log[p + Len(log[p].tags) + 1].sequence = log[p].sequence
               /\ \A k \in 1 .. Len(log[p].tags) :
                     log[p].tags[k].data_ok /\ log[p + k].kind = "none"
         /\ log[p].kind = "commit" => Begins(p + 1, log[p].sequence + 1)
BY Zenon DEF WriterInv, Chained

(* The numbers that place the live log *)
LEMMA PlaceFacts ==
  ASSUME TypeOK, WriterInv
  PROVE  /\ Start \in Nat /\ used \in Nat /\ End \in Nat /\ End = Start + used
         /\ JournalLen \in Nat /\ tid \in Nat /\ tid <= MaxSequence /\ MaxSequence \in Nat
         /\ pos \in Nat /\ block_index \in Nat /\ sequence \in Nat /\ tag \in Nat
         /\ Start = 0 => End = 0
         /\ Start # 0 => Start < JournalLen /\ End <= JournalLen
  BY JournalAssumption DEF TypeOK, WriterInv, WriterTypeOK, Placed, Start, End,
     Superblock, Sequences

LEMMA LiveFacts ==
  ASSUME TypeOK, WriterInv, NEW p, p \in Nat, Live(p)
  PROVE  p \in Positions /\ Start <= p /\ p < End /\ p < JournalLen
  BY PlaceFacts DEF Live, Positions

LEMMA CopyFacts ==
  ASSUME TypeOK, WriterInv, NEW b, NEW p \in Copies(b)
  PROVE  /\ p \in Positions /\ log[p].kind = "none"
         /\ Start <= p /\ p < End
<1>1. p \in Positions
  BY Zenon DEF Copies
<1>2. PICK d \in Positions : /\ Live(d) /\ log[d].kind = "descriptor"
                             /\ p - d \in 1 .. Len(log[d].tags)
  BY Zenon DEF Copies
<1>3. p \in Nat /\ d \in Nat /\ p = d + (p - d) /\ Len(log[d].tags) \in Nat
  BY <1>1, <1>2, JournalAssumption, BlockType DEF Positions
<1>4. /\ log[d + (p - d)].kind = "none" /\ d + Len(log[d].tags) + 1 < End
  BY Zenon, <1>2 DEF WriterInv, Chained
<1>5. Start <= d /\ d < End
  BY Zenon, <1>2 DEF Live
<1>6. Start \in Nat /\ End \in Nat
  BY Zenon, PlaceFacts
<1>7. Start <= p /\ p < End
  BY <1>2, <1>3, <1>4, <1>5, <1>6
<1> QED
  BY Zenon, <1>1, <1>3, <1>4, <1>7

(* A live position has at most one descriptor that announces it. *)
LEMMA CopyOfOne ==
  ASSUME TypeOK, WriterInv, NEW d \in Positions, Live(d), log[d].kind = "descriptor",
         NEW k \in 1 .. Len(log[d].tags), NEW b, d + k \in Copies(b)
  PROVE  log[d].tags[k].block = b
<1>1. PICK e \in Positions : /\ Live(e) /\ log[e].kind = "descriptor"
                             /\ (d + k) - e \in 1 .. Len(log[e].tags)
                             /\ log[e].tags[(d + k) - e].block = b
  BY Zenon DEF Copies
<1>2. /\ d \in Nat /\ e \in Nat /\ k \in Nat /\ k >= 1
      /\ Len(log[d].tags) \in Nat /\ Len(log[e].tags) \in Nat
  BY JournalAssumption, BlockType DEF Positions
<1>3. ~ d < e
  <2> SUFFICES ASSUME d < e PROVE FALSE
    BY Zenon
  <2>1. e - d \in 1 .. Len(log[d].tags) /\ d + (e - d) = e
    BY <1>1, <1>2
  <2>2. log[d + (e - d)].kind = "none"
    BY Zenon, <2>1 DEF WriterInv, Chained
  <2> QED
    BY Zenon, <1>1, <2>1, <2>2
<1>4. ~ e < d
  <2> SUFFICES ASSUME e < d PROVE FALSE
    BY Zenon
  <2>1. d - e \in 1 .. Len(log[e].tags) /\ e + (d - e) = d
    BY <1>1, <1>2
  <2>2. log[e + (d - e)].kind = "none"
    BY <1>1, <2>1 DEF WriterInv, Chained
  <2> QED
    BY Zenon, <2>1, <2>2
<1>5. e = d /\ (d + k) - e = k
  BY <1>2, <1>3, <1>4
<1> QED
  BY Zenon, <1>1, <1>5

(* What is live, and where its copies are, is a matter of the log alone. *)
LEMMA SameLog ==
  ASSUME UNCHANGED <<superblock, log, used, tid>>
  PROVE  /\ Start' = Start /\ End' = End
         /\ \A b : Copies(b)' = Copies(b)
         /\ \A p : Live(p)' <=> Live(p)
         /\ Written => Written'
         /\ Chained => Chained'
<1>1. Start' = Start /\ End' = End
  BY Zenon DEF Start, End
<1>2. \A p : Live(p)' <=> Live(p)
  BY Zenon, <1>1 DEF Live
<1>3. \A b : Copies(b)' = Copies(b)
  BY Zenon, <1>2 DEF Copies
<1>4. \A p, s : Begins(p, s)' <=> Begins(p, s)
  BY Zenon, <1>1 DEF Begins
<1>5. Written => Written'
  BY Zenon DEF Written
<1>6. Chained => Chained'
  BY <1>1, <1>2, <1>4 DEF Chained
<1> QED
  BY Zenon, <1>1, <1>2, <1>3, <1>5, <1>6

(* The invariant of the writer is about the disk alone. *)
LEMMA DiskUnchanged ==
  ASSUME UNCHANGED <<superblock, log, writerVars>>
  PROVE  /\ Start' = Start /\ End' = End /\ tid' = tid
         /\ \A b : Copies(b)' = Copies(b)
         /\ \A p : Live(p)' <=> Live(p)
         /\ WriterInv => WriterInv'
<1>1. UNCHANGED <<superblock, log, running, home, truth, jdata, head, used, inlog, tid, version>>
  BY Zenon DEF writerVars
<1>2. /\ Start' = Start /\ End' = End
      /\ \A b : Copies(b)' = Copies(b)
      /\ \A p : Live(p)' <=> Live(p)
      /\ Written => Written'
      /\ Chained => Chained'
  BY Zenon, <1>1, SameLog
<1>3. WriterInv => WriterInv'
  <2> SUFFICES ASSUME WriterInv PROVE WriterInv'
    BY Zenon
  <2>1. WriterTypeOK'
    BY Zenon, <1>1 DEF WriterInv, WriterTypeOK
  <2>2. Placed'
    BY Zenon, <1>1, <1>2 DEF WriterInv, Placed, Reading
  <2>3. UpToDate'
    BY Zenon, <1>1, <1>2 DEF WriterInv, UpToDate
  <2> QED
    BY Zenon, <1>2, <2>1, <2>2, <2>3 DEF WriterInv
<1> QED
  BY Zenon, <1>1, <1>2, <1>3

(* Reading on over a block that holds no copy *)
LEMMA NewestSkips ==
  ASSUME TypeOK, WriterInv, NEW m \in BlockMap, NEW e \in Positions, Newest(m, e),
         log[e].kind # "none"
  PROVE  Newest(m, e + 1)
<1> SUFFICES ASSUME NEW b \in FsBlocks
             PROVE  /\ m[b] # Absent => m[b] \in Copies(b) /\ m[b] < e + 1
                    /\ \A q \in Copies(b) : q < e + 1 => q <= m[b]
  BY Zenon DEF Newest
<1>1. e \in Nat /\ m[b] \in Int
  BY JournalAssumption DEF BlockMap, Positions, Absent
<1>2. m[b] # Absent => m[b] \in Copies(b) /\ m[b] < e + 1
  BY <1>1 DEF Newest
<1>3. ASSUME NEW q \in Copies(b), q < e + 1 PROVE q <= m[b]
  <2>1. q \in Nat /\ q # e
    BY CopyFacts, JournalAssumption DEF Positions
  <2>2. q < e
    BY <1>1, <1>3, <2>1
  <2> QED
    BY Zenon, <2>2 DEF Newest
<1> QED
  BY Zenon, <1>2, <1>3

(* What the writer guarantees of any block of the log *)
LEMMA WrittenFacts ==
  ASSUME WriterInv, NEW p \in Positions
  PROVE  /\ log[p].kind \in {"none", "descriptor", "revocation", "commit", "other"}
         /\ log[p].sum_ok /\ log[p].table_ok /\ log[p].tags_end = "last"
         /\ \A k \in 1 .. Len(log[p].tags) : ~ log[p].tags[k].escaped
         /\ log[p].kind \in {"commit", "other"} => log[p].sequence < tid
  BY Zenon DEF WriterInv, Written, Intact

LEMMA EmptyMapMerged ==
  ASSUME TypeOK
  PROVE  /\ Merged \in BlockMap
         /\ uncommitted_block_map = NoBlocks => Merged = block_map
<1>1. Merged \in BlockMap
  BY Zenon DEF Merged, TypeOK, BlockMap
<1>2. ASSUME uncommitted_block_map = NoBlocks PROVE Merged = block_map
  <2>1. \A b \in FsBlocks : Merged[b] = block_map[b]
    BY Zenon, <1>2, EmptyMap DEF Merged
  <2> QED
    BY <1>1, <2>1 DEF TypeOK, BlockMap
<1> QED
  BY Zenon, <1>1, <1>2

(* The superblock is found to be usable. *)
LEMMA RecoveryLoadSuperblock ==
  ASSUME TypeOK, WriterInv, LoaderInv, ~ running, LoadSuperblock, UNCHANGED writerVars
  PROVE  LoaderInv'
<1>1. superblock.present /\ superblock_error(superblock) = "none"
  BY Zenon DEF WriterInv, Placed, Reading
<1>2. pc = "superblock" /\ pc' = "skip" /\ revoked_blocks' = revoked_blocks
  BY Zenon, <1>1 DEF LoadSuperblock
<1>3. ~ running' /\ revoked_blocks = {}
  BY Zenon, <1>2 DEF writerVars, LoaderInv
<1> QED
  BY Zenon, <1>2, <1>3 DEF LoaderInv

(* A load that ends past the live log, or before any of it was read *)
LEMMA EndsPast ==
  ASSUME UNCHANGED <<superblock, log, writerVars>>, Newest(block_map, End),
         UNCHANGED block_map, ~ running, pc' = "ok"
  PROVE  LoaderInv'
<1>1. ~ running'
  BY Zenon DEF writerVars
<1>2. Newest(block_map, End)'
  BY Zenon, DiskUnchanged DEF Newest
<1> QED
  BY Zenon, <1>1, <1>2 DEF LoaderInv

(* A step past the live log that goes on *)
LEMMA StaysPast ==
  ASSUME UNCHANGED <<superblock, log, writerVars>>, Past, UNCHANGED <<block_map, sequence>>,
         ~ running,
         \/ pc' = "next" /\ pos' >= End
         \/ pc' = "tags" /\ block_index' >= End
  PROVE  LoaderInv'
<1>1. ~ running'
  BY Zenon DEF writerVars
<1>2. Newest(block_map, End)'
  BY Zenon, DiskUnchanged DEF Newest, Past
<1>3. End' = End /\ tid' = tid
  BY Zenon, DiskUnchanged
<1> QED
  BY Zenon, <1>1, <1>2, <1>3 DEF LoaderInv, Past

(* The iterator goes to the start of the live log, if there is one. *)
LEMMA RecoverySkip ==
  ASSUME TypeOK, PhaseInv, WriterInv, LoaderInv, ~ running, SkipToStart, UNCHANGED writerVars
  PROVE  LoaderInv'
<1>1. /\ pc = "skip" /\ pc' = "next" /\ UNCHANGED <<superblock, log, block_map, sequence>>
      /\ UNCHANGED <<uncommitted_block_map, revoked_blocks>>
      /\ iter_done' = (\/ \E p \in Positions : p < Start /\ log[p].kind = "iter_error"
                       \/ Start >= JournalLen)
      /\ pos' = IF iter_done' THEN pos ELSE Start
  BY Zenon DEF SkipToStart, input, maps, Start
<1>2. /\ block_map = NoBlocks /\ uncommitted_block_map = NoBlocks /\ revoked_blocks = {}
      /\ sequence = superblock.sequence
  BY Zenon, <1>1 DEF PhaseInv, LoaderInv
<1>3. NoBlocks \in BlockMap /\ \A b \in FsBlocks : NoBlocks[b] = Absent
  BY Zenon, EmptyMap
<1>4. CASE used = 0
  <2>1. sequence = tid
    BY Zenon, <1>2, <1>4 DEF WriterInv, Placed
  <2>2. Newest(block_map, End)
    <3>1. \A b : Copies(b) = {}
      <4> SUFFICES ASSUME NEW b, NEW p \in Copies(b) PROVE FALSE
        BY Zenon
      <4>1. p \in Nat /\ Start <= p /\ p < End
        BY CopyFacts, JournalAssumption DEF Positions
      <4> QED
        BY <1>4, <4>1, PlaceFacts
    <3> QED
      BY Zenon, <1>2, <1>3, <3>1 DEF Newest
  <2>3. pos' >= End
    <3>1. CASE iter_done'
      <4>1. Start >= JournalLen
        BY Zenon, <1>1, <3>1, WrittenFacts
      <4>2. Start = 0
        BY <4>1, PlaceFacts
      <4> QED
        BY <1>1, <3>1, <4>2, PlaceFacts
    <3>2. CASE ~ iter_done'
      BY <1>1, <1>4, <3>2, PlaceFacts
    <3> QED
      BY Zenon, <3>1, <3>2
  <2> QED
    BY Zenon, <1>1, <2>1, <2>2, <2>3, StaysPast DEF Past
<1>5. CASE used # 0
  <2>1. Start # 0 /\ Start < JournalLen /\ Start < End /\ Live(Start)
    <3>1. Start # 0
      BY Zenon, <1>5 DEF WriterInv, Placed
    <3> QED
      BY <1>5, <3>1, PlaceFacts DEF Live
  <2>2. Start \in Positions
    BY Zenon, <2>1, PlaceFacts, LiveFacts
  <2>3. ~ iter_done' /\ pos' = Start
    BY SMTT(40), <1>1, <2>1, WrittenFacts, PlaceFacts
  <2>4. log[Start].kind \in {"revocation", "descriptor"} /\ log[Start].sequence = sequence
    <3>1. Begins(Start, superblock.sequence) /\ Start # End
      BY <2>1, PlaceFacts DEF WriterInv, Chained
    <3> QED
      BY Zenon, <1>2, <3>1 DEF Begins
  <2>5. \A b \in FsBlocks : /\ Merged'[b] = Absent
                            /\ \A q \in Copies(b) : ~ q < Start
    <3>1. \A b \in FsBlocks : Merged'[b] = Absent
      BY Zenon, <1>1, <1>2, <1>3 DEF Merged
    <3>2. \A b \in FsBlocks : \A q \in Copies(b) : ~ q < Start
      <4> SUFFICES ASSUME NEW b \in FsBlocks, NEW q \in Copies(b) PROVE ~ q < Start
        BY Zenon
      <4>1. q \in Nat /\ Start <= q
        BY CopyFacts, JournalAssumption DEF Positions
      <4> QED
        BY <4>1, PlaceFacts
    <3> QED
      BY Zenon, <3>1, <3>2
  <2>6. Newest(Merged, pos)'
    BY Zenon, <1>1, <2>3, <2>5, DiskUnchanged DEF Newest
  <2>7. Collected' /\ TagsKept(Start)'
    BY Zenon, <1>1, <1>2 DEF Collected, TagsKept
  <2>8. AtBlock'
    BY Zenon, <1>1, <1>2, <2>1, <2>3, <2>4, <2>6, <2>7, DiskUnchanged DEF AtBlock, TagsKept
  <2> QED
    BY Zenon, <1>1, <2>8 DEF LoaderInv, writerVars
<1> QED
  BY Zenon, <1>4, <1>5

(* The loader in the live log is at a position of it. *)
LEMMA AtBlockFacts ==
  ASSUME TypeOK, WriterInv, AtBlock
  PROVE  pos \in Positions /\ pos < End /\ ~ AtEnd
  BY PlaceFacts, LiveFacts DEF AtBlock, AtEnd

LEMMA AtTagFacts ==
  ASSUME TypeOK, CollectInv, WriterInv, pc = "tags", AtTag
  PROVE  /\ block_index \in Positions /\ pos \in Positions /\ ~ AtEnd
         /\ log[block_index].kind = "descriptor" /\ log[block_index].sequence = sequence
         /\ Len(log[block_index].tags) \in Nat /\ tag <= Len(log[block_index].tags)
         /\ pos = block_index + tag + 1
         /\ block_index + Len(log[block_index].tags) + 1 < End
<1>1. /\ block_index \in Positions /\ tag <= Len(log[block_index].tags)
      /\ pos = block_index + tag + 1
      /\ log[block_index].kind = "descriptor" /\ log[block_index].sequence = sequence
  BY Zenon DEF CollectInv, Descriptor
<1>2. Len(log[block_index].tags) \in Nat
  BY <1>1, BlockType
<1>3. Live(block_index) /\ Start # 0
  BY Zenon DEF AtTag, Live
<1>4. block_index + Len(log[block_index].tags) + 1 < End
  BY Zenon, <1>1, <1>3 DEF WriterInv, Chained
<1>5. pos < JournalLen /\ pos \in Nat
  <2>1. /\ tag \in Nat /\ block_index \in Nat /\ pos \in Nat /\ JournalLen \in Nat
        /\ End \in Nat /\ End <= JournalLen
    BY Zenon, <1>3, PlaceFacts
  <2> DEFINE n == Len(log[block_index].tags)
  <2>2. n \in Nat /\ tag <= n /\ pos = block_index + tag + 1 /\ block_index + n + 1 < End
    BY Zenon, <1>1, <1>2, <1>4
  <2> HIDE DEF n
  <2> QED
    BY <2>1, <2>2
<1>6. pos \in Positions /\ ~ AtEnd
  BY <1>5, JournalAssumption DEF Positions, AtEnd, AtTag
<1> QED
  BY Zenon, <1>1, <1>2, <1>4, <1>6

(* The steps that end the load: none ends it with an error, or before the  *)
(* end of the live log.                                                    *)
LEMMA RecoveryEnding ==
  ASSUME IInv, WriterInv, LoaderInv, ~ running, UNCHANGED writerVars,
         \/ EndOfJournal \/ IterError \/ ReadError \/ NoMagic \/ WrongSequence
         \/ UnknownType \/ BadBlock \/ TagEscaped \/ TagTruncated \/ TagIterError
  PROVE  LoaderInv'
<1> USE DEF IInv
<1>1. UNCHANGED <<superblock, log, block_map>>
  BY Zenon
     DEF EndOfJournal, IterError, ReadError, NoMagic, WrongSequence, UnknownType, BadBlock,
     TagEscaped, TagTruncated, TagIterError, Take, Process, input, maps
<1>2. SUFFICES Past /\ pc' = "ok"
  BY Zenon, <1>1, <1>2, EndsPast DEF Past
<1>3. ~ AtEnd => /\ pos \in Positions
                 /\ log[pos].kind \in {"none", "descriptor", "revocation", "commit", "other"}
                 /\ log[pos].sum_ok /\ log[pos].table_ok
                 /\ log[pos].kind \in {"commit", "other"} => log[pos].sequence < tid
  BY Zenon, Within, WrittenFacts
<1>4. pc = "next" => AtBlock \/ Past
  BY Zenon DEF LoaderInv
<1>5. pc = "tags" => AtTag \/ Past
  BY Zenon DEF LoaderInv
<1>6. CASE EndOfJournal
  BY Zenon, <1>4, <1>6, AtBlockFacts DEF EndOfJournal, Finish
<1>7. CASE IterError
  BY Zenon, <1>3, <1>7 DEF IterError
<1>8. CASE ReadError
  BY Zenon, <1>3, <1>8 DEF ReadError, Take
<1>9. CASE NoMagic
  BY Zenon, <1>4, <1>9 DEF NoMagic, Take, AtBlock, Finish
<1>10. CASE WrongSequence
  BY Zenon, <1>4, <1>10 DEF WrongSequence, Take, AtBlock, Stop, Finish
<1>11. CASE UnknownType
  <2>1. /\ pc = "next" /\ ~ AtEnd /\ log[pos].kind = "other" /\ log[pos].sequence = sequence
    BY Zenon, <1>11 DEF UnknownType, Process, Take
  <2>2. Past
    BY Zenon, <1>4, <2>1 DEF AtBlock
  <2> QED
    BY <1>3, <2>1, <2>2, PlaceFacts DEF Past
<1>12. CASE BadBlock
  BY Zenon, <1>3, <1>12 DEF BadBlock, Process, Take
<1>13. CASE TagEscaped
  <2>1. /\ pc = "tags" /\ tag < Len(log[block_index].tags)
        /\ log[block_index].tags[tag + 1].escaped /\ block_index \in Positions
    BY Zenon, <1>13 DEF TagEscaped, Descriptor, NextTag, CollectInv
  <2>2. tag + 1 \in 1 .. Len(log[block_index].tags)
    BY SMTT(40), <2>1, BlockType, PlaceFacts
  <2> QED
    BY Zenon, <2>1, <2>2, WrittenFacts
<1>14. CASE TagTruncated
  BY Zenon, <1>5, <1>14, AtTagFacts DEF TagTruncated, Stop, Finish
<1>15. CASE TagIterError
  BY Zenon, <1>3, <1>15 DEF TagIterError
<1> QED
  BY Zenon, <1>6, <1>7, <1>8, <1>9, <1>10, <1>11, <1>12, <1>13, <1>14, <1>15

(* A block of the given kind is processed: in the live log, or past it,    *)
(* where no commit block is of the expected transaction.                   *)
LEMMA RecoveryProcess ==
  ASSUME IInv, WriterInv, LoaderInv, ~ running, UNCHANGED writerVars,
         NEW kind, Process(kind)
  PROVE  /\ pos \in Positions /\ pos' = pos + 1 /\ block_index' = pos /\ ~ iter_done
         /\ log[pos].kind = kind /\ log[pos].sequence = sequence
         /\ UNCHANGED <<superblock, log, iter_done>>
         /\ ~ running'
         /\ AtBlock \/ (Past /\ pos >= End /\ kind # "commit")
<1> USE DEF IInv
<1>1. /\ pc = "next" /\ ~ AtEnd /\ log[pos].kind = kind /\ log[pos].sequence = sequence
      /\ pos' = pos + 1 /\ block_index' = pos /\ UNCHANGED <<superblock, log, iter_done>>
  BY Zenon DEF Process, Take, input
<1>2. pos \in Positions /\ ~ iter_done
  BY Zenon, <1>1, Within
<1>3. AtBlock \/ (Past /\ pos >= End)
  BY Zenon, <1>1 DEF LoaderInv
<1>4. ASSUME Past, kind = "commit" PROVE FALSE
  BY <1>1, <1>2, <1>4, WrittenFacts, PlaceFacts DEF Past
<1> QED
  BY Zenon, <1>1, <1>2, <1>3, <1>4 DEF writerVars

(* Descriptor, revocation and commit blocks *)
LEMMA RecoveryDescriptor ==
  ASSUME IInv, WriterInv, LoaderInv, ~ running, UNCHANGED writerVars,
         process_descriptor_block
  PROVE  LoaderInv'
<1>1. /\ pos \in Positions /\ pos' = pos + 1 /\ block_index' = pos /\ ~ iter_done
      /\ log[pos].kind = "descriptor" /\ log[pos].sequence = sequence
      /\ UNCHANGED <<superblock, log, iter_done>> /\ ~ running'
      /\ AtBlock \/ (Past /\ pos >= End)
  BY Zenon, RecoveryProcess DEF process_descriptor_block
<1>2. /\ pc' = "tags"
      /\ UNCHANGED <<block_map, uncommitted_block_map, revoked_blocks, sequence>>
  BY Zenon DEF process_descriptor_block, maps
<1>3. CASE Past /\ pos >= End
  BY Zenon, <1>1, <1>2, <1>3, StaysPast
<1>4. CASE AtBlock
  <2>1. Merged \in BlockMap /\ Merged' = Merged
    BY Zenon, <1>2, EmptyMapMerged DEF Merged, IInv
  <2>2. Newest(Merged, pos + 1)
    BY Zenon, <1>1, <1>4, <2>1, NewestSkips DEF AtBlock, IInv
  <2>3. Newest(Merged, pos)'
    BY Zenon, <1>1, <2>1, <2>2, DiskUnchanged DEF Newest
  <2>4. Collected' /\ TagsKept(pos)
    BY Zenon, <1>1, <1>2, <1>4 DEF AtBlock, Collected
  <2>5. TagsKept(block_index)'
    BY Zenon, <1>1, <1>2, <2>4 DEF TagsKept
  <2>6. AtTag'
    BY Zenon, <1>1, <1>4, <2>3, <2>4, <2>5, DiskUnchanged DEF AtTag, AtBlock
  <2> QED
    BY Zenon, <1>1, <1>2, <2>6 DEF LoaderInv
<1> QED
  BY Zenon, <1>1, <1>3, <1>4

LEMMA RecoveryRevocation ==
  ASSUME IInv, WriterInv, LoaderInv, ~ running, UNCHANGED writerVars,
         process_revocation_block
  PROVE  LoaderInv'
<1>1. /\ pos \in Positions /\ pos' = pos + 1 /\ block_index' = pos /\ ~ iter_done
      /\ log[pos].kind = "revocation" /\ log[pos].sequence = sequence
      /\ UNCHANGED <<superblock, log, iter_done>> /\ ~ running'
      /\ AtBlock \/ (Past /\ pos >= End)
  BY Zenon, RecoveryProcess DEF process_revocation_block
<1>2. /\ pc' = "next" /\ revoked_blocks' = revoked_blocks \cup log[pos].revoked
      /\ UNCHANGED <<block_map, uncommitted_block_map, sequence>>
  BY Zenon DEF process_revocation_block, Process, Take
<1>3. pos \in Nat /\ End \in Nat
  BY Zenon, PlaceFacts DEF IInv
<1>4. CASE Past /\ pos >= End
  <2>1. pos' >= End
    BY <1>1, <1>3, <1>4
  <2> QED
    BY Zenon, <1>1, <1>2, <1>4, <2>1, StaysPast
<1>5. CASE AtBlock
  <2>1. Merged \in BlockMap /\ Merged' = Merged
    BY Zenon, <1>2, EmptyMapMerged DEF Merged, IInv
  <2>2. Newest(Merged, pos + 1)
    BY Zenon, <1>1, <1>5, <2>1, NewestSkips DEF AtBlock, IInv
  <2>3. Newest(Merged, pos)'
    BY Zenon, <1>1, <2>1, <2>2, DiskUnchanged DEF Newest
  <2>4. uncommitted_block_map = NoBlocks /\ revoked_blocks = {} /\ Live(pos)
    BY Zenon, <1>1, <1>5 DEF AtBlock
  <2>5. /\ pos + 1 < End
        /\ log[pos + 1].kind = "descriptor" /\ log[pos + 1].sequence = sequence
        /\ \A k \in 1 .. Len(log[pos + 1].tags) :
              log[pos + 1].tags[k].block \notin log[pos].revoked
    BY Zenon, <1>1, <2>4 DEF WriterInv, Chained
  <2>6. TagsKept(pos)'
    BY Zenon, <1>1, <1>2, <2>4, <2>5 DEF TagsKept
  <2>7. Collected'
    BY Zenon, <1>2, <2>4, EmptyMap DEF Collected
  <2>8. Live(pos + 1)
    BY <1>3, <2>4, <2>5, PlaceFacts DEF Live, IInv
  <2>9. AtBlock'
    BY Zenon, <1>1, <1>2, <2>3, <2>4, <2>5, <2>6, <2>7, <2>8, DiskUnchanged DEF AtBlock
  <2> QED
    BY Zenon, <1>1, <1>2, <2>9 DEF LoaderInv
<1> QED
  BY Zenon, <1>1, <1>4, <1>5

(* The commit block of a live transaction: what was collected becomes      *)
(* visible, and the next transaction begins or the live log ends.          *)
LEMMA RecoveryCommit ==
  ASSUME IInv, IInv', WriterInv, LoaderInv, ~ running, UNCHANGED writerVars,
         process_commit_block
  PROVE  LoaderInv'
<1>1. /\ pos \in Positions /\ pos' = pos + 1 /\ ~ iter_done
      /\ log[pos].kind = "commit" /\ log[pos].sequence = sequence
      /\ UNCHANGED <<superblock, log, iter_done>> /\ ~ running'
      /\ AtBlock
  BY Zenon, RecoveryProcess DEF process_commit_block
<1>2. pos \in Nat /\ End \in Nat /\ sequence \in Nat /\ tid \in Nat /\ sequence < tid
      /\ tid <= MaxSequence /\ MaxSequence \in Nat
  BY Zenon, <1>1, PlaceFacts, WrittenFacts DEF IInv
<1>3. /\ pc' = "next" /\ sequence' = sequence + 1
      /\ uncommitted_block_map' = NoBlocks /\ revoked_blocks' = {}
      /\ block_map' = [b \in FsBlocks |->
            IF uncommitted_block_map[b] # Absent /\ b \notin revoked_blocks
            THEN uncommitted_block_map[b] ELSE block_map[b]]
  <2>1. sequence # MaxSequence
    BY <1>2
  <2> QED
    BY Zenon, <2>1 DEF process_commit_block, Process, Take
<1>4. block_map' = Merged
  BY Zenon, <1>1, <1>3 DEF AtBlock, Collected, Merged
<1>5. Merged' = Merged
  BY Zenon, <1>3, <1>4, EmptyMap DEF Merged
<1>6. Newest(Merged, pos + 1)
  BY Zenon, <1>1, NewestSkips, EmptyMapMerged DEF AtBlock, IInv
<1>7. Begins(pos + 1, sequence + 1)
  BY Zenon, <1>1 DEF WriterInv, Chained, AtBlock
<1>8. CASE pos + 1 = End /\ sequence + 1 = tid
  <2>1. Past'
    BY Zenon, <1>1, <1>3, <1>4, <1>6, <1>8, DiskUnchanged DEF Past, Newest
  <2>2. pos' >= End'
    BY <1>1, <1>2, <1>8, DiskUnchanged
  <2> QED
    BY Zenon, <1>1, <1>3, <2>1, <2>2 DEF LoaderInv
<1>9. CASE /\ pos + 1 < End /\ log[pos + 1].kind \in {"revocation", "descriptor"}
           /\ log[pos + 1].sequence = sequence + 1
  <2>1. Live(pos + 1)
    BY <1>1, <1>2, <1>9, PlaceFacts DEF Live, AtBlock, IInv
  <2>2. Newest(Merged, pos)'
    BY Zenon, <1>1, <1>5, <1>6, DiskUnchanged DEF Newest
  <2>3. Collected' /\ TagsKept(pos)'
    BY Zenon, <1>3, EmptyMap DEF Collected, TagsKept
  <2>4. AtBlock'
    BY Zenon, <1>1, <1>3, <1>9, <2>1, <2>2, <2>3, DiskUnchanged DEF AtBlock
  <2> QED
    BY Zenon, <1>1, <1>3, <2>4 DEF LoaderInv
<1> QED
  BY Zenon, <1>7, <1>8, <1>9 DEF Begins

(* After the last tag of a live descriptor comes the commit block. *)
LEMMA RecoveryTagsDone ==
  ASSUME IInv, WriterInv, LoaderInv, ~ running, UNCHANGED writerVars, TagsDone
  PROVE  LoaderInv'
<1>1. /\ pc = "tags" /\ tag = Len(log[block_index].tags) /\ block_index \in Positions
      /\ pos = block_index + tag + 1
  BY Zenon DEF TagsDone, Descriptor, CollectInv, IInv
<1>2. /\ pc' = "next"
      /\ UNCHANGED <<superblock, log, pos, iter_done, block_map, uncommitted_block_map,
                     revoked_blocks, sequence>>
  BY Zenon, <1>1, WrittenFacts DEF TagsDone, Descriptor, input, maps
<1>3. AtTag \/ (Past /\ block_index >= End)
  BY Zenon, <1>1 DEF LoaderInv
<1>4. CASE Past /\ block_index >= End
  <2>1. block_index \in Nat /\ tag \in Nat /\ End \in Nat
    BY Zenon, PlaceFacts DEF IInv
  <2>2. pos' >= End
    BY <1>1, <1>2, <1>4, <2>1
  <2> QED
    BY Zenon, <1>2, <1>4, <2>2, StaysPast
<1>5. CASE AtTag
  <2>1. /\ log[block_index].kind = "descriptor" /\ log[block_index].sequence = sequence
        /\ Live(block_index) /\ pos \in Positions
    BY Zenon, <1>1, <1>5, AtTagFacts DEF IInv, AtTag
  <2>2. /\ pos < End /\ log[pos].kind = "commit" /\ log[pos].sequence = sequence
    BY Zenon, <1>1, <2>1 DEF WriterInv, Chained
  <2>3. Live(pos)
    <3>1. block_index \in Nat /\ tag \in Nat /\ Start \in Nat
      BY Zenon, PlaceFacts DEF IInv
    <3>2. Start # 0 /\ Start <= block_index
      BY Zenon, <2>1 DEF Live
    <3>3. Start <= pos
      BY <1>1, <3>1, <3>2
    <3> QED
      BY Zenon, <2>2, <3>2, <3>3 DEF Live
  <2>4. Newest(Merged, pos)' /\ Collected'
    BY Zenon, <1>2, <1>5, DiskUnchanged DEF Newest, Merged, AtTag, Collected
  <2>5. AtBlock'
    BY Zenon, <1>2, <1>5, <2>2, <2>3, <2>4, DiskUnchanged DEF AtBlock, AtTag
  <2> QED
    BY Zenon, <1>2, <2>5 DEF LoaderInv, writerVars
<1> QED
  BY Zenon, <1>3, <1>4, <1>5

(* The data block of a tag: in the live log it is the newest copy so far   *)
(* of the block that the tag names, and of no other block.                 *)
LEMMA RecoveryTagData ==
  ASSUME IInv, WriterInv, LoaderInv, ~ running, UNCHANGED writerVars, TagData
  PROVE  LoaderInv'
<1> USE DEF IInv
<1>1. /\ pc = "tags" /\ tag < Len(log[block_index].tags) /\ ~ AtEnd /\ pos' = pos + 1
      /\ block_index \in Positions /\ pos = block_index + tag + 1
      /\ UNCHANGED <<superblock, log, iter_done, block_index, block_map, revoked_blocks, sequence>>
  BY Zenon DEF TagData, Descriptor, CollectInv, input
<1>2. /\ pos \in Positions /\ log[pos].kind # "read_error"
      /\ block_index \in Nat /\ pos \in Nat /\ tag \in Nat /\ End \in Nat
      /\ Len(log[block_index].tags) \in Nat
  <2>1. pos \in Positions
    BY Zenon, <1>1, Within
  <2>2. log[pos].kind # "read_error"
    BY Zenon, <2>1, WrittenFacts
  <2>3. Len(log[block_index].tags) \in Nat
    BY <1>1, BlockType
  <2> QED
    BY Zenon, <2>1, <2>2, <2>3, PlaceFacts
<1>3. AtTag \/ (Past /\ block_index >= End)
  BY Zenon, <1>1 DEF LoaderInv
<1>4. CASE Past /\ block_index >= End
  <2>1. CASE NextTag.data_ok
    <3>1. pc' = "tags"
      BY Zenon, <1>1, <1>2, <2>1 DEF TagData
    <3> QED
      BY Zenon, <1>1, <1>4, <3>1, StaysPast
  <2>2. CASE ~ NextTag.data_ok
    <3>1. pc' = "ok"
      BY Zenon, <1>2, <2>2 DEF TagData, Stop, Finish
    <3> QED
      BY Zenon, <1>1, <1>4, <3>1, EndsPast DEF Past
  <2> QED
    BY Zenon, <2>1, <2>2
<1>5. CASE AtTag
  <2> DEFINE c == log[block_index].tags[tag + 1].block
  <2>1. /\ tag + 1 \in 1 .. Len(log[block_index].tags) /\ pos = block_index + (tag + 1)
        /\ pos - block_index = tag + 1
    BY SMTT(40), <1>1, <1>2
  <2>2. Live(block_index) /\ log[block_index].kind = "descriptor"
    BY Zenon, <1>1, <1>5, AtTagFacts DEF AtTag
  <2>3. log[block_index].tags[tag + 1].data_ok
    BY Zenon, <1>1, <2>1, <2>2 DEF WriterInv, Chained
  <2>4. /\ pc' = "tags"
        /\ uncommitted_block_map' = [uncommitted_block_map EXCEPT ![c] = pos]
    BY Zenon, <1>1, <1>2, <2>3 DEF TagData, NextTag, Descriptor
  <2>5. c \in FsBlocks /\ c \notin revoked_blocks
    <3>1. log[block_index].tags \in Seq(Tag)
      BY Zenon, <1>1, BlockType
    <3>2. log[block_index].tags[tag + 1] \in Tag
      BY <2>1, <3>1
    <3> QED
      BY Zenon, <1>5, <2>1, <3>2 DEF Tag, AtTag, TagsKept
  <2>6. pos \in Copies(c)
    BY Zenon, <1>1, <1>2, <2>1, <2>2 DEF Copies
  <2>7. \A b : pos \in Copies(b) => b = c
    BY Zenon, <1>1, <2>1, <2>2, CopyOfOne
  <2> HIDE DEF c
  <2>8. /\ Merged'[c] = pos
        /\ \A b \in FsBlocks : b # c => Merged'[b] = Merged[b]
    <3>1. /\ uncommitted_block_map'[c] = pos
          /\ \A b \in FsBlocks : b # c => uncommitted_block_map'[b] = uncommitted_block_map[b]
      BY Zenon, <2>4, <2>5 DEF TypeOK, BlockMap
    <3>2. pos # Absent
      BY <1>2 DEF Absent
    <3> QED
      BY Zenon, <1>1, <2>5, <3>1, <3>2 DEF Merged
  <2>9. Newest(Merged, pos)'
    <3> SUFFICES ASSUME NEW b \in FsBlocks
                 PROVE  /\ Merged'[b] # Absent => Merged'[b] \in Copies(b) /\ Merged'[b] < pos + 1
                        /\ \A q \in Copies(b) : q < pos + 1 => q <= Merged'[b]
      BY Zenon, <1>1, DiskUnchanged DEF Newest
    <3>1. \A q \in Copies(b) : q \in Nat
      BY CopyFacts, JournalAssumption DEF Positions
    <3>2. CASE b = c
      <4>1. Merged'[b] = pos /\ pos \in Copies(b) /\ pos < pos + 1
        BY <1>2, <2>6, <2>8, <3>2
      <4>2. \A q \in Copies(b) : q < pos + 1 => q <= pos
        BY <1>2, <3>1
      <4> QED
        BY Zenon, <4>1, <4>2
    <3>3. CASE b # c
      <4>1. /\ Merged[b] # Absent => Merged[b] \in Copies(b) /\ Merged[b] < pos
            /\ \A q \in Copies(b) : q < pos => q <= Merged[b]
        BY Zenon, <1>5 DEF AtTag, Newest
      <4>2. Merged[b] \in Int /\ Merged'[b] = Merged[b]
        BY <2>8, <3>3, EmptyMapMerged, JournalAssumption DEF BlockMap, Positions, Absent
      <4>3. ASSUME NEW q \in Copies(b), q < pos + 1 PROVE q < pos
        <5>1. q # pos
          BY Zenon, <2>7, <3>3
        <5> QED
          BY <1>2, <3>1, <4>3, <5>1
      <4> QED
        BY <1>2, <4>1, <4>2, <4>3
    <3> QED
      BY Zenon, <3>2, <3>3
  <2>10. Collected'
    BY Zenon, <1>1, <1>5, <2>4, <2>5 DEF Collected, AtTag, TypeOK, BlockMap
  <2>11. AtTag'
    BY Zenon, <1>1, <1>5, <2>9, <2>10, DiskUnchanged DEF AtTag, TagsKept
  <2> QED
    BY Zenon, <2>4, <2>11 DEF LoaderInv, writerVars
<1> QED
  BY Zenon, <1>3, <1>4, <1>5

(* Every step of the loader keeps its invariant. *)
LEMMA RecoveryLoad ==
  ASSUME IInv, IInv', WriterInv, LoaderInv, ~ running, UNCHANGED writerVars, Step
  PROVE  WriterInv' /\ LoaderInv'
<1>1. LoaderInv'
  BY Zenon, RecoveryLoadSuperblock, RecoverySkip, RecoveryEnding, RecoveryDescriptor,
     RecoveryRevocation, RecoveryCommit, RecoveryTagsDone, RecoveryTagData DEF Step, IInv
<1>2. UNCHANGED <<superblock, log>>
  BY Zenon
     DEF Step, LoadSuperblock, SkipToStart, EndOfJournal, IterError, ReadError, NoMagic,
     WrongSequence, UnknownType, BadBlock, process_descriptor_block, process_revocation_block,
     process_commit_block, TagsDone, TagEscaped, TagTruncated, TagIterError, TagData,
     Take, Process, input
<1> QED
  BY Zenon, <1>1, <1>2, DiskUnchanged

-----------------------------------------------------------------------------
(* The writer *)

(* The blocks that the writer writes are journal blocks. *)
LEMMA BlockTypes ==
  ASSUME tid \in Sequences, NEW writes \in Seq(FsBlocks), NEW revokes \in SUBSET FsBlocks,
         NEW present
  PROVE  /\ Blank \in JournalBlock /\ RevocationBlock(revokes) \in JournalBlock
         /\ DescriptorBlock(writes, present) \in JournalBlock /\ CommitBlock \in JournalBlock
<1> DEFINE tags == [k \in DOMAIN writes |->
                      [block |-> writes[k], data_ok |-> k \in present, escaped |-> FALSE]]
<1>1. Blank \in JournalBlock
  <2>1. 0 \in Sequences
    BY JournalAssumption DEF Sequences
  <2>2. <<>> \in Seq(Tag)
    OBVIOUS
  <2> QED
    BY Zenon, <2>1, <2>2 DEF Blank, JournalBlock
<1>2. tags \in Seq(Tag)
  <2>1. tags \in [1 .. Len(writes) -> Tag]
    BY DEF Tag
  <2> QED
    BY <2>1
<1> HIDE DEF tags
<1>3. RevocationBlock(revokes) \in JournalBlock
  BY Zenon, <1>1 DEF RevocationBlock, JournalBlock
<1>4. DescriptorBlock(writes, present) = [Blank EXCEPT !.kind = "descriptor", !.sequence = tid,
                                                       !.tags = tags]
  BY Zenon DEF DescriptorBlock, tags
<1>5. DescriptorBlock(writes, present) \in JournalBlock
  BY Zenon, <1>1, <1>2, <1>4 DEF JournalBlock
<1>6. CommitBlock \in JournalBlock
  BY Zenon, <1>1 DEF CommitBlock, JournalBlock
<1> QED
  BY Zenon, <1>1, <1>3, <1>5, <1>6

(* The fields of these blocks that the loader looks at *)
LEMMA PlainFields ==
         /\ Blank.kind = "none" /\ Blank.sum_ok /\ Blank.table_ok
         /\ Blank.tags_end = "last" /\ Blank.tags = <<>>
         /\ CommitBlock.kind = "commit" /\ CommitBlock.sequence = tid
         /\ CommitBlock.sum_ok /\ CommitBlock.table_ok
         /\ CommitBlock.tags_end = "last" /\ CommitBlock.tags = <<>>
BY DEF Blank, CommitBlock

IsRevocation(r, revokes) ==
    /\ r.kind = "revocation" /\ r.sequence = tid /\ r.sum_ok /\ r.table_ok
    /\ r.tags_end = "last" /\ r.tags = <<>> /\ r.revoked = revokes

IsDescriptor(d, writes, present) ==
    /\ d.kind = "descriptor" /\ d.sequence = tid /\ d.sum_ok /\ d.table_ok
    /\ d.tags_end = "last" /\ Len(d.tags) = Len(writes)
    /\ \A k \in 1 .. Len(writes) : /\ d.tags[k].block = writes[k]
                                   /\ d.tags[k].data_ok <=> k \in present
                                   /\ ~ d.tags[k].escaped

LEMMA RevocationFields ==
  ASSUME NEW revokes
  PROVE  IsRevocation(RevocationBlock(revokes), revokes)
BY DEF Blank, RevocationBlock, IsRevocation

LEMMA DescriptorFields ==
  ASSUME NEW writes \in Seq(FsBlocks), NEW present
  PROVE  IsDescriptor(DescriptorBlock(writes, present), writes, present)
<1>1. DOMAIN writes = 1 .. Len(writes) /\ Len(writes) \in Nat
  OBVIOUS
<1> DEFINE tags == [k \in DOMAIN writes |->
                      [block |-> writes[k], data_ok |-> k \in present, escaped |-> FALSE]]
<1>2. /\ Len(tags) = Len(writes)
      /\ \A k \in 1 .. Len(writes) : /\ tags[k].block = writes[k]
                                     /\ tags[k].data_ok <=> k \in present
                                     /\ ~ tags[k].escaped
  <2>1. tags \in Seq(Tag) /\ DOMAIN tags = 1 .. Len(writes)
    <3>1. tags \in [1 .. Len(writes) -> Tag]
      BY <1>1 DEF Tag
    <3> QED
      BY <1>1, <3>1
  <2>2. Len(tags) = Len(writes)
    BY <1>1, <2>1
  <2>3. \A k \in 1 .. Len(writes) :
           tags[k] = [block |-> writes[k], data_ok |-> k \in present, escaped |-> FALSE]
    BY Zenon, <1>1
  <2> HIDE DEF tags
  <2>4. ASSUME NEW k \in 1 .. Len(writes)
        PROVE  /\ tags[k].block = writes[k]
               /\ tags[k].data_ok <=> k \in present
               /\ ~ tags[k].escaped
    <3>1. tags[k] = [block |-> writes[k], data_ok |-> k \in present, escaped |-> FALSE]
      BY Zenon, <2>3
    <3>2. tags[k].block = writes[k] /\ ~ tags[k].escaped
      BY <3>1
    <3>3. tags[k].data_ok = (k \in present)
      <4> DEFINE ok == k \in present
      <4> HIDE DEF ok
      <4>1. tags[k] = [block |-> writes[k], data_ok |-> ok, escaped |-> FALSE]
        BY Zenon, <3>1 DEF ok
      <4>2. tags[k].data_ok = ok
        BY <4>1
      <4> QED
        BY Zenon, <4>2 DEF ok
    <3> QED
      BY Zenon, <3>2, <3>3
  <2> QED
    BY Zenon, <2>2, <2>4
<1> HIDE DEF tags
<1>3. DescriptorBlock(writes, present) = [Blank EXCEPT !.kind = "descriptor", !.sequence = tid,
                                                       !.tags = tags]
  BY Zenon DEF DescriptorBlock, tags
<1>4. /\ DescriptorBlock(writes, present).kind = "descriptor"
      /\ DescriptorBlock(writes, present).sequence = tid
      /\ DescriptorBlock(writes, present).sum_ok /\ DescriptorBlock(writes, present).table_ok
      /\ DescriptorBlock(writes, present).tags_end = "last"
      /\ DescriptorBlock(writes, present).tags = tags
  BY Zenon, <1>3 DEF Blank
<1> QED
  BY Zenon, <1>2, <1>4 DEF IsDescriptor

LEMMA BlocksIntact ==
  ASSUME NEW writes \in Seq(FsBlocks), NEW revokes, NEW present
  PROVE  /\ Intact(Blank) /\ Intact(RevocationBlock(revokes))
         /\ Intact(DescriptorBlock(writes, present)) /\ Intact(CommitBlock)
<1>1. Len(<<>>) = 0
  OBVIOUS
<1>2. 1 .. 0 = {}
  OBVIOUS
<1>3. Intact(Blank) /\ Intact(CommitBlock)
  BY Zenon, <1>1, <1>2, PlainFields DEF Intact
<1>4. Intact(RevocationBlock(revokes))
  BY Zenon, <1>1, <1>2, RevocationFields DEF Intact, IsRevocation
<1>5. Intact(DescriptorBlock(writes, present))
  BY Zenon, DescriptorFields DEF Intact, IsDescriptor
<1> QED
  BY Zenon, <1>3, <1>4, <1>5

(* The blocks of a transaction, by their place in it: R is the number of   *)
(* its revocation blocks.                                                  *)
InOrder(txn, R, writes, revokes, present) ==
    /\ R \in {0, 1} /\ (R = 0 <=> revokes = {})
    /\ txn \in Seq(JournalBlock) /\ Len(txn) = R + Len(writes) + 2
    /\ R = 1 => txn[1] = RevocationBlock(revokes)
    /\ txn[R + 1] = DescriptorBlock(writes, present)
    /\ \A k \in 1 .. Len(writes) : txn[R + 1 + k] = Blank
    /\ txn[R + Len(writes) + 2] = CommitBlock

LEMMA TransactionFacts ==
  ASSUME tid \in Sequences, NEW writes \in Seq(FsBlocks), NEW revokes \in SUBSET FsBlocks,
         NEW present
  PROVE  InOrder(Transaction(writes, revokes, present), Len(RevokePart(revokes)),
                 writes, revokes, present)
<1> DEFINE R == Len(RevokePart(revokes))
           txn == Transaction(writes, revokes, present)
<1> DEFINE a == RevokePart(revokes)
           b == <<DescriptorBlock(writes, present)>>
           c == [k \in DOMAIN writes |-> Blank]
           d == <<CommitBlock>>
<1>1. /\ Blank \in JournalBlock /\ RevocationBlock(revokes) \in JournalBlock
      /\ DescriptorBlock(writes, present) \in JournalBlock /\ CommitBlock \in JournalBlock
  BY Zenon, BlockTypes
<1>2. /\ a \in Seq(JournalBlock) /\ (Len(a) = 0 <=> revokes = {}) /\ Len(a) \in {0, 1}
      /\ Len(a) = 1 => a[1] = RevocationBlock(revokes)
  BY <1>1 DEF RevokePart
<1>3. b \in Seq(JournalBlock) /\ Len(b) = 1 /\ b[1] = DescriptorBlock(writes, present)
  BY <1>1
<1>4. /\ c \in Seq(JournalBlock) /\ Len(c) = Len(writes)
      /\ \A k \in 1 .. Len(writes) : c[k] = Blank
  <2>1. Len(writes) \in Nat /\ DOMAIN writes = 1 .. Len(writes)
    OBVIOUS
  <2>2. c \in [1 .. Len(writes) -> JournalBlock]
    BY Zenon, <1>1, <2>1
  <2> QED
    BY <2>1, <2>2
<1>5. d \in Seq(JournalBlock) /\ Len(d) = 1 /\ d[1] = CommitBlock
  BY <1>1
<1>6. txn = a \o b \o c \o d
  BY Zenon DEF Transaction
<1>7. R = Len(a)
  BY Zenon
<1> HIDE DEF a, b, c, d, R, txn
<1>8. /\ txn \in Seq(JournalBlock) /\ Len(txn) = Len(a) + Len(b) + Len(c) + Len(d)
      /\ \A i \in 1 .. Len(a) : txn[i] = a[i]
      /\ \A i \in 1 .. Len(b) : txn[Len(a) + i] = b[i]
      /\ \A i \in 1 .. Len(c) : txn[Len(a) + Len(b) + i] = c[i]
      /\ \A i \in 1 .. Len(d) : txn[Len(a) + Len(b) + Len(c) + i] = d[i]
  <2>a. /\ a \in Seq(JournalBlock) /\ b \in Seq(JournalBlock)
        /\ c \in Seq(JournalBlock) /\ d \in Seq(JournalBlock)
    BY Zenon, <1>2, <1>3, <1>4, <1>5
  <2>0. Len(a) \in Nat /\ Len(b) \in Nat /\ Len(c) \in Nat /\ Len(d) \in Nat
    BY <2>a
  <2>1. PICK x : x = a \o b
    BY Zenon
  <2>2. PICK y : y = x \o c
    BY Zenon
  <2>3. txn = y \o d
    BY Zenon, <1>6, <2>1, <2>2
  <2>typed. x \in Seq(JournalBlock) /\ y \in Seq(JournalBlock)
    <3>1. x \in Seq(JournalBlock)
      BY <2>1, <2>a
    <3> QED
      BY <2>2, <2>a, <3>1
  <2>4. /\ x \in Seq(JournalBlock) /\ Len(x) = Len(a) + Len(b)
        /\ \A i \in 1 .. Len(a) : x[i] = a[i]
        /\ \A i \in 1 .. Len(b) : x[Len(a) + i] = b[i]
    BY <2>1, <2>a
  <2>5. /\ y \in Seq(JournalBlock) /\ Len(y) = Len(x) + Len(c)
        /\ \A i \in 1 .. Len(x) : y[i] = x[i]
        /\ \A i \in 1 .. Len(c) : y[Len(x) + i] = c[i]
    BY <2>2, <2>a, <2>typed
  <2>6. /\ txn \in Seq(JournalBlock) /\ Len(txn) = Len(y) + Len(d)
        /\ \A i \in 1 .. Len(y) : txn[i] = y[i]
        /\ \A i \in 1 .. Len(d) : txn[Len(y) + i] = d[i]
    BY <2>3, <2>a, <2>typed
  <2>7. ASSUME NEW i \in 1 .. Len(a) PROVE txn[i] = a[i]
    <3>1. i \in 1 .. Len(x) /\ i \in 1 .. Len(y)
      BY <2>0, <2>4, <2>5
    <3> QED
      BY Zenon, <2>4, <2>5, <2>6, <3>1
  <2>8. ASSUME NEW i \in 1 .. Len(b) PROVE txn[Len(a) + i] = b[i]
    <3>1. Len(a) + i \in 1 .. Len(x) /\ Len(a) + i \in 1 .. Len(y)
      BY <2>0, <2>4, <2>5
    <3> QED
      BY Zenon, <2>4, <2>5, <2>6, <3>1
  <2>9. ASSUME NEW i \in 1 .. Len(c) PROVE txn[Len(a) + Len(b) + i] = c[i]
    <3>1. Len(x) + i \in 1 .. Len(y)
      BY <2>0, <2>4, <2>5
    <3> QED
      BY Zenon, <2>4, <2>5, <2>6, <3>1
  <2>10. Len(y) = Len(a) + Len(b) + Len(c)
    BY Zenon, <2>4, <2>5
  <2> QED
    BY Zenon, <2>6, <2>7, <2>8, <2>9, <2>10
<1>9. Len(writes) \in Nat
  OBVIOUS
<1>10. txn[R + 1] = DescriptorBlock(writes, present)
  BY <1>3, <1>7, <1>8
<1>11. \A k \in 1 .. Len(writes) : txn[R + 1 + k] = Blank
  BY Zenon, <1>3, <1>4, <1>7, <1>8
<1>12. txn[R + Len(writes) + 2] = CommitBlock
  <2>1. Len(a) + Len(b) + Len(c) + 1 = R + Len(writes) + 2
    BY <1>2, <1>3, <1>4, <1>7, <1>9
  <2> QED
    BY <1>5, <1>8, <2>1
<1>13. R = 1 => txn[1] = RevocationBlock(revokes)
  BY <1>2, <1>7, <1>8
<1>14. Len(txn) = R + Len(writes) + 2
  BY <1>2, <1>3, <1>4, <1>5, <1>7, <1>8, <1>9
<1> QED
  <2>1. /\ R \in {0, 1} /\ (R = 0 <=> revokes = {})
        /\ txn \in Seq(JournalBlock)
    BY Zenon, <1>2, <1>7, <1>8
  <2> QED
    BY Zenon, <1>10, <1>11, <1>12, <1>13, <1>14, <2>1 DEF R, txn, InOrder

(* What a transaction may write *)
LEMMA WritesFacts ==
  ASSUME NEW writes \in DistinctWrites
  PROVE  /\ writes \in Seq(FsBlocks) /\ Len(writes) \in Nat /\ Len(writes) >= 1
         /\ DOMAIN writes = 1 .. Len(writes)
         /\ \A j, k \in 1 .. Len(writes) : writes[j] = writes[k] => j = k
         /\ \A c : c \in Range(writes) <=> \E k \in 1 .. Len(writes) : writes[k] = c
<1>1. writes \in Writes /\ IsInjective(writes)
  BY Zenon DEF DistinctWrites
<1>2. writes \in Seq(FsBlocks) /\ Len(writes) >= 1
  <2>1. CASE \E b \in FsBlocks : writes = <<b>>
    BY <2>1
  <2>2. CASE \E b \in FsBlocks, c \in FsBlocks : writes = <<b, c>>
    BY <2>2
  <2> QED
    BY <1>1, <2>1, <2>2 DEF Writes
<1>3. Len(writes) \in Nat /\ DOMAIN writes = 1 .. Len(writes)
  BY <1>2
<1>4. \A j, k \in 1 .. Len(writes) : writes[j] = writes[k] => j = k
  BY Zenon, <1>1, <1>3 DEF IsInjective
<1>5. \A c : c \in Range(writes) <=> \E k \in 1 .. Len(writes) : writes[k] = c
  BY Zenon, <1>3 DEF Range
<1> QED
  BY Zenon, <1>2, <1>3, <1>4, <1>5

(* There is room for n blocks at head, after the live log. *)
LEMMA Room ==
  ASSUME TypeOK, WriterInv, ~ WrapLog, NEW n \in Nat, n > 0, Fits(n)
  PROVE  /\ head \in Nat /\ head > 0 /\ head + n <= JournalLen /\ JournalLen \in Nat
         /\ Start # 0 => head = End
         /\ \A p \in Positions : p > 0 =>
               /\ Offset(p) \in Int
               /\ Offset(p) < n <=> head <= p /\ p < head + n
               /\ head <= p => Offset(p) = p - head
               /\ p < head => Offset(p) >= n
<1>1. /\ head \in Nat /\ head > 0 /\ used \in Nat /\ JournalLen \in Nat /\ Start \in Nat
      /\ End = Start + used
  <2>1. head \in Nat /\ head > 0
    BY Zenon DEF WriterInv, WriterTypeOK, Placed
  <2> QED
    BY Zenon, <2>1, PlaceFacts
<1>2. used + n <= JournalLen - 1 /\ head >= Start /\ head + n <= JournalLen
  BY Zenon DEF Fits, Start
<1>3. Start # 0 => head = End
  <2> SUFFICES ASSUME Start # 0, head = 1, End = JournalLen PROVE FALSE
    BY Zenon DEF WriterInv, Placed
  <2>1. Start = 1
    BY <1>1, <1>2
  <2> QED
    BY <1>1, <1>2, <2>1
<1>4. ASSUME NEW p \in Positions, p > 0
      PROVE  /\ Offset(p) \in Int
             /\ Offset(p) < n <=> head <= p /\ p < head + n
             /\ head <= p => Offset(p) = p - head
             /\ p < head => Offset(p) >= n
  <2>1. p \in Nat /\ p < JournalLen
    BY <1>1 DEF Positions
  <2>2. CASE head <= p
    <3>1. Offset(p) = p - head
      BY Zenon, <2>2 DEF Offset
    <3> QED
      BY <1>1, <2>1, <2>2, <3>1
  <2>3. CASE ~ head <= p
    <3>1. Offset(p) = p - head + (JournalLen - 1)
      BY Zenon, <2>3 DEF Offset
    <3> QED
      BY <1>1, <1>2, <1>4, <2>1, <2>3, <3>1
  <2> QED
    BY Zenon, <2>2, <2>3
<1> QED
  BY Zenon, <1>1, <1>2, <1>3, <1>4

-----------------------------------------------------------------------------
(* The steps of the writer between transactions *)

(* The writer does not touch the loader, which has not started. *)
LEMMA BeforeLoading ==
  ASSUME IInv, LoaderInv, running, UNCHANGED loaderVars,
         superblock' \in Superblock, log' \in [Positions -> JournalBlock]
  PROVE  IInv' /\ LoaderInv'
<1>1. pc = "superblock" /\ UNCHANGED <<pc, error, pos, iter_done, block_index, tag, block_map,
                                       uncommitted_block_map, revoked_blocks, sequence>>
  BY Zenon DEF LoaderInv, loaderVars, maps
<1>2. block_map = NoBlocks /\ uncommitted_block_map = NoBlocks
  BY Zenon, <1>1 DEF IInv, PhaseInv
<1>3. TypeOK'
  BY Zenon, <1>1 DEF IInv, TypeOK
<1>4. PhaseInv' /\ LoaderInv'
  BY Zenon, <1>1 DEF IInv, PhaseInv, LoaderInv
<1>5. CollectInv' /\ OnlyCommitted'
  BY Zenon, <1>1, <1>2, EmptyMap DEF CollectInv, OnlyCommitted
<1> QED
  BY Zenon, <1>3, <1>4, <1>5 DEF IInv

(* Recording where the log starts leaves the superblock usable. *)
LEMMA Recorded ==
  ASSUME superblock \in Superblock, Reading, NEW start \in Nat, NEW s \in Sequences,
         superblock' = [superblock EXCEPT !.start_block = start, !.sequence = s]
  PROVE  /\ superblock' \in Superblock /\ Reading'
         /\ Start' = start /\ superblock'.sequence = s
<1>1. superblock' \in Superblock /\ Start' = start /\ superblock'.sequence = s
  BY Zenon DEF Superblock, Start
<1>2. /\ superblock'.present = superblock.present /\ superblock'.io = superblock.io
      /\ superblock'.magic = superblock.magic /\ superblock'.v2 = superblock.v2
      /\ superblock'.required = superblock.required
      /\ superblock'.unsupported = superblock.unsupported
      /\ superblock'.crc32c = superblock.crc32c /\ superblock'.sum_ok = superblock.sum_ok
      /\ superblock'.size_ok = superblock.size_ok
  BY Zenon DEF Superblock
<1>3. superblock_error(superblock') = superblock_error(superblock)
  BY Zenon, <1>2 DEF superblock_error
<1> QED
  BY Zenon, <1>1, <1>2, <1>3 DEF Reading

LEMMA CrashKeeps ==
  ASSUME WriterInv, Crash
  PROVE  WriterInv'
<1>1. UNCHANGED <<superblock, log, home, truth, jdata, head, used, inlog, tid, version>>
  BY Zenon DEF Crash, input
<1>2. /\ Start' = Start /\ End' = End
      /\ \A b : Copies(b)' = Copies(b)
      /\ Written => Written'
      /\ Chained => Chained'
  BY Zenon, <1>1, SameLog
<1>3. WriterTypeOK'
  BY Zenon, <1>1 DEF WriterInv, WriterTypeOK
<1>4. Placed'
  BY Zenon, <1>1, <1>2 DEF WriterInv, Placed, Reading
<1>5. UpToDate'
  BY Zenon, <1>1, <1>2 DEF WriterInv, UpToDate
<1> QED
  BY Zenon, <1>2, <1>3, <1>4, <1>5 DEF WriterInv

LEMMA WriteBackKeeps ==
  ASSUME WriterInv, NEW b \in FsBlocks, WriteBack(b)
  PROVE  WriterInv'
<1>1. /\ UNCHANGED <<superblock, log, truth, jdata, head, used, inlog, tid, version>>
      /\ b \in inlog /\ home' = [home EXCEPT ![b] = truth[b]]
  BY Zenon DEF WriteBack, input
<1>2. /\ Start' = Start /\ End' = End
      /\ \A c : Copies(c)' = Copies(c)
      /\ Written => Written'
      /\ Chained => Chained'
  BY Zenon, <1>1, SameLog
<1>3. WriterTypeOK'
  BY Zenon, <1>1 DEF WriterInv, WriterTypeOK
<1>4. Placed'
  BY Zenon, <1>1, <1>2 DEF WriterInv, Placed, Reading
<1>5. UpToDate'
  <2>1. \A c \in FsBlocks : c \notin inlog => home'[c] = home[c]
    BY Zenon, <1>1 DEF WriterInv, WriterTypeOK
  <2> QED
    BY Zenon, <1>1, <1>2, <2>1 DEF WriterInv, UpToDate
<1> QED
  BY Zenon, <1>2, <1>3, <1>4, <1>5 DEF WriterInv

LEMMA WriteInPlaceKeeps ==
  ASSUME WriterInv, NEW b \in FsBlocks, WriteInPlace(b)
  PROVE  WriterInv'
<1>1. /\ UNCHANGED <<superblock, log, jdata, head, used, inlog, tid>>
      /\ b \notin inlog /\ version' = version + 1
      /\ home' = [home EXCEPT ![b] = version'] /\ truth' = [truth EXCEPT ![b] = version']
  BY Zenon DEF WriteInPlace, input
<1>2. /\ Start' = Start /\ End' = End
      /\ \A c : Copies(c)' = Copies(c)
      /\ Written => Written'
      /\ Chained => Chained'
  BY Zenon, <1>1, SameLog
<1>3. WriterTypeOK'
  BY <1>1 DEF WriterInv, WriterTypeOK
<1>4. Placed'
  BY Zenon, <1>1, <1>2 DEF WriterInv, Placed, Reading
<1>5. UpToDate'
  <2>1. /\ home'[b] = truth'[b]
        /\ \A c \in FsBlocks : c # b => home'[c] = home[c] /\ truth'[c] = truth[c]
    BY Zenon, <1>1 DEF WriterInv, WriterTypeOK
  <2> QED
    BY Zenon, <1>1, <1>2, <2>1 DEF WriterInv, UpToDate
<1> QED
  BY Zenon, <1>2, <1>3, <1>4, <1>5 DEF WriterInv

LEMMA RemountKeeps ==
  ASSUME WriterInv, Remount
  PROVE  WriterInv'
<1>1. /\ UNCHANGED <<superblock, log, home, truth, jdata, used, inlog, tid, version>>
      /\ Start = 0 /\ head' = 1
  BY Zenon DEF Remount, input, Start
<1>2. /\ Start' = Start /\ End' = End
      /\ \A b : Copies(b)' = Copies(b)
      /\ Written => Written'
      /\ Chained => Chained'
  BY Zenon, <1>1, SameLog
<1>3. WriterTypeOK'
  BY Zenon, <1>1 DEF WriterInv, WriterTypeOK
<1>4. Placed'
  BY <1>1, <1>2 DEF WriterInv, Placed, Reading
<1>5. UpToDate'
  BY Zenon, <1>1, <1>2 DEF WriterInv, UpToDate
<1> QED
  BY Zenon, <1>2, <1>3, <1>4, <1>5 DEF WriterInv

LEMMA CheckpointKeeps ==
  ASSUME TypeOK, WriterInv, Checkpoint
  PROVE  superblock' \in Superblock /\ WriterInv'
<1>1. /\ UNCHANGED <<log, home, truth, jdata, head, tid, version>>
      /\ home = truth /\ inlog' = {} /\ used' = 0
      /\ superblock' = [superblock EXCEPT !.start_block = 0, !.sequence = tid]
  BY Zenon DEF Checkpoint
<1>2. superblock' \in Superblock /\ Reading' /\ Start' = 0 /\ superblock'.sequence = tid
  <2>1. superblock \in Superblock /\ Reading /\ tid \in Sequences
    BY Zenon DEF TypeOK, WriterInv, WriterTypeOK, Placed
  <2> QED
    BY Zenon, <1>1, <2>1, Recorded
<1>3. (\A p : ~ Live(p)') /\ (\A b : Copies(b)' = {})
  BY Zenon, <1>2 DEF Live, Copies
<1>4. WriterTypeOK'
  BY Zenon, <1>1 DEF WriterInv, WriterTypeOK
<1>5. Placed'
  BY Zenon, <1>1, <1>2 DEF WriterInv, Placed
<1>6. Written'
  BY Zenon, <1>1 DEF WriterInv, Written
<1>7. Chained'
  BY Zenon, <1>2, <1>3 DEF Chained
<1>8. UpToDate'
  BY Zenon, <1>1, <1>3 DEF UpToDate
<1> QED
  BY Zenon, <1>2, <1>4, <1>5, <1>6, <1>7, <1>8 DEF WriterInv

-----------------------------------------------------------------------------
(* The transactions of the writer *)

(* The superblock says where the log starts once a transaction is written. *)
LEMMA ActivatedFacts ==
  ASSUME TypeOK, WriterInv, ~ WrapLog, NEW n \in Nat, n > 0, Fits(n), superblock' = Activated
  PROVE  /\ superblock' \in Superblock /\ Reading'
         /\ Start' \in Nat /\ Start' > 0 /\ Start' <= head /\ Start' + used = head
         /\ Start # 0 => /\ Start' = Start /\ End = head
                         /\ superblock'.sequence = superblock.sequence
         /\ Start = 0 => /\ Start' = head /\ used = 0 /\ superblock'.sequence = tid
         /\ used = 0 => superblock'.sequence = tid
<1>1. /\ head \in Nat /\ head > 0 /\ Start \in Nat /\ used \in Nat /\ End = Start + used
      /\ Start # 0 => head = End
  BY Zenon, Room, PlaceFacts
<1>2. superblock \in Superblock /\ Reading /\ tid \in Sequences
  BY Zenon DEF TypeOK, WriterInv, WriterTypeOK, Placed
<1>3. /\ Start = 0 => used = 0
      /\ used = 0 => superblock.sequence = tid
  BY Zenon DEF WriterInv, Placed
<1>4. CASE Start = 0
  <2>1. superblock' = [superblock EXCEPT !.start_block = head, !.sequence = tid]
    BY Zenon, <1>4 DEF Activated, Start
  <2>2. /\ superblock' \in Superblock /\ Reading'
        /\ Start' = head /\ superblock'.sequence = tid
    BY Zenon, <1>1, <1>2, <2>1, Recorded
  <2> QED
    BY <1>1, <1>3, <1>4, <2>2
<1>5. CASE Start # 0
  <2>1. superblock' = superblock
    BY Zenon, <1>5 DEF Activated, Start
  <2>2. Reading' /\ Start' = Start
    BY Zenon, <1>2, <2>1 DEF Reading, Start
  <2> QED
    BY <1>1, <1>2, <1>3, <1>5, <2>1, <2>2
<1> QED
  BY Zenon, <1>4, <1>5

(* The transaction that writes `writes` and revokes `revokes` is in the    *)
(* log: its descriptor is at D and its commit block at C.                  *)
Appended(writes, revokes, D, C) ==
    /\ D \in Positions /\ C \in Positions /\ head <= D /\ C = D + Len(writes) + 1
    /\ revokes = {} => D = head
    /\ revokes # {} => D = head + 1 /\ log'[head] = RevocationBlock(revokes)
    /\ log'[D] = DescriptorBlock(writes, 1 .. Len(writes))
    /\ \A k \in 1 .. Len(writes) : log'[D + k] = Blank /\ jdata'[D + k] = version + k
    /\ log'[C] = CommitBlock
    /\ \A p \in Positions : p < head => log'[p] = log[p] /\ jdata'[p] = jdata[p]
    /\ \A p \in Positions : p > C => log'[p] = log[p]
    /\ used' = used + (C + 1 - head)
    /\ head' = IF C + 1 < JournalLen THEN C + 1 ELSE 1

LEMMA CommitAppends ==
  ASSUME TypeOK, WriterInv, ~ WrapLog, NEW writes \in DistinctWrites,
         NEW revokes \in SUBSET FsBlocks, CommitTransaction(writes, revokes)
  PROVE  \E D, C : Appended(writes, revokes, D, C)
<1> DEFINE txn == Transaction(writes, revokes, DOMAIN writes)
           R == Len(RevokePart(revokes))
           n == Len(writes)
           D == head + R
           C == head + R + n + 1
<1>1. /\ writes \in Seq(FsBlocks) /\ n \in Nat /\ n >= 1 /\ DOMAIN writes = 1 .. n
  BY Zenon, WritesFacts
<1>2. InOrder(txn, R, writes, revokes, 1 .. n)
  <2>1. tid \in Sequences
    BY Zenon DEF WriterInv, WriterTypeOK
  <2>2. InOrder(txn, R, writes, revokes, DOMAIN writes)
    BY Zenon, <1>1, <2>1, TransactionFacts
  <2> HIDE DEF txn, R, n
  <2> QED
    BY Zenon, <1>1, <2>2
<1>3. /\ Fits(Len(txn))
      /\ log' = [p \in Positions |-> IF p > 0 /\ Offset(p) < Len(txn)
                                     THEN txn[Offset(p) + 1] ELSE log[p]]
      /\ jdata' = [p \in Positions |->
                      IF p > 0 /\ Offset(p) - (R + 1) + 1 \in DOMAIN writes
                      THEN version + (Offset(p) - (R + 1) + 1) ELSE jdata[p]]
      /\ head' = At(Len(txn)) /\ used' = used + Len(txn)
  BY Zenon DEF CommitTransaction
<1> HIDE DEF txn, R, n
<1>4. /\ head \in Nat /\ head > 0 /\ head + Len(txn) <= JournalLen /\ JournalLen \in Nat
      /\ \A p \in Positions : p > 0 =>
            /\ Offset(p) \in Int
            /\ Offset(p) < Len(txn) <=> head <= p /\ p < head + Len(txn)
            /\ head <= p => Offset(p) = p - head
            /\ p < head => Offset(p) >= Len(txn)
  <2>1. Len(txn) \in Nat /\ Len(txn) > 0
    BY <1>1, <1>2 DEF InOrder, n
  <2> QED
    BY Zenon, <1>3, <2>1, Room
<1>num. /\ R \in Nat /\ R <= 1 /\ n \in Nat /\ head \in Nat /\ head > 0 /\ JournalLen \in Nat
        /\ head + R + n + 2 <= JournalLen /\ Len(txn) = R + n + 2 /\ version \in Nat
  BY <1>1, <1>2, <1>4 DEF WriterInv, WriterTypeOK, InOrder, n
<1>5. ASSUME NEW i \in 0 .. R + n + 1
      PROVE  /\ head + i \in Positions /\ log'[head + i] = txn[i + 1]
             /\ i - R \in 1 .. n => jdata'[head + i] = version + (i - R)
  <2>1. i \in Nat /\ head + i \in Nat /\ head + i < JournalLen /\ head + i > 0 /\ head <= head + i
    BY <1>num
  <2>2. head + i \in Positions
    BY <1>num, <2>1 DEF Positions
  <2>3. Offset(head + i) = i
    <3>1. Offset(head + i) = (head + i) - head
      BY Zenon, <1>4, <2>1, <2>2
    <3> QED
      BY <1>num, <2>1, <3>1
  <2>4. Offset(head + i) < Len(txn)
    BY <1>num, <2>1, <2>3
  <2>5. log'[head + i] = txn[i + 1]
    BY Zenon, <1>3, <2>1, <2>2, <2>3, <2>4
  <2>6. ASSUME i - R \in 1 .. n PROVE jdata'[head + i] = version + (i - R)
    <3>1. Offset(head + i) - (R + 1) + 1 = i - R
      BY <1>num, <2>1, <2>3
    <3> QED
      BY Zenon, <1>1, <1>3, <2>1, <2>2, <2>6, <3>1 DEF n
  <2> QED
    BY Zenon, <2>2, <2>5, <2>6
<1>6. ASSUME NEW p \in Positions, p < head PROVE log'[p] = log[p] /\ jdata'[p] = jdata[p]
  <2>1. p \in Nat
    BY <1>num DEF Positions
  <2>2. CASE p = 0
    BY <1>3, <2>2
  <2>3. CASE p > 0
    <3>1. Offset(p) \in Int /\ Offset(p) >= Len(txn)
      BY Zenon, <1>4, <1>6, <2>3
    <3>2. ~ Offset(p) < Len(txn) /\ Offset(p) - (R + 1) + 1 \notin 1 .. n
      BY <1>num, <3>1
    <3> QED
      BY Zenon, <1>1, <1>3, <3>2 DEF n
  <2> QED
    BY <2>1, <2>2, <2>3
<1>7. ASSUME NEW p \in Positions, p > C PROVE log'[p] = log[p]
  <2>1. p \in Nat /\ p > 0 /\ ~ p < head + Len(txn)
    BY <1>num, <1>7 DEF Positions
  <2>2. ~ Offset(p) < Len(txn)
    BY Zenon, <1>4, <2>1
  <2> QED
    BY Zenon, <1>3, <2>2
<1>8. D \in Positions /\ C \in Positions /\ head <= D /\ C = D + n + 1
  BY <1>num DEF Positions
<1>9. (revokes = {} => D = head) /\ (revokes # {} => D = head + 1)
  BY <1>2, <1>num DEF InOrder
<1>10. revokes # {} => log'[head] = RevocationBlock(revokes)
  <2> SUFFICES ASSUME revokes # {} PROVE log'[head] = RevocationBlock(revokes)
    BY Zenon
  <2>1. R = 1 /\ 0 \in 0 .. R + n + 1 /\ head + 0 = head /\ 0 + 1 = 1
    BY <1>2, <1>num DEF InOrder
  <2>2. log'[head + 0] = txn[0 + 1]
    BY Zenon, <1>5, <2>1
  <2> QED
    BY Zenon, <1>2, <2>1, <2>2 DEF InOrder
<1>11. log'[D] = DescriptorBlock(writes, 1 .. n)
  <2>1. R \in 0 .. R + n + 1
    BY <1>num
  <2> QED
    BY Zenon, <1>2, <1>5, <2>1 DEF InOrder
<1>12. ASSUME NEW k \in 1 .. n PROVE log'[D + k] = Blank /\ jdata'[D + k] = version + k
  <2>1. /\ R + k \in 0 .. R + n + 1 /\ head + (R + k) = D + k /\ (R + k) + 1 = R + 1 + k
        /\ (R + k) - R = k
    BY <1>num
  <2>2. /\ log'[head + (R + k)] = txn[(R + k) + 1]
        /\ (R + k) - R \in 1 .. n => jdata'[head + (R + k)] = version + ((R + k) - R)
    BY Zenon, <1>5, <2>1
  <2>3. txn[R + 1 + k] = Blank
    BY Zenon, <1>2 DEF InOrder, n
  <2> HIDE DEF D
  <2> QED
    BY Zenon, <2>1, <2>2, <2>3
<1>13. log'[C] = CommitBlock
  <2>1. R + n + 1 \in 0 .. R + n + 1 /\ head + (R + n + 1) = C /\ (R + n + 1) + 1 = R + n + 2
    BY <1>num
  <2>2. log'[head + (R + n + 1)] = txn[(R + n + 1) + 1]
    BY Zenon, <1>5, <2>1
  <2> HIDE DEF C
  <2> QED
    BY Zenon, <1>2, <2>1, <2>2 DEF InOrder, n
<1>14. used' = used + (C + 1 - head)
  <2>1. C + 1 - head = Len(txn)
    BY <1>num
  <2> QED
    BY Zenon, <1>3, <2>1
<1>15. head' = IF C + 1 < JournalLen THEN C + 1 ELSE 1
  <2>1. head + Len(txn) = C + 1
    BY <1>num
  <2>2. ~ C + 1 < JournalLen => (C + 1) - (JournalLen - 1) = 1
    BY <1>num
  <2> HIDE DEF C
  <2> QED
    <3>1. At(Len(txn)) = IF C + 1 < JournalLen THEN C + 1 ELSE (C + 1) - (JournalLen - 1)
      BY <1>num, <2>1 DEF At
    <3> QED
      BY Zenon, <1>3, <2>2, <3>1
<1>16. Appended(writes, revokes, D, C)
  <2> HIDE DEF D, C
  <2> QED
    BY Zenon, <1>6, <1>7, <1>8, <1>9, <1>10, <1>11, <1>12, <1>13, <1>14, <1>15
       DEF Appended, n
<1> QED
  BY Zenon, <1>16

(* Where the live log is after a commit *)
LEMMA CommitPlace ==
  ASSUME TypeOK, WriterInv, ~ WrapLog, NEW writes \in DistinctWrites,
         NEW revokes \in SUBSET FsBlocks, CommitTransaction(writes, revokes),
         NEW D, NEW C, Appended(writes, revokes, D, C)
  PROVE  /\ superblock' \in Superblock /\ Reading'
         /\ head \in Nat /\ head > 0 /\ D \in Nat /\ C \in Nat /\ Len(writes) \in Nat
         /\ JournalLen \in Nat /\ C < JournalLen /\ C = D + Len(writes) + 1
         /\ Len(writes) >= 1 /\ (D = head \/ D = head + 1)
         /\ Start' \in Nat /\ Start' > 0 /\ Start' <= head /\ End' = C + 1
         /\ Start # 0 => /\ Start' = Start /\ End = head
                         /\ superblock'.sequence = superblock.sequence
         /\ Start = 0 => Start' = head /\ superblock'.sequence = tid
         /\ tid \in Nat /\ tid > 0 /\ tid' = tid + 1
         /\ used \in Nat /\ used' \in Nat /\ used' > 0
         /\ \A p \in Positions : Live(p)' <=> Live(p) \/ (head <= p /\ p <= C)
         /\ \A p \in Positions : Live(p) => p < head
<1> DEFINE m == Len(Transaction(writes, revokes, DOMAIN writes))
<1>1. Len(writes) \in Nat /\ Len(writes) >= 1 /\ writes \in Seq(FsBlocks)
  BY Zenon, WritesFacts
<1>2. m \in Nat /\ m > 0
  <2>1. tid \in Sequences
    BY Zenon DEF WriterInv, WriterTypeOK
  <2>2. InOrder(Transaction(writes, revokes, DOMAIN writes), Len(RevokePart(revokes)),
                writes, revokes, DOMAIN writes)
    BY Zenon, <1>1, <2>1, TransactionFacts
  <2> QED
    BY <1>1, <2>2 DEF InOrder
<1>3. Fits(m) /\ superblock' = Activated /\ tid' = tid + 1
  BY Zenon DEF CommitTransaction
<1> HIDE DEF m
<1>4. /\ superblock' \in Superblock /\ Reading'
      /\ Start' \in Nat /\ Start' > 0 /\ Start' <= head /\ Start' + used = head
      /\ Start # 0 => /\ Start' = Start /\ End = head
                      /\ superblock'.sequence = superblock.sequence
      /\ Start = 0 => /\ Start' = head /\ used = 0 /\ superblock'.sequence = tid
  BY Zenon, <1>2, <1>3, ActivatedFacts
<1>5. /\ D \in Positions /\ C \in Positions /\ head <= D /\ C = D + Len(writes) + 1
      /\ D = head \/ D = head + 1
      /\ used' = used + (C + 1 - head)
  BY Zenon DEF Appended
<1>6. head \in Nat /\ head > 0 /\ used \in Nat /\ JournalLen \in Nat /\ tid \in Nat /\ tid > 0
  BY Zenon, PlaceFacts DEF WriterInv, WriterTypeOK, Placed
<1>7. D \in Nat /\ C \in Nat /\ C < JournalLen
  BY <1>5, <1>6 DEF Positions
<1>8. used' \in Nat /\ used' > 0
  BY <1>1, <1>5, <1>6, <1>7
<1>9. End' = C + 1
  <2>1. End' = Start' + used'
    BY Zenon DEF Start, End
  <2>2. Start' \in Nat /\ Start' + used = head
    BY Zenon, <1>4
  <2>3. C \in Nat /\ head \in Nat /\ used \in Nat /\ used' = used + (C + 1 - head)
    BY Zenon, <1>5, <1>6, <1>7
  <2>4. Start' = head - used
    <3>1. PICK start \in Nat : start = Start'
      BY Zenon, <2>2
    <3>2. start + used = head
      BY Zenon, <2>2, <3>1
    <3>3. start = head - used
      BY <2>3, <3>2
    <3> QED
      BY Zenon, <3>1, <3>3
  <2>5. End' = (head - used) + (used + (C + 1 - head))
    BY Zenon, <2>1, <2>3, <2>4
  <2> QED
    BY <2>3, <2>5
<1>10. ASSUME NEW p \in Positions PROVE Live(p)' <=> Live(p) \/ (head <= p /\ p <= C)
  <2>1. p \in Nat
    BY <1>6 DEF Positions
  <2>2. Live(p)' <=> Start' <= p /\ p < C + 1
    BY <1>4, <1>9 DEF Live
  <2>3. Live(p) <=> Start # 0 /\ Start <= p /\ p < head
    BY Zenon, <1>4 DEF Live
  <2>4. Start' <= p /\ p < head <=> Live(p)
    BY <1>4, <1>6, <2>1, <2>3
  <2> QED
    BY <1>1, <1>4, <1>5, <1>6, <1>7, <2>1, <2>2, <2>4
<1>11. ASSUME NEW p \in Positions, Live(p) PROVE p < head
  BY Zenon, <1>4, <1>11 DEF Live
<1> QED
  BY Zenon, <1>1, <1>3, <1>4, <1>5, <1>6, <1>7, <1>8, <1>9, <1>10, <1>11

(* The block at p after a commit *)
BlockAt(p, writes, revokes, D, C) ==
    \/ (p < head \/ p > C) /\ log'[p] = log[p]
    \/ p = head /\ D = head + 1 /\ log'[p] = RevocationBlock(revokes)
    \/ p = D /\ log'[p] = DescriptorBlock(writes, 1 .. Len(writes))
    \/ (\E k \in 1 .. Len(writes) : p = D + k) /\ log'[p] = Blank
    \/ p = C /\ log'[p] = CommitBlock

(* Where the new blocks of each kind are *)
KindsAt(p, D, C) ==
    /\ log'[p].kind = "revocation" => p = head /\ D = head + 1
    /\ log'[p].kind = "descriptor" => p = D
    /\ log'[p].kind = "commit" => p = C

(* The log after a commit, block by block *)
LEMMA CommitBlocks ==
  ASSUME TypeOK, WriterInv, ~ WrapLog, NEW writes \in DistinctWrites,
         NEW revokes \in SUBSET FsBlocks, CommitTransaction(writes, revokes),
         NEW D, NEW C, Appended(writes, revokes, D, C), NEW p \in Positions
  PROVE  BlockAt(p, writes, revokes, D, C)
<1>1. /\ head \in Nat /\ D \in Nat /\ C \in Nat /\ Len(writes) \in Nat /\ JournalLen \in Nat
      /\ C = D + Len(writes) + 1 /\ (D = head \/ D = head + 1)
  BY CommitPlace
<1>2. p \in Nat
  BY <1>1 DEF Positions
<1>3. \/ p < head \/ p > C
      \/ p = head /\ D = head + 1
      \/ p = D
      \/ p - D \in 1 .. Len(writes) /\ p = D + (p - D)
      \/ p = C
  BY <1>1, <1>2
<1>4. CASE p < head \/ p > C
  BY Zenon, <1>4 DEF Appended, BlockAt
<1>5. CASE p = head /\ D = head + 1
  <2>1. revokes # {}
    BY <1>1, <1>5 DEF Appended
  <2> QED
    BY Zenon, <1>5, <2>1 DEF Appended, BlockAt
<1>6. CASE p = D
  BY Zenon, <1>6 DEF Appended, BlockAt
<1>7. CASE p - D \in 1 .. Len(writes) /\ p = D + (p - D)
  <2>1. PICK k : k = p - D
    BY Zenon
  <2>2. k \in 1 .. Len(writes) /\ p = D + k
    BY Zenon, <1>7, <2>1
  <2>3. log'[D + k] = Blank
    BY Zenon, <2>2 DEF Appended
  <2> QED
    BY Zenon, <2>2, <2>3 DEF BlockAt
<1>8. CASE p = C
  BY Zenon, <1>8 DEF Appended, BlockAt
<1> QED
  BY Zenon, <1>3, <1>4, <1>5, <1>6, <1>7, <1>8

LEMMA CommitWritten ==
  ASSUME TypeOK, WriterInv, ~ WrapLog, NEW writes \in DistinctWrites,
         NEW revokes \in SUBSET FsBlocks, CommitTransaction(writes, revokes),
         NEW D, NEW C, Appended(writes, revokes, D, C)
  PROVE  Written' /\ log' \in [Positions -> JournalBlock]
<1>1. tid \in Nat /\ tid' = tid + 1 /\ tid \in Sequences
  BY Zenon, CommitPlace DEF WriterInv, WriterTypeOK
<1>2. writes \in Seq(FsBlocks)
  BY Zenon, WritesFacts
<1>3. ASSUME NEW p \in Positions
      PROVE  /\ log'[p] \in JournalBlock /\ Intact(log'[p])
             /\ log'[p].kind \in {"commit", "other"} => log'[p].sequence < tid'
  <2>0. /\ Blank \in JournalBlock /\ RevocationBlock(revokes) \in JournalBlock
        /\ DescriptorBlock(writes, 1 .. Len(writes)) \in JournalBlock
        /\ CommitBlock \in JournalBlock
        /\ Intact(Blank) /\ Intact(RevocationBlock(revokes))
        /\ Intact(DescriptorBlock(writes, 1 .. Len(writes))) /\ Intact(CommitBlock)
    BY Zenon, <1>1, <1>2, BlockTypes, BlocksIntact
  <2>1. CASE log'[p] = log[p]
    <3>1. log[p] \in JournalBlock /\ log[p].sequence \in Nat
      BY JournalAssumption DEF TypeOK, JournalBlock, Sequences
    <3> QED
      BY SMTT(40), <1>1, <2>1, <3>1 DEF WriterInv, Written
  <2>2. CASE log'[p] = RevocationBlock(revokes)
    <3>1. log'[p].kind = "revocation"
      <4>a. IsRevocation(log'[p], revokes)
        BY Zenon, <2>2, RevocationFields
      <4> QED
        BY Zenon, <4>a DEF IsRevocation
    <3> QED
      BY Zenon, <2>0, <2>2, <3>1
  <2>3. CASE log'[p] = DescriptorBlock(writes, 1 .. Len(writes))
    <3>1. log'[p].kind = "descriptor"
      <4>a. IsDescriptor(log'[p], writes, 1 .. Len(writes))
        BY Zenon, <1>2, <2>3, DescriptorFields
      <4> QED
        BY Zenon, <4>a DEF IsDescriptor
    <3> QED
      BY Zenon, <2>0, <2>3, <3>1
  <2>4. CASE log'[p] = Blank
    <3>1. log'[p].kind = "none"
      BY ZenonT(40), <2>4, PlainFields
    <3> QED
      BY Zenon, <2>0, <2>4, <3>1
  <2>5. CASE log'[p] = CommitBlock
    <3>1. log'[p].sequence = tid
      BY Zenon, <2>5, PlainFields
    <3> QED
      BY <1>1, <2>0, <2>5, <3>1
  <2> QED
    <3>1. BlockAt(p, writes, revokes, D, C)
      BY Zenon, CommitBlocks
    <3> QED
      BY Zenon, <2>1, <2>2, <2>3, <2>4, <2>5, <3>1 DEF BlockAt
<1>4. log' = [p \in Positions |-> log'[p]]
  BY Zenon DEF CommitTransaction
<1> QED
  BY Zenon, <1>3, <1>4 DEF Written

LEMMA CommitKinds ==
  ASSUME TypeOK, WriterInv, ~ WrapLog, NEW writes \in DistinctWrites,
         NEW revokes \in SUBSET FsBlocks, CommitTransaction(writes, revokes),
         NEW D, NEW C, Appended(writes, revokes, D, C),
         NEW p \in Positions, ~ p < head, ~ p > C
  PROVE  KindsAt(p, D, C)
<1>1. \/ p = head /\ D = head + 1 /\ log'[p] = RevocationBlock(revokes)
      \/ p = D /\ log'[p] = DescriptorBlock(writes, 1 .. Len(writes))
      \/ log'[p] = Blank
      \/ p = C /\ log'[p] = CommitBlock
  <2>1. BlockAt(p, writes, revokes, D, C)
    BY Zenon, CommitBlocks
  <2> QED
    BY Zenon, <2>1 DEF BlockAt
<1>2. writes \in Seq(FsBlocks)
  BY Zenon, WritesFacts
<1>3. RevocationBlock(revokes).kind = "revocation"
  BY Zenon, RevocationFields DEF IsRevocation
<1>4. DescriptorBlock(writes, 1 .. Len(writes)).kind = "descriptor"
  BY ZenonT(40), <1>2, DescriptorFields DEF IsDescriptor
<1>5. Blank.kind = "none" /\ CommitBlock.kind = "commit"
  BY Zenon, PlainFields
<1> QED
  BY Zenon, <1>1, <1>3, <1>4, <1>5 DEF KindsAt

(* A transaction that began at p still does; the new one begins where the  *)
(* live log ended.                                                         *)
LEMMA CommitBegins ==
  ASSUME TypeOK, WriterInv, ~ WrapLog, NEW writes \in DistinctWrites,
         NEW revokes \in SUBSET FsBlocks, CommitTransaction(writes, revokes),
         NEW D, NEW C, Appended(writes, revokes, D, C)
  PROVE  \A p \in Nat : \A s :
            (p = head /\ s = tid) \/ (Start # 0 /\ Begins(p, s)) => Begins(p, s)'
<1>1. /\ head \in Nat /\ D \in Nat /\ C \in Nat /\ Len(writes) \in Nat /\ JournalLen \in Nat
      /\ C = D + Len(writes) + 1 /\ (D = head \/ D = head + 1) /\ C < JournalLen
      /\ End' = C + 1 /\ (Start # 0 => End = head)
  BY CommitPlace
<1>2. log'[head].kind \in {"revocation", "descriptor"} /\ log'[head].sequence = tid
  <2>1. writes \in Seq(FsBlocks)
    BY Zenon, WritesFacts
  <2>2. CASE revokes = {}
    <3>1. log'[head] = DescriptorBlock(writes, 1 .. Len(writes))
      BY Zenon, <2>2 DEF Appended
    <3> QED
      <4>a. IsDescriptor(log'[head], writes, 1 .. Len(writes))
        BY Zenon, <2>1, <3>1, DescriptorFields
      <4> QED
        BY Zenon, <4>a DEF IsDescriptor
  <2>3. CASE revokes # {}
    <3>1. log'[head] = RevocationBlock(revokes)
      BY Zenon, <2>3 DEF Appended
    <3> QED
      <4>a. IsRevocation(log'[head], revokes)
        BY Zenon, <3>1, RevocationFields
      <4> QED
        BY Zenon, <4>a DEF IsRevocation
  <2> QED
    BY Zenon, <2>2, <2>3
<1>3. head < End'
  BY <1>1
<1>4. ASSUME NEW p \in Nat, NEW s, p = head, s = tid PROVE Begins(p, s)'
  BY Zenon, <1>2, <1>3, <1>4 DEF Begins
<1>5. ASSUME NEW p \in Nat, NEW s, Start # 0, Begins(p, s)
      PROVE  \/ p = head /\ s = tid
             \/ p < End' /\ log'[p].kind \in {"revocation", "descriptor"} /\ log'[p].sequence = s
  <2>1. CASE p = End /\ s = tid
    BY Zenon, <1>1, <1>5, <2>1
  <2>2. CASE /\ p < End /\ log[p].kind \in {"revocation", "descriptor"}
             /\ log[p].sequence = s
    <3>1. p < head /\ p \in Positions /\ p < End'
      BY <1>1, <1>5, <2>2 DEF Positions
    <3>2. log'[p] = log[p]
      BY Zenon, <3>1 DEF Appended
    <3> QED
      BY Zenon, <2>2, <3>1, <3>2
  <2> QED
    BY Zenon, <1>5, <2>1, <2>2 DEF Begins
<1> QED
  BY <1>4, <1>5 DEF Begins

LEMMA CommitChained ==
  ASSUME TypeOK, WriterInv, ~ WrapLog, NEW writes \in DistinctWrites,
         NEW revokes \in SUBSET FsBlocks, CommitTransaction(writes, revokes),
         NEW D, NEW C, Appended(writes, revokes, D, C)
  PROVE  Chained'
<1>1. /\ head \in Nat /\ D \in Nat /\ C \in Nat /\ Len(writes) \in Nat /\ JournalLen \in Nat
      /\ C = D + Len(writes) + 1 /\ (D = head \/ D = head + 1) /\ C < JournalLen
      /\ End' = C + 1 /\ Start' \in Nat /\ Start' > 0
  BY CommitPlace
<1>2. /\ Start # 0 => /\ Start' = Start /\ End = head
                      /\ superblock'.sequence = superblock.sequence
      /\ Start = 0 => Start' = head /\ superblock'.sequence = tid
      /\ tid' = tid + 1
  BY Zenon, CommitPlace
<1>3. \A p \in Positions : Live(p)' <=> Live(p) \/ (head <= p /\ p <= C)
  BY Zenon, CommitPlace
<1>4. \A p \in Nat : \A s :
         (p = head /\ s = tid) \/ (Start # 0 /\ Begins(p, s)) => Begins(p, s)'
  BY Zenon, CommitBegins
<1>5. /\ writes \in Seq(FsBlocks)
      /\ \A c : c \in Range(writes) <=> \E k \in 1 .. Len(writes) : writes[k] = c
  BY Zenon, WritesFacts
<1>6. \A p \in Positions : p < head => log'[p] = log[p]
  BY Zenon DEF Appended
<1>7. Start' # 0 => Begins(Start, superblock.sequence)'
  <2>1. PICK p \in Nat : \E s : p = Start' /\ s = superblock'.sequence
    BY Zenon, <1>1
  <2>s. PICK s : p = Start' /\ s = superblock'.sequence
    BY Zenon, <2>1
  <2>2. Begins(p, s)'
    <3>1. CASE Start = 0
      BY Zenon, <1>2, <1>4, <2>s, <3>1
    <3>2. CASE Start # 0
      <4>1. Begins(p, s)
        BY Zenon, <1>2, <2>s, <3>2 DEF WriterInv, Chained
      <4> QED
        BY Zenon, <1>4, <3>2, <4>1
    <3> QED
      BY Zenon, <3>1, <3>2
  <2> QED
    BY Zenon, <2>s, <2>2 DEF Begins
<1>8. ASSUME NEW p \in Positions, Live(p)', log'[p].kind = "revocation"
      PROVE  /\ p + 1 < End'
             /\ log'[p + 1].kind = "descriptor" /\ log'[p + 1].sequence = log'[p].sequence
             /\ \A k \in 1 .. Len(log'[p + 1].tags) :
                   log'[p + 1].tags[k].block \notin log'[p].revoked
  <2>0. p \in Nat
    BY <1>1 DEF Positions
  <2>1. CASE Live(p)
    <3>1. p < head /\ log'[p] = log[p] /\ End = head
      BY Zenon, <1>2, <1>6, <2>1 DEF Live
    <3>2. /\ p + 1 < End
          /\ log[p + 1].kind = "descriptor" /\ log[p + 1].sequence = log[p].sequence
          /\ \A k \in 1 .. Len(log[p + 1].tags) :
                log[p + 1].tags[k].block \notin log[p].revoked
      <4>1. log[p].kind = "revocation"
        BY Zenon, <1>8, <3>1
      <4> QED
        BY Zenon, <2>1, <4>1, ChainedAt
    <3>3. p + 1 \in Positions /\ p + 1 < head /\ p + 1 < End'
      BY <1>1, <2>0, <3>1, <3>2 DEF Positions
    <3>4. log'[p + 1] = log[p + 1]
      BY Zenon, <1>6, <3>3
    <3> QED
      BY Zenon, <3>1, <3>2, <3>3, <3>4
  <2>2. CASE p = head /\ D = head + 1
    <3>1. revokes # {}
      BY <1>1, <2>2 DEF Appended
    <3>2. /\ log'[p] = RevocationBlock(revokes)
          /\ log'[p + 1] = DescriptorBlock(writes, 1 .. Len(writes))
      BY Zenon, <2>2, <3>1 DEF Appended
    <3>3. log'[p].revoked = revokes /\ log'[p].sequence = tid
      <4>a. IsRevocation(log'[p], revokes)
        BY Zenon, <3>2, RevocationFields
      <4> QED
        BY Zenon, <4>a DEF IsRevocation
    <3>4. /\ log'[p + 1].kind = "descriptor" /\ log'[p + 1].sequence = tid
          /\ Len(log'[p + 1].tags) = Len(writes)
          /\ \A k \in 1 .. Len(writes) : log'[p + 1].tags[k].block = writes[k]
      <4>a. IsDescriptor(log'[p + 1], writes, 1 .. Len(writes))
        BY Zenon, <1>5, <3>2, DescriptorFields
      <4> QED
        BY Zenon, <4>a DEF IsDescriptor
    <3>5. \A k \in 1 .. Len(writes) : writes[k] \notin revokes
      <4>1. revokes \cap Range(writes) = {}
        BY Zenon DEF CommitTransaction, MayRevoke
      <4> QED
        BY Zenon, <1>5, <4>1
    <3>6. p + 1 < End'
      BY <1>1, <2>2
    <3> QED
      BY Zenon, <3>3, <3>4, <3>5, <3>6
  <2> QED
    <3>1. CASE ~ Live(p)
      <4>1. ~ p < head /\ ~ p > C
        BY SMTT(40), <1>1, <1>3, <1>8, <2>0, <3>1
      <4>2. KindsAt(p, D, C)
        BY Zenon, <4>1, CommitKinds
      <4> QED
        BY Zenon, <1>8, <2>2, <4>2 DEF KindsAt
    <3> QED
      BY Zenon, <2>1, <3>1
<1>9. ASSUME NEW p \in Positions, Live(p)', log'[p].kind = "descriptor",
             NEW c, c = p + Len(log'[p].tags) + 1
      PROVE  /\ c < End'
             /\ log'[c].kind = "commit" /\ log'[c].sequence = log'[p].sequence
             /\ \A k \in 1 .. Len(log'[p].tags) :
                   log'[p].tags[k].data_ok /\ log'[p + k].kind = "none"
  <2>0. p \in Nat
    BY <1>1 DEF Positions
  <2>1. CASE Live(p)
    <3>1. p < head /\ log'[p] = log[p] /\ End = head
      BY Zenon, <1>2, <1>6, <2>1 DEF Live
    <3>2. /\ p + Len(log[p].tags) + 1 < End
          /\ log[p + Len(log[p].tags) + 1].kind = "commit"
          /\ log[p + Len(log[p].tags) + 1].sequence = log[p].sequence
          /\ \A k \in 1 .. Len(log[p].tags) :
                log[p].tags[k].data_ok /\ log[p + k].kind = "none"
      <4>1. log[p].kind = "descriptor"
        BY Zenon, <1>9, <3>1
      <4> QED
        BY Zenon, <2>1, <4>1, ChainedAt
    <3>3. Len(log[p].tags) \in Nat
      BY BlockType
    <3>a. head \in Nat /\ head < JournalLen /\ JournalLen \in Nat /\ head < End' /\ End' \in Nat
      BY <1>1
    <3>b. p + Len(log[p].tags) + 1 < head
      BY Zenon, <3>1, <3>2
    <3>4. \A k \in 1 .. Len(log[p].tags) + 1 : p + k \in Positions /\ p + k < head
      BY <2>0, <3>3, <3>a, <3>b DEF Positions
    <3>5. \A k \in 1 .. Len(log[p].tags) + 1 : log'[p + k] = log[p + k]
      BY Zenon, <1>6, <3>4
    <3>6. /\ c = p + (Len(log[p].tags) + 1) /\ Len(log[p].tags) + 1 \in 1 .. Len(log[p].tags) + 1
          /\ c = p + Len(log[p].tags) + 1
      BY <1>9, <2>0, <3>1, <3>3
    <3>7. log'[c] = log[c]
      BY Zenon, <3>5, <3>6
    <3>8. \A k \in 1 .. Len(log[p].tags) : log'[p + k] = log[p + k]
      BY <3>3, <3>5
    <3>9. c < End'
      BY <2>0, <3>3, <3>6, <3>a, <3>b
    <3> QED
      BY Zenon, <3>1, <3>2, <3>6, <3>7, <3>8, <3>9
  <2>2. CASE p = D
    <3>1. log'[p] = DescriptorBlock(writes, 1 .. Len(writes)) /\ log'[C] = CommitBlock
      BY Zenon, <2>2 DEF Appended
    <3>2. /\ log'[p].sequence = tid /\ Len(log'[p].tags) = Len(writes)
          /\ \A k \in 1 .. Len(writes) : log'[p].tags[k].data_ok
      <4>a. IsDescriptor(log'[p], writes, 1 .. Len(writes))
        BY Zenon, <1>5, <3>1, DescriptorFields
      <4> QED
        BY Zenon, <4>a DEF IsDescriptor
    <3>3. log'[C].kind = "commit" /\ log'[C].sequence = tid
      BY Zenon, <3>1, PlainFields
    <3>4. \A k \in 1 .. Len(writes) : log'[p + k].kind = "none"
      <4>1. \A k \in 1 .. Len(writes) : log'[p + k] = Blank
        BY Zenon, <2>2 DEF Appended
      <4>2. Blank.kind = "none"
        BY Zenon, PlainFields
      <4> QED
        BY Zenon, <4>1, <4>2
    <3>5. c = C /\ C < End'
      BY <1>1, <1>9, <2>2, <3>2
    <3> QED
      BY Zenon, <3>2, <3>3, <3>4, <3>5
  <2> QED
    <3>1. CASE ~ Live(p)
      <4>1. ~ p < head /\ ~ p > C
        BY <1>1, <1>3, <1>9, <2>0, <3>1
      <4>2. KindsAt(p, D, C)
        BY Zenon, <4>1, CommitKinds
      <4> QED
        BY Zenon, <1>9, <2>2, <4>2 DEF KindsAt
    <3> QED
      BY Zenon, <2>1, <3>1
<1>10. ASSUME NEW p \in Positions, Live(p)', log'[p].kind = "commit", NEW s,
              s = log'[p].sequence + 1, NEW q, q = p + 1
       PROVE  Begins(q, s)'
  <2>0. p \in Nat /\ q \in Nat
    BY <1>1, <1>10 DEF Positions
  <2>1. CASE Live(p)
    <3>1. p < head /\ log'[p] = log[p] /\ Start # 0
      BY Zenon, <1>2, <1>6, <2>1 DEF Live
    <3>2. Begins(p + 1, log[p].sequence + 1)
      BY ZenonT(40), <1>10, <2>1, <3>1, ChainedAt
    <3>3. Begins(q, s)
      BY Zenon, <1>10, <3>1, <3>2
    <3> QED
      BY Zenon, <1>4, <2>0, <3>1, <3>3
  <2>2. CASE p = C
    <3>1. log'[p].sequence = tid
      BY Zenon, <2>2, PlainFields DEF Appended
    <3>2. q = End' /\ s = tid'
      BY Zenon, <1>1, <1>2, <1>10, <2>2, <3>1
    <3> QED
      BY Zenon, <3>2 DEF Begins
  <2> QED
    <3>1. CASE ~ Live(p)
      <4>1. ~ p < head /\ ~ p > C
        BY SMTT(40), <1>1, <1>3, <1>10, <2>0, <3>1
      <4>2. KindsAt(p, D, C)
        BY Zenon, <4>1, CommitKinds
      <4> QED
        BY Zenon, <1>10, <2>2, <4>2 DEF KindsAt
    <3> QED
      BY Zenon, <2>1, <3>1
<1> QED
  BY Zenon, <1>7, <1>8, <1>9, <1>10 DEF Chained

(* A commit adds one copy of each block that it writes. *)
LEMMA CommitCopies ==
  ASSUME TypeOK, WriterInv, ~ WrapLog, NEW writes \in DistinctWrites,
         NEW revokes \in SUBSET FsBlocks, CommitTransaction(writes, revokes),
         NEW D, NEW C, Appended(writes, revokes, D, C), NEW b
  PROVE  /\ \A p \in Copies(b) : p \in Copies(b)' /\ p \in Positions /\ p < head
         /\ \A k \in 1 .. Len(writes) : writes[k] = b => D + k \in Copies(b)'
         /\ \A p \in Copies(b)' : \/ p \in Copies(b)
                                  \/ \E k \in 1 .. Len(writes) : p = D + k /\ writes[k] = b
<1>1. /\ head \in Nat /\ D \in Nat /\ C \in Nat /\ Len(writes) \in Nat /\ JournalLen \in Nat
      /\ C = D + Len(writes) + 1 /\ (D = head \/ D = head + 1) /\ C < JournalLen
  BY CommitPlace
<1>2. /\ \A p \in Positions : Live(p)' <=> Live(p) \/ (head <= p /\ p <= C)
      /\ \A p \in Positions : Live(p) => p < head
      /\ Start # 0 => End = head
  BY Zenon, CommitPlace
<1>3. \A p \in Positions : p < head => log'[p] = log[p]
  BY Zenon DEF Appended
<1>4. writes \in Seq(FsBlocks)
  BY Zenon, WritesFacts
<1>5. /\ D \in Positions /\ log'[D].kind = "descriptor" /\ Len(log'[D].tags) = Len(writes)
      /\ \A k \in 1 .. Len(writes) : log'[D].tags[k].block = writes[k]
  <2>1. D \in Positions /\ log'[D] = DescriptorBlock(writes, 1 .. Len(writes))
    BY Zenon DEF Appended
  <2> QED
    <3>a. IsDescriptor(log'[D], writes, 1 .. Len(writes))
      BY Zenon, <1>4, <2>1, DescriptorFields
    <3> QED
      BY Zenon, <2>1, <3>a DEF IsDescriptor
<1>6. ASSUME NEW p \in Copies(b) PROVE p \in Copies(b)' /\ p \in Positions /\ p < head
  <2>1. PICK d \in Positions : /\ Live(d) /\ log[d].kind = "descriptor"
                               /\ p - d \in 1 .. Len(log[d].tags)
                               /\ log[d].tags[p - d].block = b
    BY Zenon, <1>6 DEF Copies
  <2>2. p \in Positions /\ p < End
    BY Zenon, CopyFacts
  <2>3. Live(d)' /\ log'[d] = log[d] /\ Start # 0
    BY Zenon, <1>2, <1>3, <2>1 DEF Live
  <2>4. p \in Copies(b)'
    BY Zenon, <2>1, <2>2, <2>3 DEF Copies
  <2> QED
    BY Zenon, <1>2, <2>2, <2>3, <2>4
<1>7. ASSUME NEW k \in 1 .. Len(writes), writes[k] = b PROVE D + k \in Copies(b)'
  <2>1. D + k \in Positions /\ (D + k) - D = k
    BY <1>1 DEF Positions
  <2>2. Live(D)'
    BY <1>1, <1>2, <1>5 DEF Live
  <2>3. \E d \in Positions : /\ Live(d)' /\ log'[d].kind = "descriptor"
                             /\ (D + k) - d \in 1 .. Len(log'[d].tags)
                             /\ log'[d].tags[(D + k) - d].block = b
    BY Zenon, <1>5, <1>7, <2>1, <2>2
  <2> QED
    BY Zenon, <2>1, <2>3 DEF Copies
<1>8. ASSUME NEW p \in Copies(b)', p \notin Copies(b)
      PROVE  \E k \in 1 .. Len(writes) : p = D + k /\ writes[k] = b
  <2>1. p \in Positions
    BY Zenon, <1>8 DEF Copies
  <2>2. PICK d \in Positions : /\ Live(d)' /\ log'[d].kind = "descriptor"
                               /\ p - d \in 1 .. Len(log'[d].tags)
                               /\ log'[d].tags[p - d].block = b
    BY Zenon, <1>8 DEF Copies
  <2>3. ~ Live(d)
    <3> SUFFICES ASSUME Live(d) PROVE FALSE
      BY Zenon
    <3>1. log'[d] = log[d]
      BY Zenon, <1>2, <1>3
    <3> QED
      BY Zenon, <1>8, <2>1, <2>2, <3>1 DEF Copies
  <2>4. d = D
    <3>1. d \in Nat /\ ~ d < head /\ ~ d > C
      BY <1>1, <1>2, <2>2, <2>3 DEF Positions
    <3>2. KindsAt(d, D, C)
      BY Zenon, <2>2, <3>1, CommitKinds
    <3> QED
      BY Zenon, <2>2, <3>2 DEF KindsAt
  <2>5. p - D \in 1 .. Len(writes) /\ writes[p - D] = b
    BY Zenon, <1>5, <2>2, <2>4
  <2>6. p = D + (p - D)
    BY <1>1, <2>1 DEF Positions
  <2> QED
    BY Zenon, <2>5, <2>6
<1> QED
  BY Zenon, <1>6, <1>7, <1>8

(* After a commit the newest copy of every block in the log is up to date. *)
LEMMA CommitUpToDate ==
  ASSUME TypeOK, WriterInv, ~ WrapLog, ~ RevokeLoggedBlocks, NEW writes \in DistinctWrites,
         NEW revokes \in SUBSET FsBlocks, CommitTransaction(writes, revokes),
         NEW D, NEW C, Appended(writes, revokes, D, C)
  PROVE  UpToDate'
<1>1. /\ head \in Nat /\ D \in Nat /\ Len(writes) \in Nat /\ JournalLen \in Nat
      /\ (D = head \/ D = head + 1)
  BY CommitPlace
<1>2. /\ DOMAIN writes = 1 .. Len(writes)
      /\ \A j, k \in 1 .. Len(writes) : writes[j] = writes[k] => j = k
      /\ \A c : c \in Range(writes) <=> \E k \in 1 .. Len(writes) : writes[k] = c
  BY Zenon, WritesFacts
<1>3. /\ inlog' = (inlog \ revokes) \cup Range(writes) /\ home' = home
      /\ truth' = [b \in FsBlocks |->
                      IF b \in Range(writes)
                      THEN version + (CHOOSE k \in DOMAIN writes : writes[k] = b)
                      ELSE truth[b]]
      /\ revokes \cap inlog = {}
  BY Zenon DEF CommitTransaction, MayRevoke
<1> SUFFICES ASSUME NEW b \in FsBlocks
             PROVE  IF b \in inlog'
                    THEN \E p \in Copies(b)' : /\ jdata'[p] = truth'[b]
                                               /\ \A q \in Copies(b)' : q <= p
                    ELSE home'[b] = truth'[b] /\ Copies(b)' = {}
  BY Zenon DEF UpToDate
<1>4. /\ \A p \in Copies(b) : p \in Copies(b)' /\ p \in Positions /\ p < head
      /\ \A k \in 1 .. Len(writes) : writes[k] = b => D + k \in Copies(b)'
      /\ \A p \in Copies(b)' : \/ p \in Copies(b)
                               \/ \E k \in 1 .. Len(writes) : p = D + k /\ writes[k] = b
  BY CommitCopies
<1>5. CASE b \in Range(writes)
  <2>1. PICK k \in 1 .. Len(writes) : writes[k] = b
    BY Zenon, <1>2, <1>5
  <2>2. (CHOOSE j \in DOMAIN writes : writes[j] = b) = k
    BY Zenon, <1>2, <2>1
  <2>3. jdata'[D + k] = truth'[b]
    <3>1. jdata'[D + k] = version + k
      BY Zenon, <2>1 DEF Appended
    <3>2. truth'[b] = version + (CHOOSE j \in DOMAIN writes : writes[j] = b)
      BY Zenon, <1>3, <1>5
    <3> QED
      BY Zenon, <2>2, <3>1, <3>2
  <2>4. \A q \in Copies(b)' : q <= D + k
    <3>1. \A q \in Copies(b) : q <= D + k
      BY <1>1, <1>4 DEF Positions
    <3>2. \A j \in 1 .. Len(writes) : writes[j] = b => D + j <= D + k
      BY <1>1, <1>2, <2>1
    <3> QED
      BY Zenon, <1>4, <3>1, <3>2
  <2> QED
    BY Zenon, <1>3, <1>4, <1>5, <2>1, <2>3, <2>4
<1>6. CASE b \notin Range(writes)
  <2>1. Copies(b)' = Copies(b)
    BY Zenon, <1>2, <1>4, <1>6
  <2>2. (b \in inlog' <=> b \in inlog) /\ truth'[b] = truth[b] /\ home'[b] = home[b]
    BY Zenon, <1>3, <1>6
  <2>3. \A p \in Copies(b) : jdata'[p] = jdata[p]
    BY Zenon, <1>4 DEF Appended
  <2>4. IF b \in inlog
        THEN \E p \in Copies(b) : jdata[p] = truth[b] /\ \A q \in Copies(b) : q <= p
        ELSE home[b] = truth[b] /\ Copies(b) = {}
    BY Zenon DEF WriterInv, UpToDate
  <2> QED
    BY Zenon, <2>1, <2>2, <2>3, <2>4
<1> QED
  BY Zenon, <1>5, <1>6

LEMMA CommitKeeps ==
  ASSUME TypeOK, WriterInv, ~ WrapLog, ~ RevokeLoggedBlocks, NEW writes \in DistinctWrites,
         NEW revokes \in SUBSET FsBlocks, CommitTransaction(writes, revokes)
  PROVE  /\ superblock' \in Superblock /\ log' \in [Positions -> JournalBlock]
         /\ WriterInv'
<1>1. PICK D, C : Appended(writes, revokes, D, C)
  BY Zenon, CommitAppends
<1>2. Written' /\ log' \in [Positions -> JournalBlock]
  BY Zenon, <1>1, CommitWritten
<1>3. Chained'
  BY Zenon, <1>1, CommitChained
<1>4. UpToDate'
  BY Zenon, <1>1, CommitUpToDate
<1>5. /\ superblock' \in Superblock /\ Reading' /\ head \in Nat /\ C \in Nat
      /\ JournalLen \in Nat /\ C < JournalLen /\ head > 0
      /\ Start' \in Nat /\ Start' > 0 /\ Start' <= head /\ End' = C + 1
      /\ tid \in Nat /\ tid' = tid + 1 /\ used' \in Nat /\ used' > 0 /\ head < C
  BY SMTT(40), <1>1, CommitPlace
<1>6. head' = IF C + 1 < JournalLen THEN C + 1 ELSE 1
  BY Zenon, <1>1 DEF Appended
<1>7. Placed'
  <2>1. Start' < JournalLen /\ End' <= JournalLen /\ Start' # 0 /\ used' # 0 /\ tid' > 0
    BY <1>5
  <2>2. head' > 0 /\ (head' = End' \/ (head' = 1 /\ End' = JournalLen))
    BY <1>5, <1>6
  <2> QED
    BY Zenon, <1>5, <2>1, <2>2 DEF Placed
<1>8. WriterTypeOK'
  <2>1. /\ writes \in Seq(FsBlocks) /\ DOMAIN writes = 1 .. Len(writes) /\ Len(writes) \in Nat
        /\ \A c : c \in Range(writes) <=> \E k \in 1 .. Len(writes) : writes[k] = c
    BY Zenon, WritesFacts
  <2>2. /\ home \in [FsBlocks -> Nat] /\ truth \in [FsBlocks -> Nat]
        /\ jdata \in [Positions -> Nat] /\ version \in Nat /\ inlog \subseteq FsBlocks
        /\ tid \in Sequences
    BY Zenon DEF WriterInv, WriterTypeOK
  <2>3. truth' \in [FsBlocks -> Nat]
    <3>1. \A b \in Range(writes) : (CHOOSE k \in DOMAIN writes : writes[k] = b) \in Nat
      BY <2>1
    <3>2. truth' = [b \in FsBlocks |->
                      IF b \in Range(writes)
                      THEN version + (CHOOSE k \in DOMAIN writes : writes[k] = b)
                      ELSE truth[b]]
      BY Zenon DEF CommitTransaction
    <3> QED
      BY <2>2, <3>1, <3>2
  <2>4. jdata' \in [Positions -> Nat]
    <3> DEFINE first == Len(RevokePart(revokes)) + 1
    <3>1. jdata' = [p \in Positions |->
                        IF p > 0 /\ Offset(p) - first + 1 \in DOMAIN writes
                        THEN version + (Offset(p) - first + 1) ELSE jdata[p]]
      BY Zenon DEF CommitTransaction
    <3> HIDE DEF first
    <3> QED
      BY <2>1, <2>2, <3>1
  <2>5. /\ home' = home /\ inlog' \subseteq FsBlocks /\ version' \in Nat /\ tid' \in Sequences
    <3>1. /\ home' = home /\ inlog' = (inlog \ revokes) \cup Range(writes)
          /\ version' = version + Len(writes) /\ tid < MaxSequence
      BY Zenon DEF CommitTransaction
    <3>2. Range(writes) \subseteq FsBlocks
      BY <2>1
    <3> QED
      BY <1>5, <2>1, <2>2, <3>1, <3>2, JournalAssumption DEF Sequences
  <2>6. head' \in Nat
    BY <1>5, <1>6
  <2> QED
    BY Zenon, <1>5, <2>2, <2>3, <2>4, <2>5, <2>6 DEF WriterTypeOK
<1> QED
  BY Zenon, <1>2, <1>3, <1>4, <1>5, <1>7, <1>8 DEF WriterInv

(* A transaction that is not finished changes nothing before head, and     *)
(* leaves no commit block.                                                 *)
LEMMA UnfinishedBlocks ==
  ASSUME TypeOK, WriterInv, ~ WrapLog, NEW writes \in DistinctWrites,
         NEW revokes \in SUBSET FsBlocks, NEW ondisk,
         CrashInTransaction(writes, revokes, ondisk)
  PROVE  /\ log' \in [Positions -> JournalBlock] /\ Written'
         /\ \A p \in Positions : p < head => log'[p] = log[p]
         /\ \E n \in Nat : n > 0 /\ Fits(n)
<1> DEFINE R == Len(RevokePart(revokes))
           present == {k \in DOMAIN writes : R + 1 + k \in ondisk}
           txn == Transaction(writes, revokes, present)
           n == Len(writes)
<1>1. writes \in Seq(FsBlocks) /\ n \in Nat /\ tid \in Sequences
  BY Zenon, WritesFacts DEF WriterInv, WriterTypeOK
<1> HIDE DEF present
<1>2. InOrder(txn, R, writes, revokes, present)
  BY Zenon, <1>1, TransactionFacts
<1>3. /\ Fits(Len(txn)) /\ ondisk \subseteq 1 .. Len(txn) - 1
      /\ log' = [p \in Positions |-> IF p > 0 /\ Offset(p) + 1 \in ondisk
                                     THEN txn[Offset(p) + 1] ELSE log[p]]
      /\ tid' = tid
  BY Zenon DEF CrashInTransaction, present
<1>4. /\ Blank \in JournalBlock /\ RevocationBlock(revokes) \in JournalBlock
      /\ DescriptorBlock(writes, present) \in JournalBlock
      /\ Intact(Blank) /\ Intact(RevocationBlock(revokes))
      /\ Intact(DescriptorBlock(writes, present))
  BY Zenon, <1>1, BlockTypes, BlocksIntact
<1>5. /\ Blank.kind = "none" /\ RevocationBlock(revokes).kind = "revocation"
      /\ DescriptorBlock(writes, present).kind = "descriptor"
  <2>1. Blank.kind = "none"
    BY Zenon, PlainFields
  <2>2. RevocationBlock(revokes).kind = "revocation"
    BY Zenon, RevocationFields DEF IsRevocation
  <2>3. DescriptorBlock(writes, present).kind = "descriptor"
    BY Zenon, <1>1, DescriptorFields DEF IsDescriptor
  <2> QED
    BY Zenon, <2>1, <2>2, <2>3
<1> HIDE DEF R, txn
<1>6. R \in {0, 1} /\ Len(txn) = R + n + 2
  BY Zenon, <1>2 DEF InOrder
<1>7. ASSUME NEW i \in 1 .. Len(txn) - 1
      PROVE  txn[i] \in JournalBlock /\ Intact(txn[i]) /\ txn[i].kind \notin {"commit", "other"}
  <2>1. \/ i = 1 /\ R = 1
        \/ i = R + 1
        \/ i - (R + 1) \in 1 .. n /\ i = R + 1 + (i - (R + 1))
    BY <1>1, <1>6
  <2>2. CASE i = 1 /\ R = 1
    <3>1. txn[i] = RevocationBlock(revokes)
      BY Zenon, <1>2, <2>2 DEF InOrder
    <3> QED
      BY Zenon, <1>4, <1>5, <3>1
  <2>3. CASE i = R + 1
    <3>1. txn[i] = DescriptorBlock(writes, present)
      BY Zenon, <1>2, <2>3 DEF InOrder
    <3> QED
      BY Zenon, <1>4, <1>5, <3>1
  <2>4. CASE i - (R + 1) \in 1 .. n /\ i = R + 1 + (i - (R + 1))
    <3>1. txn[R + 1 + (i - (R + 1))] = Blank
      BY Zenon, <1>2, <2>4 DEF InOrder
    <3> QED
      BY Zenon, <1>4, <1>5, <2>4, <3>1
  <2> QED
    BY Zenon, <2>1, <2>2, <2>3, <2>4
<1>8. ASSUME NEW p \in Positions
      PROVE  \/ log'[p] = log[p]
             \/ /\ log'[p] \in JournalBlock /\ Intact(log'[p])
                /\ log'[p].kind \notin {"commit", "other"}
  BY Zenon, <1>3, <1>7
<1>9. log' \in [Positions -> JournalBlock]
  <2>1. \A p \in Positions : log'[p] \in JournalBlock
    BY Zenon, <1>8 DEF TypeOK
  <2> QED
    BY Zenon, <1>3, <2>1
<1>10. Written'
  BY Zenon, <1>3, <1>8 DEF WriterInv, Written
<1>11. Len(txn) \in Nat /\ Len(txn) > 0
  BY <1>1, <1>6
<1>12. ASSUME NEW p \in Positions, p < head PROVE log'[p] = log[p]
  <2>1. CASE p > 0
    <3>1. Offset(p) \in Int /\ Offset(p) >= Len(txn)
      BY Zenon, <1>3, <1>11, <1>12, <2>1, Room
    <3>2. Offset(p) + 1 \notin ondisk
      BY <1>3, <1>11, <3>1
    <3> QED
      BY Zenon, <1>3, <3>2
  <2>2. CASE ~ p > 0
    BY Zenon, <1>3, <2>2
  <2> QED
    BY Zenon, <2>1, <2>2
<1> QED
  BY Zenon, <1>3, <1>9, <1>10, <1>11, <1>12

LEMMA UnfinishedKeeps ==
  ASSUME TypeOK, WriterInv, ~ WrapLog, NEW writes \in DistinctWrites,
         NEW revokes \in SUBSET FsBlocks, NEW ondisk,
         CrashInTransaction(writes, revokes, ondisk)
  PROVE  /\ superblock' \in Superblock /\ log' \in [Positions -> JournalBlock]
         /\ WriterInv'
<1>1. /\ UNCHANGED <<home, truth, jdata, head, used, inlog, tid, version>>
      /\ superblock' = Activated
  BY Zenon DEF CrashInTransaction
<1>2. /\ log' \in [Positions -> JournalBlock] /\ Written'
      /\ \A p \in Positions : p < head => log'[p] = log[p]
  BY Zenon, UnfinishedBlocks
<1>3. /\ superblock' \in Superblock /\ Reading'
      /\ Start' \in Nat /\ Start' > 0 /\ Start' <= head /\ Start' + used = head
      /\ Start # 0 => /\ Start' = Start /\ End = head
                      /\ superblock'.sequence = superblock.sequence
      /\ Start = 0 => /\ Start' = head /\ used = 0 /\ superblock'.sequence = tid
      /\ used = 0 => superblock'.sequence = tid
      /\ head < JournalLen /\ JournalLen \in Nat /\ head \in Nat
  <2>1. PICK n \in Nat : n > 0 /\ Fits(n)
    BY Zenon, UnfinishedBlocks
  <2>2. /\ superblock' \in Superblock /\ Reading'
        /\ Start' \in Nat /\ Start' > 0 /\ Start' <= head /\ Start' + used = head
        /\ Start # 0 => /\ Start' = Start /\ End = head
                        /\ superblock'.sequence = superblock.sequence
        /\ Start = 0 => /\ Start' = head /\ used = 0 /\ superblock'.sequence = tid
        /\ used = 0 => superblock'.sequence = tid
    BY Zenon, <1>1, <2>1, ActivatedFacts
  <2>3. head + n <= JournalLen /\ JournalLen \in Nat /\ head \in Nat
    BY Zenon, <2>1, Room
  <2>4. head < JournalLen
    BY <2>1, <2>3
  <2> QED
    BY Zenon, <2>2, <2>3, <2>4
<1>4. End' = head
  <2>1. End' = Start' + used
    BY Zenon, <1>1 DEF End, Start
  <2> QED
    BY Zenon, <1>3, <2>1
<1>5. \A p \in Positions : (Live(p)' <=> Live(p)) /\ (Live(p) => p < head)
  <2> SUFFICES ASSUME NEW p \in Positions PROVE (Live(p)' <=> Live(p)) /\ (Live(p) => p < head)
    BY Zenon
  <2>1. p \in Nat
    BY <1>3 DEF Positions
  <2>2. CASE Start = 0
    <3>1. ~ Live(p) /\ ~ Live(p)'
      BY <1>3, <1>4, <2>1, <2>2 DEF Live
    <3> QED
      BY Zenon, <3>1
  <2>3. CASE Start # 0
    BY Zenon, <1>3, <1>4, <2>3 DEF Live
  <2> QED
    BY Zenon, <2>2, <2>3
<1>6. \A b : Copies(b)' = Copies(b)
  BY Zenon, <1>2, <1>5 DEF Copies
<1>7. \A p \in Nat : \A s : Start # 0 /\ Begins(p, s) => Begins(p, s)'
  <2> SUFFICES ASSUME NEW p \in Nat, NEW s, Start # 0, Begins(p, s) PROVE Begins(p, s)'
    BY Zenon
  <2>1. End' = End /\ tid' = tid /\ (p < End => p \in Positions /\ log'[p] = log[p])
    BY <1>1, <1>2, <1>3, <1>4 DEF Positions
  <2> QED
    BY Zenon, <2>1 DEF Begins
<1>8. Chained'
  <2>1. Begins(Start, superblock.sequence)'
    <3>1. CASE Start = 0
      BY Zenon, <1>1, <1>3, <1>4, <3>1 DEF Begins
    <3>2. CASE Start # 0
      <4>1. Begins(Start, superblock.sequence)
        BY Zenon, <3>2 DEF WriterInv, Chained
      <4>p. PICK p \in Nat : p = Start
        BY Zenon, <1>3, <3>2
      <4>2. PICK s : p = Start /\ s = superblock.sequence
        BY Zenon, <4>p
      <4>3. Begins(p, s)'
        BY Zenon, <1>7, <3>2, <4>1, <4>2
      <4> QED
        BY Zenon, <1>3, <3>2, <4>2, <4>3 DEF Begins
    <3> QED
      BY Zenon, <3>1, <3>2
  <2>2. ASSUME NEW p \in Positions, Live(p)'
        PROVE  /\ p \in Nat /\ Live(p) /\ log'[p] = log[p] /\ Start # 0 /\ End' = End
               /\ \A q \in Nat : q < End => q \in Positions /\ log'[q] = log[q]
    BY <1>2, <1>3, <1>4, <1>5, <2>2 DEF Live, Positions
  <2>3. ASSUME NEW p \in Positions, Live(p)', log'[p].kind = "revocation"
        PROVE  /\ p + 1 < End'
               /\ log'[p + 1].kind = "descriptor" /\ log'[p + 1].sequence = log'[p].sequence
               /\ \A k \in 1 .. Len(log'[p + 1].tags) :
                     log'[p + 1].tags[k].block \notin log'[p].revoked
    <3>1. /\ p + 1 < End
          /\ log[p + 1].kind = "descriptor" /\ log[p + 1].sequence = log[p].sequence
          /\ \A k \in 1 .. Len(log[p + 1].tags) :
                log[p + 1].tags[k].block \notin log[p].revoked
      BY Zenon, <2>2, <2>3, ChainedAt
    <3>2. log'[p + 1] = log[p + 1]
      BY <2>2, <2>3, <3>1
    <3> QED
      BY Zenon, <2>2, <2>3, <3>1, <3>2
  <2>4. ASSUME NEW p \in Positions, Live(p)', log'[p].kind = "descriptor",
               NEW c, c = p + Len(log'[p].tags) + 1
        PROVE  /\ c < End'
               /\ log'[c].kind = "commit" /\ log'[c].sequence = log'[p].sequence
               /\ \A k \in 1 .. Len(log'[p].tags) :
                     log'[p].tags[k].data_ok /\ log'[p + k].kind = "none"
    <3>0. Live(p) /\ log[p].kind = "descriptor" /\ c = p + Len(log[p].tags) + 1
      BY Zenon, <2>2, <2>4
    <3>1. /\ c < End /\ c = p + Len(log[p].tags) + 1
          /\ log[c].kind = "commit" /\ log[c].sequence = log[p].sequence
          /\ \A k \in 1 .. Len(log[p].tags) :
                log[p].tags[k].data_ok /\ log[p + k].kind = "none"
      <4>1. /\ p + Len(log[p].tags) + 1 < End
            /\ log[p + Len(log[p].tags) + 1].kind = "commit"
            /\ log[p + Len(log[p].tags) + 1].sequence = log[p].sequence
            /\ \A k \in 1 .. Len(log[p].tags) :
                  log[p].tags[k].data_ok /\ log[p + k].kind = "none"
        BY Zenon, <3>0, ChainedAt
      <4> QED
        BY Zenon, <3>0, <4>1
    <3>2. p \in Nat /\ Len(log[p].tags) \in Nat /\ c \in Nat /\ End \in Nat
      <4>1. p \in Nat /\ c = p + Len(log[p].tags) + 1 /\ End \in Nat
        BY Zenon, <2>2, <2>4, <3>1, PlaceFacts
      <4>2. Len(log[p].tags) \in Nat
        BY BlockType
      <4> QED
        BY <4>1, <4>2
    <3>3. log'[c] = log[c]
      BY ZenonT(40), <2>2, <2>4, <3>1, <3>2
    <3>4. \A k \in 1 .. Len(log[p].tags) : p + k \in Nat /\ p + k < End
      BY <3>1, <3>2
    <3>5. \A k \in 1 .. Len(log[p].tags) : log'[p + k] = log[p + k]
      BY Zenon, <2>2, <2>4, <3>4
    <3> QED
      BY Zenon, <2>2, <2>4, <3>1, <3>3, <3>5
  <2>5. ASSUME NEW p \in Positions, Live(p)', log'[p].kind = "commit", NEW s,
               s = log'[p].sequence + 1, NEW q, q = p + 1
        PROVE  Begins(q, s)'
    <3>1. Begins(p + 1, log[p].sequence + 1)
      BY ZenonT(40), <2>2, <2>5, ChainedAt
    <3>2. q \in Nat /\ Begins(q, s) /\ Start # 0
      BY <2>2, <2>5, <3>1
    <3> QED
      BY Zenon, <1>7, <3>2
  <2> QED
    BY Zenon, <2>1, <2>3, <2>4, <2>5 DEF Chained
<1>9. UpToDate'
  BY Zenon, <1>1, <1>6 DEF WriterInv, UpToDate
<1>10. Placed'
  <2>1. tid > 0 /\ head > 0
    BY Zenon DEF WriterInv, Placed
  <2>2. Start' < JournalLen /\ End' <= JournalLen /\ Start' # 0
    BY <1>3, <1>4
  <2> QED
    BY Zenon, <1>1, <1>3, <1>4, <2>1, <2>2 DEF Placed
<1>11. WriterTypeOK'
  BY Zenon, <1>1 DEF WriterInv, WriterTypeOK
<1> QED
  BY Zenon, <1>2, <1>3, <1>8, <1>9, <1>10, <1>11 DEF WriterInv

-----------------------------------------------------------------------------
(* What the writer does cannot be an I/O error that the loader has met. *)
LEMMA IoBeforeLoading ==
  ASSUME IoInv, running, LoaderInv, UNCHANGED loaderVars
  PROVE  IoInv'
<1>1. pc = "superblock" /\ pc' = pc /\ pos' = pos /\ pos = 0
  BY Zenon DEF LoaderInv, loaderVars, IoInv
<1>2. \A p \in Positions : ~ p < 0
  BY JournalAssumption DEF Positions
<1> QED
  BY Zenon, <1>1, <1>2 DEF IoInv

LEMMA RecoveryInitInv == RecoveryInit => RecoveryInv
<1> SUFFICES ASSUME RecoveryInit PROVE RecoveryInv
  BY Zenon
<1>1. IInv /\ IoInv
  BY InitIInv, JournalAssumption DEF RecoveryInit, Init, IoInv, Positions
<1>2. damaged \in BOOLEAN /\ running \in BOOLEAN /\ (running => ~ damaged)
  BY Zenon DEF RecoveryInit
<1>3. ASSUME ~ damaged PROVE WriterInv /\ LoaderInv
  <2>1. /\ superblock = CleanSuperblock /\ log = BlankLog
        /\ home = [b \in FsBlocks |-> 0] /\ truth = [b \in FsBlocks |-> 0]
        /\ jdata = [p \in Positions |-> 0] /\ head = 1 /\ used = 0 /\ inlog = {}
        /\ tid = 1 /\ version = 0
    BY Zenon, <1>3 DEF RecoveryInit
  <2>2. tid \in Sequences
    <3>1. superblock \in Superblock
      BY Zenon, <1>1 DEF IInv, TypeOK
    <3>2. superblock.sequence \in Sequences
      BY Zenon, <3>1 DEF Superblock
    <3>3. superblock.sequence = 1
      BY Zenon, <2>1 DEF CleanSuperblock
    <3> QED
      BY Zenon, <2>1, <3>2, <3>3
  <2>3. WriterTypeOK
    BY Zenon, <2>1, <2>2 DEF WriterTypeOK
  <2>4. Start = 0 /\ superblock.sequence = 1 /\ Reading
    BY Zenon, <2>1 DEF CleanSuperblock, Start, Reading, superblock_error
  <2>5. Placed
    BY <2>1, <2>4 DEF Placed
  <2>6. Written
    <3> SUFFICES ASSUME NEW p \in Positions
                 PROVE  Intact(log[p]) /\ log[p].sequence < tid
      BY Zenon DEF Written
    <3>1. log[p] = IF p = 0 THEN [Blank EXCEPT !.kind = "other"] ELSE Blank
      BY Zenon, <2>1 DEF BlankLog
    <3>2. /\ log[p].kind \in {"none", "other"} /\ log[p].sum_ok /\ log[p].table_ok
          /\ log[p].tags_end = "last" /\ log[p].tags = <<>> /\ log[p].sequence = 0
      BY <3>1 DEF Blank
    <3> QED
      BY <2>1, <3>2 DEF Intact
  <2>7. (\A p : ~ Live(p)) /\ (\A b : Copies(b) = {})
    BY Zenon, <2>4 DEF Live, Copies
  <2>8. Chained
    BY Zenon, <2>4, <2>7 DEF Chained
  <2>9. UpToDate
    BY Zenon, <2>1, <2>7 DEF UpToDate
  <2>10. LoaderInv
    BY Zenon DEF RecoveryInit, Init, LoaderInv
  <2> QED
    BY Zenon, <2>3, <2>5, <2>6, <2>8, <2>9, <2>10 DEF WriterInv
<1> QED
  BY Zenon, <1>1, <1>2, <1>3 DEF RecoveryInv

LEMMA WriteInv ==
  ASSUME RecoveryInv, ~ WrapLog, ~ RevokeLoggedBlocks, Write
  PROVE  RecoveryInv'
<1>1. running /\ ~ damaged /\ IInv /\ IoInv /\ TypeOK /\ WriterInv /\ LoaderInv /\ damaged' = damaged
  BY Zenon DEF RecoveryInv, Write, IInv
<1>2. superblock \in Superblock /\ log \in [Positions -> JournalBlock]
  BY Zenon, <1>1 DEF TypeOK
<1> DEFINE Kept == /\ UNCHANGED loaderVars /\ running' \in BOOLEAN /\ WriterInv'
                   /\ superblock' \in Superblock /\ log' \in [Positions -> JournalBlock]
<1>3. Kept
  <2>1. ASSUME NEW writes \in DistinctWrites, NEW revokes \in SUBSET FsBlocks,
               CommitTransaction(writes, revokes)
        PROVE  Kept
    <3>1. UNCHANGED <<loaderVars, running>>
      BY Zenon, <2>1 DEF CommitTransaction
    <3> QED
      BY Zenon, <1>1, <2>1, <3>1, CommitKeeps
  <2>2. ASSUME NEW writes \in DistinctWrites, NEW revokes \in SUBSET FsBlocks, NEW ondisk,
               CrashInTransaction(writes, revokes, ondisk)
        PROVE  Kept
    <3>1. UNCHANGED loaderVars /\ running' \in BOOLEAN
      BY Zenon, <2>2 DEF CrashInTransaction
    <3>2. /\ superblock' \in Superblock /\ log' \in [Positions -> JournalBlock]
          /\ WriterInv'
      BY Zenon, <1>1, <2>2, UnfinishedKeeps
    <3> QED
      BY Zenon, <3>1, <3>2
  <2>3. CASE Crash
    BY Zenon, <1>1, <1>2, <2>3, CrashKeeps DEF Crash, input
  <2>4. ASSUME NEW b \in FsBlocks, WriteBack(b) PROVE Kept
    BY Zenon, <1>1, <1>2, <2>4, WriteBackKeeps DEF WriteBack, input
  <2>5. ASSUME NEW b \in FsBlocks, WriteInPlace(b) PROVE Kept
    BY Zenon, <1>1, <1>2, <2>5, WriteInPlaceKeeps DEF WriteInPlace, input
  <2>6. CASE Checkpoint
    BY Zenon, <1>1, <1>2, <2>6, CheckpointKeeps DEF Checkpoint
  <2>7. CASE Remount
    BY Zenon, <1>1, <1>2, <2>7, RemountKeeps DEF Remount, input
  <2> HIDE DEF Kept
  <2> QED
    BY Zenon, <2>1, <2>2, <2>3, <2>4, <2>5, <2>6, <2>7 DEF Write
<1>4. IInv' /\ LoaderInv' /\ IoInv'
  BY Zenon, <1>1, <1>3, BeforeLoading, IoBeforeLoading
<1> QED
  BY Zenon, <1>1, <1>3, <1>4 DEF RecoveryInv

LEMMA LoadInv ==
  ASSUME RecoveryInv, Load
  PROVE  RecoveryInv'
<1>1. ~ running /\ Step /\ UNCHANGED writerVars /\ damaged' = damaged /\ running' = running
  BY Zenon DEF Load, writerVars
<1>2. IInv' /\ IoInv'
  BY Zenon, <1>1, StepIInv, IoStep DEF RecoveryInv, IInv
<1>3. ~ damaged => WriterInv' /\ LoaderInv'
  BY Zenon, <1>1, <1>2, RecoveryLoad DEF RecoveryInv
<1> QED
  BY Zenon, <1>1, <1>2, <1>3 DEF RecoveryInv

LEMMA RecoveryStutter ==
  ASSUME RecoveryInv, UNCHANGED recoveryVars
  PROVE  RecoveryInv'
<1>1. UNCHANGED <<superblock, log, writerVars, damaged, running, pc, error, pos, iter_done,
                  block_index, tag, block_map, uncommitted_block_map, revoked_blocks, sequence>>
  BY Zenon DEF recoveryVars, input, loaderVars, maps, writerVars
<1>2. IInv' /\ IoInv'
  BY Zenon, <1>1, StutterIInv DEF RecoveryInv, vars, input, maps, IoInv, NoIoError
<1>3. ASSUME WriterInv, LoaderInv PROVE WriterInv' /\ LoaderInv'
  <2>1. /\ Start' = Start /\ End' = End /\ tid' = tid
        /\ \A b : Copies(b)' = Copies(b)
        /\ \A p : Live(p)' <=> Live(p)
        /\ WriterInv'
    BY Zenon, <1>1, <1>3, DiskUnchanged
  <2>2. \A m, e : Newest(m, e)' <=> Newest(m, e)
    BY Zenon, <2>1 DEF Newest
  <2>3. Newest(block_map, End)' <=> Newest(block_map, End)
    BY Zenon, <1>1, <2>1 DEF Newest
  <2>4. Merged' = Merged /\ (Collected' <=> Collected) /\ (\A d : TagsKept(d)' <=> TagsKept(d))
    BY Zenon, <1>1 DEF Merged, Collected, TagsKept
  <2>5. Newest(Merged, pos)' <=> Newest(Merged, pos)
    BY Zenon, <1>1, <2>1, <2>4 DEF Newest
  <2>6. Past' <=> Past
    BY Zenon, <1>1, <2>1, <2>3 DEF Past
  <2>7. AtBlock' <=> AtBlock
    BY Zenon, <1>1, <2>1, <2>4, <2>5 DEF AtBlock, TagsKept
  <2>8. AtTag' <=> AtTag
    BY Zenon, <1>1, <2>1, <2>4, <2>5 DEF AtTag, TagsKept
  <2>9. LoaderInv'
    BY Zenon, <1>1, <1>3, <2>1, <2>3, <2>6, <2>7, <2>8 DEF LoaderInv
  <2> QED
    BY Zenon, <2>1, <2>9
<1> QED
  BY Zenon, <1>1, <1>2, <1>3 DEF RecoveryInv

(* Every reachable state of the writer and the loader satisfies the        *)
(* inductive invariant, if the log is not continued at its beginning and   *)
(* no block still in the log is revoked.                                   *)
THEOREM RecoveryInvariant ==
  ASSUME ~ WrapLog, ~ RevokeLoggedBlocks
  PROVE  RecoverySpec => []RecoveryInv
<1>1. RecoveryInv /\ [RecoveryNext]_recoveryVars => RecoveryInv'
  BY Zenon, WriteInv, LoadInv, RecoveryStutter DEF RecoveryNext, LoadDone
<1> QED
  BY <1>1, RecoveryInitInv, PTL DEF RecoverySpec

(* Loading the journal of a filesystem that was not unmounted gives back   *)
(* what was committed: for every length of the journal, any blocks, any    *)
(* number of transactions, checkpoints and remounts, and a crash at any    *)
(* moment, every block reads as of the last commit.                        *)
THEOREM RecoveryRecovers ==
  ASSUME ~ WrapLog, ~ RevokeLoggedBlocks
  PROVE  RecoverySpec => []RecoversCommitted
<1>1. RecoveryInv => RecoversCommitted
  <2> SUFFICES ASSUME RecoveryInv, pc = "ok", ~ damaged, NEW b \in FsBlocks
               PROVE  View(b) = truth[b]
    BY Zenon DEF RecoversCommitted
  <2>1. TypeOK /\ WriterInv /\ Newest(block_map, End)
    BY Zenon DEF RecoveryInv, IInv, LoaderInv
  <2>2. block_map[b] \in Int /\ End \in Nat
    BY <2>1, JournalAssumption, PlaceFacts DEF TypeOK, BlockMap, Positions, Absent
  <2>3. /\ block_map[b] # Absent => block_map[b] \in Copies(b) /\ block_map[b] < End
        /\ \A q \in Copies(b) : q < End => q <= block_map[b]
    BY Zenon, <2>1 DEF Newest
  <2>4. \A q \in Copies(b) : q \in Nat /\ q < End
    BY <2>1, CopyFacts, JournalAssumption DEF Positions
  <2>5. IF b \in inlog
        THEN \E p \in Copies(b) : jdata[p] = truth[b] /\ \A q \in Copies(b) : q <= p
        ELSE home[b] = truth[b] /\ Copies(b) = {}
    BY Zenon, <2>1 DEF WriterInv, UpToDate
  <2>6. CASE b \in inlog
    <3>1. PICK p \in Copies(b) : jdata[p] = truth[b] /\ \A q \in Copies(b) : q <= p
      BY Zenon, <2>5, <2>6
    <3>2. p \in Nat /\ p <= block_map[b]
      BY Zenon, <2>3, <2>4
    <3>3. block_map[b] # Absent
      BY <2>2, <3>2 DEF Absent
    <3>4. block_map[b] <= p
      BY Zenon, <2>3, <3>1, <3>3
    <3>5. block_map[b] = p
      BY <2>2, <3>2, <3>4
    <3> QED
      BY Zenon, <3>1, <3>3, <3>5 DEF View, map_block_index
  <2>7. CASE b \notin inlog
    BY Zenon, <2>3, <2>5, <2>7 DEF View, map_block_index
  <2> QED
    BY Zenon, <2>6, <2>7
<1> QED
  BY <1>1, RecoveryInvariant, PTL

(* Loading such a journal never fails. *)
THEOREM RecoveryLoads ==
  ASSUME ~ WrapLog, ~ RevokeLoggedBlocks
  PROVE  RecoverySpec => []JournalLoads
<1>1. RecoveryInv => JournalLoads
  BY Zenon DEF RecoveryInv, LoaderInv, JournalLoads
<1> QED
  BY <1>1, RecoveryInvariant, PTL

(* With the writer, and on damaged journals: only committed data becomes   *)
(* visible and no I/O error is dropped.                                    *)
THEOREM RecoveryOnlyCommitted ==
  ASSUME ~ WrapLog, ~ RevokeLoggedBlocks
  PROVE  RecoverySpec => [](OnlyCommitted /\ IoErrorsPropagate)
<1>1. RecoveryInv => OnlyCommitted /\ IoErrorsPropagate
  BY Zenon DEF RecoveryInv, IInv, IoInv, IoErrorsPropagate, NoIoError
<1> QED
  BY <1>1, RecoveryInvariant, PTL
=============================================================================

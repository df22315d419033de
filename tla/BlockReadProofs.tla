-------------------------- MODULE BlockReadProofs ---------------------------
(***************************************************************************)
(* Proofs about the block cache, for every size of the filesystem, of the  *)
(* deque and of the read buffer, and about read_from_block over it, for    *)
(* every journal and every set of reads.                                   *)
(***************************************************************************)
EXTENDS BlockRead, TLAPS, WellFoundedInduction

-----------------------------------------------------------------------------
(* The cache *)

(* Every non-empty set of natural numbers has a least element. *)
LEMMA LeastNat ==
    ASSUME NEW T, T \subseteq Nat, T # {}
    PROVE  \E x \in T : \A y \in T : x <= y
<1>1. PICK x \in T : \A y \in T : ~ (<<y, x>> \in OpToRel(<, Nat))
  <2>1. IsWellFoundedOn(OpToRel(<, Nat), Nat)
    BY NatLessThanWellFounded
  <2> HIDE DEF OpToRel
  <2>2. QED
    BY <2>1, WFMin
<1>2. \A y \in T : ~ (y < x)
  BY <1>1 DEF OpToRel
<1>3. QED
  BY <1>2

(* A group read is never empty, never longer than read_buf, and never      *)
(* reaches past the end of the filesystem.                                 *)
LEMMA GroupSize ==
    ASSUME NEW b \in FsBlocks
    PROVE  /\ num_blocks_to_read(b) \in 1 .. MaxBlocksPerRead
           /\ b + num_blocks_to_read(b) <= NumFsBlocks
BY CacheAssumption DEF num_blocks_to_read, FsBlocks

(* position finds an entry of the block whenever there is one. *)
LEMMA PositionFinds ==
    ASSUME NEW b, cached(b)
    PROVE  /\ position(b) \in Slots
           /\ entries[position(b)].block_index = b
           /\ \A j \in 1 .. position(b) - 1 : entries[j].block_index # b
<1> DEFINE T == {i \in Slots : entries[i].block_index = b}
<1>1. T \subseteq Nat /\ T # {}
  BY CacheAssumption DEF cached, Slots
<1>2. PICK i \in T : \A j \in T : i <= j
  BY <1>1, LeastNat
<1>3. \A j \in 1 .. i - 1 : entries[j].block_index # b
  BY <1>2, CacheAssumption DEF Slots
<1>4. \E k \in Slots : /\ entries[k].block_index = b
                       /\ \A j \in 1 .. k - 1 : entries[j].block_index # b
  BY <1>2, <1>3
<1>5. QED
  BY <1>4 DEF position
-----------------------------------------------------------------------------
(* The answer part of AnswersFromDisk that holds whatever callers ask for. *)
AnswersInContents ==
    result # NoResult /\ result.ok => result.data \in Contents[result.block]

(* What the disk holds for a block is something an entry for it may hold.  *)
LEMMA DiskInContents ==
    ASSUME NEW b \in FsBlocks
    PROVE  Disk[b] \in Contents[b]
BY DEF Contents

(* The inductive invariant: GroupInv is what makes Coherent inductive, as   *)
(* the entries are filled from read_buf some steps after the read, and with *)
(* GroupSize it is what makes the assert of Return hold.                    *)
IInv == TypeOK /\ NoPanic /\ Coherent /\ GroupInv /\ AnswersInContents

LEMMA InitIInv == Init => IInv
<1> SUFFICES ASSUME Init PROVE IInv
  OBVIOUS
<1>1. TypeOK
  BY CacheAssumption DEF Init, TypeOK, Slots, BufSlots, CacheEntry, FsBlocks
<1>2. Coherent
  BY CacheAssumption DEF Init, Coherent, Contents, FsBlocks
<1>3. QED
  BY <1>1, <1>2 DEF Init, IInv, NoPanic, GroupInv, AnswersInContents

(* A hit permutes the entries. *)
LEMMA HitIInv ==
    ASSUME IInv, NEW b \in Requests, Hit(b)
    PROVE  IInv'
<1> DEFINE p == position(b)
<1>1. p \in Slots /\ entries[p].block_index = b
  BY PositionFinds DEF Hit
<1>2. entries \in [Slots -> CacheEntry] /\ 1 \in Slots
  BY CacheAssumption DEF IInv, TypeOK, Slots
<1>3. /\ entries' = [i \in Slots |-> IF i = 1 THEN entries[p]
                          ELSE IF i <= p THEN entries[i - 1] ELSE entries[i]]
      /\ entries'[1] = entries[p]
  BY <1>2 DEF Hit, move_to_front
<1> HIDE DEF p
<1>4. \A i \in Slots : \E j \in Slots : entries'[i] = entries[j]
  <2> SUFFICES ASSUME NEW i \in Slots
               PROVE  \E j \in Slots : entries'[i] = entries[j]
    OBVIOUS
  <2>1. CASE i = 1
    BY <2>1, <1>1, <1>3
  <2>2. CASE i # 1 /\ i <= p
    <3>1. i - 1 \in Slots /\ entries'[i] = entries[i - 1]
      BY <2>2, <1>3, CacheAssumption DEF Slots
    <3>2. QED
      BY <3>1
  <2>3. CASE i # 1 /\ ~ (i <= p)
    BY <2>3, <1>3
  <2>4. QED
    BY <2>1, <2>2, <2>3
<1>5. result' = Ok(b, entries[p].data)
  BY <1>3 DEF Hit
<1>6. entries' \in [Slots -> CacheEntry]
  BY <1>2, <1>3, <1>4
<1>7. TypeOK'
  <2>1. entries[p].data \in Data /\ b \in FsBlocks
    BY <1>1, <1>2, CacheAssumption DEF CacheEntry
  <2>2. QED
    BY <2>1, <1>5, <1>6 DEF Hit, IInv, TypeOK
<1>8. Coherent'
  BY <1>4 DEF IInv, Coherent
<1>9. AnswersInContents'
  BY <1>1, <1>5 DEF IInv, Coherent, AnswersInContents, Ok
<1>10. NoPanic' /\ GroupInv'
  BY DEF Hit, IInv, NoPanic, GroupInv
<1>11. QED
  BY <1>7, <1>8, <1>9, <1>10 DEF IInv

(* A group read fills read_buf with the group and touches no entry. *)
LEMMA ReadIInv ==
    ASSUME IInv, NEW b \in Requests, Read(b)
    PROVE  IInv'
<1> DEFINE n == num_blocks_to_read(b)
<1>1. b \in FsBlocks
  BY CacheAssumption
<1>2. n \in 1 .. MaxBlocksPerRead /\ b + n <= NumFsBlocks
  BY <1>1, GroupSize
<1>3. /\ read_buf' = [i \in BufSlots |-> IF i <= n
                                        THEN Disk[b + i - 1] ELSE read_buf[i]]
      /\ block_index' = b /\ todo' = n /\ pc' = "insert"
      /\ result' = NoResult /\ entries' = entries
      /\ num_blocks_to_read(block_index)' = n
  BY DEF Read, num_blocks_to_read
<1> HIDE DEF n
<1>4. \A i \in 1 .. n : b + i - 1 \in FsBlocks
  BY <1>1, <1>2, CacheAssumption DEF FsBlocks
<1>5. read_buf' \in [BufSlots -> Data]
  <2>1. \A i \in BufSlots : i <= n => Disk[b + i - 1] \in Data
    BY <1>2, <1>4, CacheAssumption DEF BufSlots
  <2>2. QED
    BY <2>1, <1>3 DEF IInv, TypeOK
<1>6. TypeOK'
  BY <1>1, <1>2, <1>3, <1>5 DEF IInv, TypeOK
<1>7. GroupInv'
  <2>1. \A i \in 1 .. n : read_buf'[i] = Disk[b + i - 1]
    BY <1>2, <1>3, CacheAssumption DEF BufSlots
  <2>2. QED
    BY <2>1, <1>2, <1>3 DEF GroupInv
<1>8. Coherent' /\ NoPanic' /\ AnswersInContents'
  BY <1>3 DEF IInv, Coherent, NoPanic, AnswersInContents
<1>9. QED
  BY <1>6, <1>7, <1>8 DEF IInv

(* A failed read leaves the entries alone, whatever it does to read_buf. *)
LEMMA ReadErrorIInv ==
    ASSUME IInv, NEW b \in Requests, ReadError(b)
    PROVE  IInv'
<1> DEFINE n == num_blocks_to_read(b)
<1>1. b \in FsBlocks
  BY CacheAssumption
<1>2. n \in 1 .. MaxBlocksPerRead
  BY <1>1, GroupSize
<1>3. PICK junk \in [1 .. n -> Data] :
         read_buf' = [i \in BufSlots |-> IF i <= n THEN junk[i] ELSE read_buf[i]]
  BY DEF ReadError
<1> HIDE DEF n
<1>4. read_buf' \in [BufSlots -> Data]
  <2>1. \A i \in BufSlots : i <= n => junk[i] \in Data
    BY <1>2, CacheAssumption DEF BufSlots
  <2>2. QED
    BY <2>1, <1>3 DEF IInv, TypeOK
<1>5. TypeOK'
  BY <1>1, <1>4 DEF ReadError, IInv, TypeOK
<1>6. Coherent' /\ NoPanic' /\ GroupInv' /\ AnswersInContents'
  BY DEF ReadError, IInv, Coherent, NoPanic, GroupInv, AnswersInContents, Err
<1>7. QED
  BY <1>5, <1>6 DEF IInv

(* Every block copied out of read_buf is a block of the group. *)
LEMMA InsertBlockIInv ==
    ASSUME IInv, InsertBlock
    PROVE  IInv'
<1> DEFINE n == num_blocks_to_read(block_index)
           e == [block_index |-> block_index + todo - 1,
                 data |-> read_buf[todo]]
<1>1. /\ block_index \in FsBlocks /\ todo \in 1 .. n
      /\ read_buf[todo] = Disk[block_index + todo - 1]
  BY CacheAssumption DEF InsertBlock, IInv, TypeOK, GroupInv
<1>2. n \in 1 .. MaxBlocksPerRead /\ block_index + n <= NumFsBlocks
  BY <1>1, GroupSize
<1>3. /\ entries' = [i \in Slots |-> IF i = 1 THEN e ELSE entries[i - 1]]
      /\ todo' = todo - 1
      /\ UNCHANGED <<pc, read_buf, block_index, result>>
      /\ n' = n
  BY <1>1, <1>2, CacheAssumption
     DEF InsertBlock, insert_block, num_blocks_to_read
<1> HIDE DEF n
<1>4. /\ block_index + todo - 1 \in FsBlocks
      /\ e \in CacheEntry
      /\ e.data \in Contents[e.block_index]
  BY <1>1, <1>2, DiskInContents, CacheAssumption DEF FsBlocks, CacheEntry
<1> HIDE DEF e
<1>5. \A i \in Slots : i # 1 => i - 1 \in Slots
  BY CacheAssumption DEF Slots
<1>6. TypeOK'
  <2>1. entries' \in [Slots -> CacheEntry]
    BY <1>3, <1>4, <1>5 DEF IInv, TypeOK
  <2>2. todo' \in 0 .. MaxBlocksPerRead
    BY <1>1, <1>2, <1>3, CacheAssumption
  <2>3. QED
    BY <2>1, <2>2, <1>3 DEF IInv, TypeOK
<1>7. Coherent'
  BY <1>3, <1>4, <1>5 DEF IInv, Coherent
<1>8. GroupInv'
  <2>1. entries'[1].block_index = block_index + todo'
    BY <1>1, <1>2, <1>3, CacheAssumption DEF e, Slots, FsBlocks
  <2>2. QED
    BY <2>1, <1>1, <1>2, <1>3 DEF InsertBlock, IInv, GroupInv, n
<1>9. NoPanic' /\ AnswersInContents'
  BY <1>3 DEF IInv, NoPanic, AnswersInContents
<1>10. QED
  BY <1>6, <1>7, <1>8, <1>9 DEF IInv

(* When the loop is done the requested block was the last one inserted. *)
LEMMA ReturnIInv ==
    ASSUME IInv, Return
    PROVE  /\ IInv'
           /\ block_index \in Requests
           /\ pc' = "idle"
           /\ result' = Ok(block_index, entries[1].data)
           /\ entries[1].block_index = block_index
<1>1. block_index \in FsBlocks /\ block_index \in Requests
  BY DEF Return, IInv, TypeOK, GroupInv
<1>2. num_blocks_to_read(block_index) \in 1 .. MaxBlocksPerRead
  BY <1>1, GroupSize
<1>3. entries[1].block_index = block_index
  BY <1>1, <1>2, CacheAssumption DEF Return, IInv, GroupInv, FsBlocks
<1>4. pc' = "idle" /\ result' = Ok(block_index, entries[1].data)
  BY <1>3 DEF Return
<1>5. UNCHANGED <<entries, read_buf, block_index, todo>>
  BY DEF Return
<1>6. 1 \in Slots /\ entries[1] \in CacheEntry
  BY CacheAssumption DEF IInv, TypeOK, Slots
<1>7. TypeOK'
  <2>1. entries[1].data \in Data
    BY <1>6 DEF CacheEntry
  <2>2. QED
    BY <2>1, <1>1, <1>4, <1>5 DEF IInv, TypeOK
<1>8. Coherent' /\ NoPanic' /\ GroupInv'
  BY <1>4, <1>5 DEF IInv, Coherent, NoPanic, GroupInv
<1>9. AnswersInContents'
  BY <1>3, <1>4, <1>6 DEF IInv, Coherent, AnswersInContents, Ok
<1>10. QED
  BY <1>1, <1>3, <1>4, <1>7, <1>8, <1>9 DEF IInv

(* IInv is an invariant of the cache, whatever blocks callers ask for. *)
LEMMA InductiveInvariant == Spec => []IInv
<1>1. Init => IInv
  BY InitIInv
<1>2. IInv /\ [Next]_vars => IInv'
  <2> SUFFICES ASSUME IInv, [Next]_vars PROVE IInv'
    OBVIOUS
  <2>1. ASSUME NEW b \in Requests, Hit(b) PROVE IInv'
    BY <2>1, HitIInv
  <2>2. ASSUME NEW b \in Requests, Read(b) PROVE IInv'
    BY <2>2, ReadIInv
  <2>3. ASSUME NEW b \in Requests, ReadError(b) PROVE IInv'
    BY <2>3, ReadErrorIInv
  <2>4. CASE InsertBlock
    BY <2>4, InsertBlockIInv
  <2>5. CASE Return
    BY <2>5, ReturnIInv
  <2>6. CASE UNCHANGED vars
    BY <2>6 DEF vars, IInv, TypeOK, NoPanic, Coherent, GroupInv,
                AnswersInContents, num_blocks_to_read
  <2>7. QED
    BY <2>1, <2>2, <2>3, <2>4, <2>5, <2>6 DEF Next
<1>3. QED
  BY <1>1, <1>2, PTL DEF Spec

(* Type correctness: the deque never changes length (with_opts allocates   *)
(* it once) and the loop counter stays inside read_buf.                    *)
THEOREM CacheTypeOK == Spec => []TypeOK
<1>1. IInv => TypeOK
  BY DEF IInv
<1>2. QED
  BY <1>1, InductiveInvariant, PTL

(* No assert or unwrap of get_or_insert_blocks and insert_block fails, for *)
(* every cache size that with_opts accepts.                                *)
THEOREM CacheNoPanic == Spec => []NoPanic
<1>1. IInv => NoPanic
  BY DEF IInv
<1>2. QED
  BY <1>1, InductiveInvariant, PTL

(* The cache never holds stale or foreign data, up to block 0's zeros.     *)
THEOREM CacheCoherent == Spec => []Coherent
<1>1. IInv => Coherent
  BY DEF IInv
<1>2. QED
  BY <1>1, InductiveInvariant, PTL

(* If nobody asks for block 0, which the initial entries pretend to hold,  *)
(* every answer of get_or_insert_blocks is the disk's.                     *)
THEOREM CacheAnswersFromDisk == 0 \notin Requests => (Spec => []AnswersFromDisk)
<1> SUFFICES ASSUME 0 \notin Requests PROVE Spec => []AnswersFromDisk
  OBVIOUS
<1>1. IInv => AnswersFromDisk
  BY CacheAssumption
     DEF IInv, TypeOK, AnswersInContents, AnswersFromDisk, Contents, Ok, Err
<1>2. QED
  BY <1>1, InductiveInvariant, PTL

(* The same as a refinement: the cache implements BlockStore.  A hit or    *)
(* the end of a group read is an Answer, a failed read a Fail, the start   *)
(* of a group read an Ask, and inserting a block is invisible.             *)
THEOREM CacheImplementsStore == Spec => ImplementsStore
<1>1. Init => Store!Init
  BY DEF Init, Store!Init
<1>2. IInv /\ IInv' /\ [Next]_vars => [Store!Next]_result
  <2> SUFFICES ASSUME IInv, IInv', [Next]_vars PROVE [Store!Next]_result
    OBVIOUS
  <2>1. ASSUME NEW b \in Requests, Hit(b) PROVE Store!Answer(b)
    <3>1. result' = Ok(b, entries'[1].data)
      BY <2>1 DEF Hit
    <3>2. 1 \in Slots /\ entries'[1].block_index = b
      BY <2>1, PositionFinds, CacheAssumption DEF Hit, move_to_front, Slots
    <3>3. entries'[1].data \in Contents[b]
      BY <3>2 DEF IInv, Coherent
    <3>4. QED
      BY <3>1, <3>3 DEF Store!Answer, Ok
  <2>2. ASSUME NEW b \in Requests, Read(b) PROVE Store!Ask
    BY <2>2 DEF Read, Store!Ask
  <2>3. ASSUME NEW b \in Requests, ReadError(b) PROVE Store!Fail(b)
    BY <2>3 DEF ReadError, Store!Fail, Err
  <2>4. CASE InsertBlock
    BY <2>4 DEF InsertBlock
  <2>5. CASE Return
    <3>1. /\ block_index \in Requests
          /\ result' = Ok(block_index, entries[1].data)
          /\ entries[1].block_index = block_index
      BY <2>5, ReturnIInv
    <3>2. entries[1].data \in Contents[block_index]
      BY <3>1, CacheAssumption DEF IInv, Coherent, Slots
    <3>3. Store!Answer(block_index)
      BY <3>1, <3>2 DEF Store!Answer, Ok
    <3>4. QED
      BY <3>1, <3>3 DEF Store!Next
  <2>6. CASE UNCHANGED vars
    BY <2>6 DEF vars
  <2>7. QED
    BY <2>1, <2>2, <2>3, <2>4, <2>5, <2>6 DEF Next, Store!Next
<1>3. QED
  BY <1>1, <1>2, InductiveInvariant, PTL DEF Spec, ImplementsStore, Store!Spec

-----------------------------------------------------------------------------
(* Reads *)

(* The checks of read_from_block establish the precondition of             *)
(* get_or_insert_blocks.                                                   *)
LEMMA InBoundsInFs ==
    ASSUME NEW r \in Reads, in_bounds(map_block_index(r.block), r)
    PROVE  map_block_index(r.block) \in Requests
<1>1. r.block \in Nat /\ map_block_index(r.block) \in Nat
  BY BlockReadAssumption DEF map_block_index, Recovered
<1>2. map_block_index(r.block) < NumFsBlocks
  BY DEF in_bounds
<1>3. QED
  BY <1>1, <1>2, BlockReadAssumption, CacheAssumption DEF FsBlocks

(* Every step of read_from_block is a step of the cache, or leaves it alone. *)
LEMMA ReadStepIsCacheStep == [ReadNext]_readVars => [Next]_vars
<1> SUFFICES ASSUME [ReadNext]_readVars PROVE [Next]_vars
  OBVIOUS
<1>1. ASSUME NEW r \in Reads, Reject(r) PROVE UNCHANGED vars
  BY <1>1 DEF Reject, histVars
<1>2. ASSUME NEW r \in Reads, Lookup(r) PROVE Next
  <2>1. map_block_index(r.block) \in Requests
    BY <1>2, InBoundsInFs DEF Lookup
  <2>2. Hit(map_block_index(r.block))
    BY <1>2 DEF Lookup, HistHit
  <2>3. QED
    BY <2>1, <2>2 DEF Next
<1>3. ASSUME NEW r \in Reads, Fetch(r) PROVE Next
  <2>1. map_block_index(r.block) \in Requests
    BY <1>3, InBoundsInFs DEF Fetch
  <2>2. Read(map_block_index(r.block)) \/ ReadError(map_block_index(r.block))
    BY <1>3 DEF Fetch, HistRead
  <2>3. QED
    BY <2>1, <2>2 DEF Next
<1>4. CASE Insert
  BY <1>4 DEF Insert, HistInsertBlock, Next
<1>5. CASE Finish
  BY <1>5 DEF Finish, HistReturn, Next
<1>6. CASE InstallJournal
  BY <1>6 DEF InstallJournal, histVars
<1>7. CASE UNCHANGED readVars
  BY <1>7 DEF readVars, histVars
<1>8. QED
  BY <1>1, <1>2, <1>3, <1>4, <1>5, <1>6, <1>7 DEF ReadNext

(* Hence every behaviour of read_from_block is one of the cache. *)
LEMMA ReadSpecIsCacheSpec == ReadSpec => Spec
<1>1. ReadInit => Init
  BY DEF ReadInit, HistInit
<1>2. QED
  BY <1>1, ReadStepIsCacheStep, PTL DEF ReadSpec, Spec

-----------------------------------------------------------------------------
(* While a group read is in progress, the cache works on the mapped block  *)
(* of a read that passed the checks, under the journal it was mapped with: *)
(* the journal is only installed between reads.                            *)
CallInv ==
    /\ phase \in {"load", "ready"}
    /\ pc = "insert" => /\ call \in Reads
                        /\ block_index = map_block_index(call.block)
                        /\ in_bounds(block_index, call)

LEMMA CallInvariant == ReadSpec => []CallInv
<1>1. ReadInit => CallInv
  BY DEF ReadInit, HistInit, Init, CallInv
<1>2. CallInv /\ [ReadNext]_readVars => CallInv'
  <2> SUFFICES ASSUME CallInv, [ReadNext]_readVars PROVE CallInv'
    OBVIOUS
  <2> USE DEF CallInv, map_block_index
  <2>1. ASSUME NEW r \in Reads, Reject(r) PROVE CallInv'
    BY <2>1 DEF Reject, histVars, vars, in_bounds
  <2>2. ASSUME NEW r \in Reads, Lookup(r) PROVE CallInv'
    BY <2>2 DEF Lookup, HistHit, Hit
  <2>3. ASSUME NEW r \in Reads, Fetch(r) PROVE CallInv'
    <3>1. block_index' = map_block_index(r.block) /\ phase' = phase
      BY <2>3 DEF Fetch, HistRead, Read, ReadError
    <3>2. pc' = "insert" => call' = r
      BY <2>3 DEF Fetch
    <3>3. in_bounds(map_block_index(r.block), r)
      BY <2>3 DEF Fetch
    <3>4. QED
      BY <3>1, <3>2, <3>3 DEF in_bounds
  <2>4. CASE Insert
    BY <2>4 DEF Insert, HistInsertBlock, InsertBlock, in_bounds
  <2>5. CASE Finish
    BY <2>5 DEF Finish, HistReturn, Return
  <2>6. CASE InstallJournal
    BY <2>6 DEF InstallJournal, histVars, vars
  <2>7. CASE UNCHANGED readVars
    BY <2>7 DEF readVars, histVars, vars, in_bounds
  <2>8. QED
    BY <2>1, <2>2, <2>3, <2>4, <2>5, <2>6, <2>7 DEF ReadNext
<1>3. QED
  BY <1>1, <1>2, PTL DEF ReadSpec

-----------------------------------------------------------------------------
(* The composition keeps the cache's invariants: read_from_block never     *)
(* trips an assert of get_or_insert_blocks, whatever the journal maps.     *)
THEOREM ReadNoPanic == ReadSpec => []NoPanic
BY ReadSpecIsCacheSpec, CacheNoPanic, PTL

(* What is copied out of an entry for a read that passed the checks is one *)
(* of the slices that the abstract filesystem may answer with.             *)
LEMMA SliceAnswers ==
    ASSUME NEW r \in Reads, phase = "ready",
           in_bounds(map_block_index(r.block), r),
           NEW d \in Contents[map_block_index(r.block)],
           answer' = Visible(Ok(r.block, Slice(d, r)))
    PROVE  Fs!Next
<1>1. map_block_index(r.block) = Recovered(r.block)
  BY DEF map_block_index
<1>2. Recovered(r.block) \in FsBlocks
  BY <1>1, InBoundsInFs, BlockReadAssumption
<1>3. Slice(d, r) \in Slices(r.block)
  BY <1>1, <1>2 DEF Slices
<1>4. r.block \in OriginalBlocks
  BY DEF OriginalBlocks
<1>5. answer' = [block |-> r.block, ok |-> TRUE, data |-> Slice(d, r)]
  BY DEF Visible, Ok
<1>6. Fs!Answer(r.block)
  BY <1>3, <1>4, <1>5 DEF Fs!Answer
<1>7. QED
  BY <1>4, <1>6 DEF Fs!Next

(* An error answers any read. *)
LEMMA ErrAnswers ==
    ASSUME NEW r \in Reads, phase = "ready", answer' = Visible(Err(r.block))
    PROVE  Fs!Next
<1>1. r.block \in OriginalBlocks
  BY DEF OriginalBlocks
<1>2. Fs!Fail(r.block)
  BY DEF Fs!Fail, Visible, Err
<1>3. QED
  BY <1>1, <1>2 DEF Fs!Next

(* A loaded filesystem answers every read from the recovered disk, for     *)
(* every journal, cache size and order of reads before and after the       *)
(* journal is installed.                                                   *)
THEOREM ReadImplementsStore == ReadSpec => ReadsRecoveredBlocks
<1>1. ReadInit => Fs!Init
  BY DEF ReadInit, Fs!Init
<1>2. IInv /\ IInv' /\ CallInv /\ [ReadNext]_readVars => [Fs!Next]_answer
  <2> SUFFICES ASSUME IInv, IInv', CallInv, [ReadNext]_readVars
               PROVE  [Fs!Next]_answer
    OBVIOUS
  <2>0. ASSUME NEW a, phase # "ready", answer' = Visible(a) PROVE Fs!Next
    BY <2>0 DEF Visible, Fs!Next, Fs!Ask
  <2>1. ASSUME NEW r \in Reads, Reject(r) PROVE Fs!Next
    BY <2>0, <2>1, ErrAnswers DEF Reject
  <2>2. ASSUME NEW r \in Reads, Lookup(r) PROVE Fs!Next
    <3> DEFINE b == map_block_index(r.block)
    <3>1. in_bounds(b, r) /\ Hit(b)
      BY <2>2 DEF Lookup, HistHit
    <3>2. result' = Ok(b, entries'[1].data)
      BY <3>1 DEF Hit
    <3>3. 1 \in Slots /\ entries'[1].block_index = b
      BY <3>1, PositionFinds, CacheAssumption DEF Hit, move_to_front, Slots
    <3>4. entries'[1].data \in Contents[b]
      BY <3>3 DEF IInv, Coherent
    <3>5. answer' = Visible(Ok(r.block, Slice(entries'[1].data, r)))
      BY <2>2, <3>2 DEF Lookup, Ok
    <3>6. QED
      BY <2>0, <3>1, <3>4, <3>5, SliceAnswers
  <2>3. ASSUME NEW r \in Reads, Fetch(r) PROVE Fs!Next
    <3>1. CASE pc' = "insert"
      BY <2>3, <3>1 DEF Fetch, Fs!Next, Fs!Ask
    <3>2. CASE pc' # "insert"
      BY <2>0, <2>3, <3>2, ErrAnswers DEF Fetch
    <3>3. QED
      BY <3>1, <3>2
  <2>4. CASE Insert
    BY <2>4 DEF Insert
  <2>5. CASE Finish
    <3>1. Return
      BY <2>5 DEF Finish, HistReturn
    <3>2. /\ call \in Reads /\ block_index = map_block_index(call.block)
          /\ in_bounds(block_index, call)
      BY <3>1 DEF Return, CallInv
    <3>3. /\ result' = Ok(block_index, entries[1].data)
          /\ entries[1].block_index = block_index
      BY <3>1, ReturnIInv
    <3>4. entries[1].data \in Contents[block_index]
      BY <3>3, CacheAssumption DEF IInv, Coherent, Slots
    <3>5. answer' = Visible(Ok(call.block, Slice(entries[1].data, call)))
      BY <2>5, <3>3 DEF Finish, Ok
    <3>6. QED
      BY <2>0, <3>2, <3>4, <3>5, SliceAnswers
  <2>6. CASE InstallJournal
    BY <2>6 DEF InstallJournal
  <2>7. CASE UNCHANGED readVars
    BY <2>7 DEF readVars
  <2>8. QED
    BY <2>1, <2>2, <2>3, <2>4, <2>5, <2>6, <2>7 DEF ReadNext
<1>3. ReadSpec => []IInv
  BY ReadSpecIsCacheSpec, InductiveInvariant, PTL
<1>4. QED
  BY <1>1, <1>2, <1>3, CallInvariant, PTL
     DEF ReadSpec, ReadsRecoveredBlocks, Fs!Spec

-----------------------------------------------------------------------------
(* Recency *)
MovesToFront(s, b, p, t) ==
    /\ p <= Len(s) => s[p] = b
    /\ \A k \in 1 .. Len(t) : \/ k = 1 /\ t[k] = b
                              \/ k \in 2 .. p /\ t[k] = s[k - 1]
                              \/ k \in p + 1 .. Len(s) /\ t[k] = s[k]

LEMMA TouchFacts ==
    ASSUME NEW s \in Seq(FsBlocks), NEW b \in FsBlocks
    PROVE  /\ Touch(s, b) \in Seq(FsBlocks)
           /\ \E p \in 1 .. Len(s) + 1 : MovesToFront(s, b, p, Touch(s, b))
<1> DEFINE p == PlaceIn(s, b)
           n == IF p <= Len(s) THEN Len(s) ELSE p
           t == [i \in 1 .. n |-> IF i = 1 THEN b ELSE IF i <= p THEN s[i - 1] ELSE s[i]]
<1>1. p \in 1 .. Len(s) + 1 /\ (p <= Len(s) => s[p] = b)
  BY DEF PlaceIn
<1>2. Touch(s, b) = t
  BY DEF Touch
<1> HIDE DEF p
<1>3. n \in Nat /\ t \in [1 .. n -> FsBlocks]
  BY <1>1
<1>4. t \in Seq(FsBlocks) /\ Len(t) = n
  <2> HIDE DEF t, n
  <2> QED
    BY <1>3
<1>5. \A k \in 1 .. n : \/ k = 1 /\ t[k] = b
                        \/ k \in 2 .. p /\ t[k] = s[k - 1]
                        \/ k \in p + 1 .. Len(s) /\ t[k] = s[k]
  BY <1>1
<1> HIDE DEF t
<1> QED
  BY <1>1, <1>2, <1>4, <1>5 DEF MovesToFront

(* How far back the k-th block of `requested` may be: every request since  *)
(* inserted at most one group before it.                                   *)
Rank(k) == (k - 1) * MaxBlocksPerRead + 1

LEMMA RankFacts ==
    /\ Rank(1) = 1
    /\ \A k \in Nat \ {0} : Rank(k) \in Nat /\ Rank(k + 1) = Rank(k) + MaxBlocksPerRead
    /\ \A k, j \in Nat \ {0} : j < k => Rank(j) + MaxBlocksPerRead <= Rank(k)
<1> USE CacheAssumption DEF Rank
<1>1. Rank(1) = 1
  OBVIOUS
<1>2. ASSUME NEW k \in Nat \ {0}
      PROVE  Rank(k) \in Nat /\ Rank(k + 1) = Rank(k) + MaxBlocksPerRead
  <2>1. (k - 1) * MaxBlocksPerRead \in Nat
    OBVIOUS
  <2>2. ((k + 1) - 1) * MaxBlocksPerRead = (k - 1) * MaxBlocksPerRead + MaxBlocksPerRead
    OBVIOUS
  <2> QED
    BY <2>1, <2>2
<1>3. ASSUME NEW k \in Nat \ {0}, NEW j \in Nat \ {0}, j < k
      PROVE  Rank(j) + MaxBlocksPerRead <= Rank(k)
  <2>1. j * MaxBlocksPerRead <= (k - 1) * MaxBlocksPerRead
    BY <1>3
  <2>2. j * MaxBlocksPerRead = (j - 1) * MaxBlocksPerRead + MaxBlocksPerRead
    OBVIOUS
  <2>3. /\ j * MaxBlocksPerRead \in Int /\ (k - 1) * MaxBlocksPerRead \in Int
        /\ (j - 1) * MaxBlocksPerRead \in Int
    OBVIOUS
  <2> QED
    BY <2>1, <2>2, <2>3
<1> QED
  BY <1>1, <1>2, <1>3

(* An entry for block b is among the first n. *)
Held(b, n) == \E i \in Slots : i <= n /\ entries[i].block_index = b

(* The blocks of the group in progress that are inserted *)
Inserted == IF pc = "insert" THEN num_blocks_to_read(block_index) - todo ELSE 0

(* The inductive invariant.  A group is only read for a block that is not  *)
(* cached, so that block is far back in `requested`, or not in it, and the *)
(* return moves no other block of it forward.                              *)
RecencyInv ==
    /\ requested \in Seq(FsBlocks)
    /\ \A k \in 1 .. Len(requested) :
          Rank(k) + Inserted <= NumEntries => Held(requested[k], Rank(k) + Inserted)
    /\ pc = "insert" =>
          \A k \in 1 .. Len(requested) :
             requested[k] = block_index => Rank(k) > NumEntries

LEMMA RecencyInit == ReadInit => RecencyInv
  BY DEF ReadInit, HistInit, Init, RecencyInv

LEMMA RecencyHit ==
    ASSUME IInv, RecencyInv, NEW b \in FsBlocks, HistHit(b)
    PROVE  RecencyInv'
<1> DEFINE s == requested
           p == position(b)
<1>1. /\ pc = "idle" /\ pc' = "idle" /\ cached(b) /\ entries' = move_to_front(p)
      /\ requested' = Touch(s, b)
  BY DEF HistHit, Hit
<1>2. Inserted = 0 /\ Inserted' = 0
  BY <1>1 DEF Inserted
<1>3. /\ p \in Slots /\ entries[p].block_index = b
      /\ \A i \in 1 .. p - 1 : entries[i].block_index # b
  BY <1>1, PositionFinds
<1> HIDE DEF p
<1>4. /\ entries'[1] = entries[p]
      /\ \A i \in Slots : i < p => entries'[i + 1] = entries[i]
      /\ \A i \in Slots : i > p => entries'[i] = entries[i]
  BY <1>1, <1>3, CacheAssumption DEF move_to_front, Slots
<1>5. s \in Seq(FsBlocks)
  BY DEF RecencyInv
<1>6. PICK q \in 1 .. Len(s) + 1 : MovesToFront(s, b, q, requested')
  BY <1>1, <1>5, TouchFacts
<1>7. ASSUME NEW k \in 1 .. Len(s), Rank(k) <= NumEntries
      PROVE  \E i \in Slots : i <= Rank(k) /\ entries[i].block_index = s[k]
  <2>1. Rank(k) \in Nat
    BY <1>5, RankFacts
  <2> QED
    BY <1>2, <1>7, <2>1 DEF RecencyInv, Held
<1>8. ASSUME NEW k \in 1 .. Len(requested'), Rank(k) <= NumEntries
      PROVE  \E i \in Slots : i <= Rank(k) /\ entries'[i].block_index = requested'[k]
  <2>0. Len(s) \in Nat /\ Len(requested') \in Nat /\ k \in Nat \ {0}
    <3>1. Len(s) \in Nat
      BY <1>5
    <3>2. Len(requested') \in Nat
      BY <1>1, <1>5, TouchFacts
    <3> QED
      BY <3>1, <3>2
  <2>1. CASE k = 1 /\ requested'[k] = b
    <3>1. 1 \in Slots /\ 1 <= Rank(k)
      BY <2>1, CacheAssumption, RankFacts DEF Slots
    <3> QED
      BY <1>3, <1>4, <2>1, <3>1
  <2>2. CASE k \in 2 .. q /\ requested'[k] = s[k - 1]
    <3>1. k - 1 \in 1 .. Len(s) /\ k - 1 \in Nat \ {0} /\ (k - 1) + 1 = k
      BY <2>0, <2>2
    <3>2. Rank(k) = Rank(k - 1) + MaxBlocksPerRead /\ Rank(k - 1) \in Nat
      BY <3>1, RankFacts
    <3>3. Rank(k - 1) <= NumEntries
      BY <1>8, <3>2, CacheAssumption
    <3>4. PICK i \in Slots : i <= Rank(k - 1) /\ entries[i].block_index = s[k - 1]
      BY <1>7, <3>1, <3>3
    <3>5. i + 1 <= Rank(k) /\ i <= Rank(k)
      BY <3>2, <3>4, CacheAssumption DEF Slots
    <3>6. CASE i < p
      <4>1. i + 1 \in Slots
        BY <1>3, <3>6, CacheAssumption DEF Slots
      <4> QED
        BY <1>4, <2>2, <3>4, <3>5, <3>6, <4>1
    <3>7. CASE i > p
      BY <1>4, <2>2, <3>4, <3>5, <3>7
    <3>8. CASE i = p
      <4>1. 1 \in Slots /\ 1 <= Rank(k)
        BY <3>2, <3>5, CacheAssumption DEF Slots
      <4> QED
        BY <1>4, <2>2, <3>4, <3>8, <4>1
    <3> QED
      BY <1>3, <3>6, <3>7, <3>8, CacheAssumption DEF Slots
  <2>3. CASE k \in q + 1 .. Len(s) /\ requested'[k] = s[k]
    <3>1. /\ k \in 1 .. Len(s) /\ q \in 1 .. Len(s) /\ q \in Nat \ {0} /\ q < k
          /\ s[q] = b
      BY <1>6, <2>0, <2>3 DEF MovesToFront
    <3>2. Rank(q) + MaxBlocksPerRead <= Rank(k) /\ Rank(q) \in Nat /\ Rank(k) \in Nat
      BY <2>0, <3>1, RankFacts
    <3>3. Rank(q) <= NumEntries
      BY <1>8, <3>2, CacheAssumption
    <3>4. PICK h \in Slots : h <= Rank(q) /\ entries[h].block_index = b
      BY <1>7, <3>1, <3>3
    <3>5. p <= h
      BY <1>3, <3>4, CacheAssumption DEF Slots
    <3>6. PICK i \in Slots : i <= Rank(k) /\ entries[i].block_index = s[k]
      BY <1>7, <1>8, <3>1
    <3>7. CASE i < p
      <4>1. i + 1 \in Slots /\ i + 1 <= Rank(k)
        BY <1>3, <3>2, <3>4, <3>5, <3>7, CacheAssumption DEF Slots
      <4> QED
        BY <1>4, <2>3, <3>6, <3>7, <4>1
    <3>8. CASE i > p
      BY <1>4, <2>3, <3>6, <3>8
    <3>9. CASE i = p
      <4>1. 1 \in Slots /\ 1 <= Rank(k)
        BY <3>2, <3>6, CacheAssumption DEF Slots
      <4> QED
        BY <1>4, <2>3, <3>6, <3>9, <4>1
    <3> QED
      BY <1>3, <3>7, <3>8, <3>9, CacheAssumption DEF Slots
  <2> QED
    BY <1>6, <1>8, <2>1, <2>2, <2>3 DEF MovesToFront
<1>9. requested' \in Seq(FsBlocks)
  BY <1>1, <1>5, TouchFacts
<1>10. \A k \in 1 .. Len(requested') : Rank(k) \in Nat
  <2>1. \A k \in 1 .. Len(requested') : k \in Nat \ {0}
    BY <1>9
  <2> QED
    BY <2>1, RankFacts
<1> QED
  BY <1>1, <1>2, <1>8, <1>9, <1>10 DEF RecencyInv, Held

(* A group read starts: nothing is inserted, and the block is not cached,  *)
(* so it is too far back in `requested` to be held.                        *)
LEMMA RecencyRead ==
    ASSUME IInv, RecencyInv, NEW b \in FsBlocks, HistRead(b)
    PROVE  RecencyInv'
<1>1. /\ pc = "idle" /\ ~ cached(b) /\ requested' = requested /\ entries' = entries
      /\ Inserted = 0 /\ requested \in Seq(FsBlocks)
  BY DEF HistRead, Read, ReadError, RecencyInv, Inserted
<1>2. \A k \in 1 .. Len(requested) : Rank(k) \in Nat
  <2>1. \A k \in 1 .. Len(requested) : k \in Nat \ {0}
    BY <1>1
  <2> QED
    BY <2>1, RankFacts
<1>3. Inserted' = 0
  <2>1. CASE Read(b)
    <3>1. todo' = num_blocks_to_read(b) /\ block_index' = b /\ pc' = "insert"
      BY <2>1 DEF Read
    <3>2. num_blocks_to_read(b) \in Int
      BY GroupSize, CacheAssumption
    <3> QED
      BY <3>1, <3>2 DEF Inserted, num_blocks_to_read
  <2>2. CASE ReadError(b)
    BY <1>1, <2>2 DEF ReadError, Inserted
  <2> QED
    BY <2>1, <2>2 DEF HistRead
<1>4. \A k \in 1 .. Len(requested) : Rank(k) <= NumEntries => Held(requested[k], Rank(k))
  BY <1>1, <1>2 DEF RecencyInv
<1>5. \A k \in 1 .. Len(requested) : requested[k] = b => Rank(k) > NumEntries
  BY <1>1, <1>2, <1>4, CacheAssumption DEF Held, cached
<1>6. pc' = "insert" => block_index' = b
  BY <1>1 DEF HistRead, Read, ReadError
<1> QED
  BY <1>1, <1>2, <1>3, <1>4, <1>5, <1>6 DEF RecencyInv, Held

(* Every insertion moves what was held back by one. *)
LEMMA RecencyInsert ==
    ASSUME IInv, RecencyInv, HistInsertBlock
    PROVE  RecencyInv'
<1>1. /\ pc = "insert" /\ todo > 0 /\ requested' = requested /\ block_index' = block_index
      /\ requested \in Seq(FsBlocks) /\ todo \in 1 .. MaxBlocksPerRead
      /\ todo <= num_blocks_to_read(block_index) /\ block_index \in FsBlocks
  BY CacheAssumption DEF HistInsertBlock, InsertBlock, RecencyInv, IInv, TypeOK, GroupInv
<1>2. /\ pc' = "insert" /\ todo' = todo - 1
      /\ entries' = insert_block(block_index + todo - 1, todo)
  BY <1>1, CacheAssumption DEF HistInsertBlock, InsertBlock
<1>3. num_blocks_to_read(block_index) \in Nat
  BY <1>1, GroupSize, CacheAssumption
<1>4. Inserted \in Nat /\ Inserted' = Inserted + 1
  BY <1>1, <1>2, <1>3 DEF Inserted, num_blocks_to_read
<1>5. \A i \in Slots : i + 1 \in Slots => entries'[i + 1] = entries[i]
  BY <1>2, CacheAssumption DEF insert_block, Slots
<1>6. ASSUME NEW k \in 1 .. Len(requested), Rank(k) + Inserted + 1 <= NumEntries
      PROVE  \E i \in Slots : /\ i <= Rank(k) + Inserted + 1
                              /\ entries'[i].block_index = requested[k]
  <2>1. Rank(k) \in Nat
    <3>1. k \in Nat \ {0}
      BY <1>1
    <3> QED
      BY <3>1, RankFacts
  <2>2. Rank(k) + Inserted <= NumEntries
    BY <1>4, <1>6, <2>1, CacheAssumption
  <2>3. PICK i \in Slots : i <= Rank(k) + Inserted /\ entries[i].block_index = requested[k]
    BY <2>2 DEF RecencyInv, Held
  <2>4. i + 1 \in Slots /\ i + 1 <= Rank(k) + Inserted + 1
    BY <1>4, <1>6, <2>1, <2>3, CacheAssumption DEF Slots
  <2> QED
    BY <1>5, <2>3, <2>4
<1>7. \A k \in 1 .. Len(requested) :
         Rank(k) + Inserted' <= NumEntries =>
            \E i \in Slots : /\ i <= Rank(k) + Inserted'
                             /\ entries'[i].block_index = requested[k]
  <2>1. \A k \in 1 .. Len(requested) : Rank(k) \in Nat
    <3>1. \A k \in 1 .. Len(requested) : k \in Nat \ {0}
      BY <1>1
    <3> QED
      BY <3>1, RankFacts
  <2> QED
    BY <1>4, <1>6, <2>1
<1>8. \A k \in 1 .. Len(requested) : requested[k] = block_index => Rank(k) > NumEntries
  BY <1>1 DEF RecencyInv
<1> QED
  BY <1>1, <1>2, <1>7, <1>8 DEF RecencyInv, Held

(* The return makes the block the latest request; it is at the front. *)
LEMMA RecencyReturn ==
    ASSUME IInv, RecencyInv, HistReturn
    PROVE  RecencyInv'
<1> DEFINE s == requested
           b == block_index
           n == num_blocks_to_read(block_index)
<1>1. /\ pc = "insert" /\ todo = 0 /\ requested' = Touch(s, b) /\ entries' = entries
      /\ s \in Seq(FsBlocks) /\ b \in FsBlocks
  BY DEF HistReturn, Return, RecencyInv, IInv, TypeOK
<1>2. n \in 1 .. MaxBlocksPerRead /\ Inserted = n
  BY <1>1, GroupSize, CacheAssumption DEF Inserted
<1>3. pc' = "idle" /\ entries[1].block_index = b /\ Inserted' = 0
  <2>1. entries[1].block_index = b
    BY <1>1, <1>2, CacheAssumption DEF IInv, GroupInv, TypeOK, FsBlocks
  <2>2. pc' = "idle"
    BY <2>1 DEF HistReturn, Return
  <2> QED
    BY <2>1, <2>2 DEF Inserted
<1> HIDE DEF n
<1>4. PICK q \in 1 .. Len(s) + 1 : MovesToFront(s, b, q, requested')
  BY <1>1, TouchFacts
<1>5. requested' \in Seq(FsBlocks)
  BY <1>1, TouchFacts
<1>6. ASSUME NEW k \in 1 .. Len(requested'), Rank(k) <= NumEntries
      PROVE  \E i \in Slots : i <= Rank(k) /\ entries[i].block_index = requested'[k]
  <2>0. Len(s) \in Nat /\ k \in Nat \ {0}
    BY <1>1, <1>5
  <2>1. CASE k = 1 /\ requested'[k] = b
    <3>1. 1 \in Slots /\ 1 <= Rank(k)
      BY <2>1, CacheAssumption, RankFacts DEF Slots
    <3> QED
      BY <1>3, <2>1, <3>1
  <2>2. CASE k \in 2 .. q /\ requested'[k] = s[k - 1]
    <3>1. k - 1 \in 1 .. Len(s) /\ k - 1 \in Nat \ {0} /\ (k - 1) + 1 = k
      BY <2>0, <2>2
    <3>2. Rank(k) = Rank(k - 1) + MaxBlocksPerRead /\ Rank(k - 1) \in Nat
      BY <3>1, RankFacts
    <3>3. Rank(k - 1) + n <= NumEntries /\ Rank(k - 1) + n <= Rank(k)
      BY <1>2, <1>6, <3>2, CacheAssumption
    <3>4. PICK i \in Slots : i <= Rank(k - 1) + n /\ entries[i].block_index = s[k - 1]
      BY <1>2, <3>1, <3>3 DEF RecencyInv, Held
    <3>5. i <= Rank(k)
      BY <1>2, <3>2, <3>3, <3>4, CacheAssumption DEF Slots
    <3> QED
      BY <2>2, <3>4, <3>5
  <2>3. CASE k \in q + 1 .. Len(s) /\ requested'[k] = s[k]
    <3>1. q \in 1 .. Len(s) /\ q \in Nat \ {0} /\ q < k /\ s[q] = b
      BY <1>4, <2>0, <2>3 DEF MovesToFront
    <3>2. Rank(q) > NumEntries
      BY <1>1, <3>1 DEF RecencyInv
    <3>3. Rank(q) + MaxBlocksPerRead <= Rank(k) /\ Rank(q) \in Nat /\ Rank(k) \in Nat
      BY <2>0, <3>1, RankFacts
    <3> QED
      BY <1>6, <3>2, <3>3, CacheAssumption
  <2> QED
    BY <1>4, <1>6, <2>1, <2>2, <2>3 DEF MovesToFront
<1>7. \A k \in 1 .. Len(requested') : Rank(k) \in Nat
  <2>1. \A k \in 1 .. Len(requested') : k \in Nat \ {0}
    BY <1>5
  <2> QED
    BY <2>1, RankFacts
<1> QED
  BY <1>1, <1>3, <1>5, <1>6, <1>7 DEF RecencyInv, Held

LEMMA RecencyStep == IInv /\ CallInv /\ RecencyInv /\ [ReadNext]_readVars => RecencyInv'
<1> SUFFICES ASSUME IInv, CallInv, RecencyInv, [ReadNext]_readVars PROVE RecencyInv'
  OBVIOUS
<1>1. ASSUME UNCHANGED histVars PROVE RecencyInv'
  BY <1>1 DEF histVars, vars, RecencyInv, Held, Inserted, num_blocks_to_read
<1>2. ASSUME NEW r \in Reads, Reject(r) PROVE RecencyInv'
  BY <1>1, <1>2 DEF Reject
<1>3. ASSUME NEW r \in Reads, Lookup(r) PROVE RecencyInv'
  BY <1>3, InBoundsInFs, BlockReadAssumption, RecencyHit DEF Lookup
<1>4. ASSUME NEW r \in Reads, Fetch(r) PROVE RecencyInv'
  BY <1>4, InBoundsInFs, BlockReadAssumption, RecencyRead DEF Fetch
<1>5. CASE Insert
  BY <1>5, RecencyInsert DEF Insert
<1>6. CASE Finish
  BY <1>6, RecencyReturn DEF Finish
<1>7. CASE InstallJournal
  BY <1>1, <1>7 DEF InstallJournal
<1>8. CASE UNCHANGED readVars
  BY <1>1, <1>8 DEF readVars
<1> QED
  BY <1>2, <1>3, <1>4, <1>5, <1>6, <1>7, <1>8 DEF ReadNext

(* For every size of the deque and of a group: the blocks requested last,  *)
(* as many different ones as whole groups fit the deque, are cached        *)
(* whenever a call begins.                                                 *)
THEOREM ReadRetainsRecent == ReadSpec => []RetainsRecentRequests
<1>1. RecencyInv => RetainsRecentRequests
  <2> SUFFICES ASSUME RecencyInv, pc = "idle", NEW k \in 1 .. Len(requested),
                      k <= NumEntries \div MaxBlocksPerRead
               PROVE  cached(requested[k])
    BY DEF RetainsRecentRequests
  <2>1. k \in Nat \ {0}
    BY DEF RecencyInv
  <2>2. PICK q \in Nat : q = NumEntries \div MaxBlocksPerRead /\ q * MaxBlocksPerRead <= NumEntries
    BY CacheAssumption
  <2>3. k * MaxBlocksPerRead <= q * MaxBlocksPerRead
    BY <2>1, <2>2, CacheAssumption
  <2>4. k * MaxBlocksPerRead = (k - 1) * MaxBlocksPerRead + MaxBlocksPerRead
    BY <2>1, CacheAssumption
  <2>5. Rank(k) <= NumEntries
    <3>1. (k - 1) * MaxBlocksPerRead \in Nat /\ q * MaxBlocksPerRead \in Nat
      BY <2>1, CacheAssumption
    <3> QED
      BY <2>2, <2>3, <2>4, <3>1, CacheAssumption DEF Rank
  <2>6. Rank(k) + Inserted = Rank(k)
    BY <2>1, RankFacts DEF Inserted
  <2> QED
    BY <2>5, <2>6 DEF RecencyInv, Held, cached
<1>2. ReadSpec => []IInv
  BY ReadSpecIsCacheSpec, InductiveInvariant, PTL
<1> QED
  BY <1>1, <1>2, CallInvariant, RecencyInit, RecencyStep, PTL DEF ReadSpec
=============================================================================

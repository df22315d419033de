----------------------------- MODULE FileProofs -----------------------------
(***************************************************************************)
(* Reads of an open file (File), for every block size, every file and      *)
(* every list of items that its iterator may yield; and the paths by which *)
(* files are opened (Path), for every limit on names and all inputs: they  *)
(* stay valid however they are made, the iterator over one returns its     *)
(* components, which are valid names, and push appends components.         *)
(***************************************************************************)
EXTENDS File, Path, FiniteSetTheorems, SequenceTheorems, WellFoundedInduction, TLAPS

(* What division by the block size is. *)
LEMMA DivMod ==
    ASSUME NEW p \in Nat
    PROVE  /\ p \div BlockSize \in Nat
           /\ p % BlockSize \in 0 .. BlockSize - 1
           /\ p = BlockSize * (p \div BlockSize) + (p % BlockSize)
BY FileAssumption

(* Quotient and remainder are the only numbers of their kind. *)
LEMMA DivModUnique ==
    ASSUME NEW p \in Nat, NEW q \in Nat, NEW r \in 0 .. BlockSize - 1,
           p = BlockSize * q + r
    PROVE  p \div BlockSize = q /\ p % BlockSize = r
BY FileAssumption

(* A position in the same block has the same quotient. *)
LEMMA SameBlock ==
    ASSUME NEW p \in Nat, NEW k \in Nat, (p % BlockSize) + k < BlockSize
    PROVE  /\ (p + k) \div BlockSize = p \div BlockSize
           /\ (p + k) % BlockSize = (p % BlockSize) + k
<1>1. PICK q \in Nat, r \in 0 .. BlockSize - 1 :
         q = p \div BlockSize /\ r = p % BlockSize /\ p = BlockSize * q + r
  BY DivMod
<1>2. BlockSize * q \in Nat
  BY FileAssumption
<1>3. /\ p + k \in Nat
      /\ r + k \in 0 .. BlockSize - 1
      /\ p + k = BlockSize * q + (r + k)
  BY <1>1, <1>2, FileAssumption
<1> QED
  BY <1>1, <1>3, DivModUnique

(* The position after the last byte of a block is at the next one. *)
LEMMA NextBlock ==
    ASSUME NEW p \in Nat, NEW k \in Nat, (p % BlockSize) + k = BlockSize
    PROVE  (p + k) \div BlockSize = (p \div BlockSize) + 1
<1>1. PICK q \in Nat, r \in 0 .. BlockSize - 1 :
         q = p \div BlockSize /\ r = p % BlockSize /\ p = BlockSize * q + r
  BY DivMod
<1>2. BlockSize * q \in Nat /\ BlockSize * (q + 1) = BlockSize * q + BlockSize
  BY FileAssumption
<1>3. p + k \in Nat /\ p + k = BlockSize * (q + 1) + 0
  BY <1>1, <1>2, FileAssumption
<1>4. 0 \in 0 .. BlockSize - 1 /\ q + 1 \in Nat
  BY FileAssumption
<1> QED
  BY <1>1, <1>3, <1>4, DivModUnique

(* The sequence of bytes that a read returns *)
LEMMA BytesLen ==
    ASSUME NEW block, NEW n \in Nat
    PROVE  /\ Len(BytesOf(block, n)) = n
           /\ \A i \in 1 .. n :
                 BytesOf(block, n)[i] = Byte(block, offset_within_block + i - 1)
BY DEF BytesOf

-----------------------------------------------------------------------------
(* The current block is the one at the position; without one the iterator  *)
(* is about to yield it, unless it is past its end.                        *)
Sync ==
    IF block_index = None
    THEN taken <= Len(file.items) => taken = position \div BlockSize
    ELSE /\ taken = (position \div BlockSize) + 1
         /\ taken <= Len(file.items)
         /\ block_index = file.items[taken]

(* If the iterator has an item for every block, it is past its end only at *)
(* positions past the end of the file.                                     *)
Complete == Len(file.items) * BlockSize >= file.size

NotPastEnd ==
    Complete => ~ panicked /\ (position < file.size => taken <= Len(file.items))

IInv == TypeOK /\ Sync /\ NotPastEnd

LEMMA InitIInv == Init => IInv
<1> SUFFICES ASSUME Init PROVE IInv
  OBVIOUS
<1>1. file \in FileType /\ Len(file.items) \in Nat
  BY FileAssumption DEF Init, FileType
<1>2. 0 \div BlockSize = 0
  BY FileAssumption
<1>3. TypeOK
  <2>1. taken \in 0 .. Len(file.items) + 1 /\ position \in Nat
    BY <1>1 DEF Init
  <2>2. panicked \in BOOLEAN /\ block_index \in Nat \cup {None}
    BY Zenon DEF Init
  <2> QED
    BY <1>1, <2>1, <2>2, Zenon DEF TypeOK
<1>4. Sync
  BY <1>1, <1>2 DEF Init, Sync
<1>5. NotPastEnd
  BY <1>1 DEF Init, NotPastEnd
<1> QED
  BY <1>3, <1>4, <1>5 DEF IInv

(* The items of the iterator have indices and are blocks. *)
LEMMA Items ==
    ASSUME TypeOK
    PROVE  /\ Len(file.items) \in Nat
           /\ \A k \in 1 .. Len(file.items) : file.items[k] \in Nat
           /\ file.size \in Nat
BY DEF TypeOK, FileType

(* The block that a read uses is the one at the position. *)
LEMMA BlockAtPosition ==
    ASSUME IInv, HasBlock
    PROVE  /\ (position \div BlockSize) + 1 \in 1 .. Len(file.items)
           /\ Block = file.items[(position \div BlockSize) + 1]
           /\ Block \in Nat
           /\ TakenAfter = (position \div BlockSize) + 1
<1>1. position \in Nat /\ position \div BlockSize \in Nat
  BY Zenon, DivMod DEF IInv, TypeOK
<1>2. taken \in Nat /\ Len(file.items) \in Nat
  BY Items DEF IInv, TypeOK
<1>3. CASE block_index = None
  <2>1. taken < Len(file.items) /\ taken = position \div BlockSize
    BY <1>2, <1>3 DEF IInv, Sync, HasBlock, HasItem
  <2> QED
    BY <1>1, <1>2, <1>3, <2>1, Items DEF IInv, Block, TakenAfter, Item
<1>4. CASE block_index # None
  BY <1>1, <1>2, <1>4, Items DEF IInv, Sync, Block, TakenAfter
<1> QED
  BY <1>3, <1>4

(* What a read that is cut at the end of the file and of the block returns *)
LEMMA ReadLen ==
    ASSUME IInv, NEW len \in BufLens, CanRead(len)
    PROVE  /\ read_len(len) \in Nat \ {0}
           /\ position + read_len(len) <= file.size
           /\ offset_within_block + read_len(len) <= BlockSize
           /\ offset_within_block \in 0 .. BlockSize - 1
<1>1. /\ position \in Nat /\ file.size \in Nat /\ len \in Nat
      /\ offset_within_block \in 0 .. BlockSize - 1
  BY DivMod, Items, FileAssumption DEF IInv, TypeOK, offset_within_block
<1>2. len > 0 /\ position < file.size
  BY DEF CanRead
<1> QED
  BY <1>1, <1>2, FileAssumption DEF read_len, Minimum

LEMMA QuietIInv ==
    ASSUME IInv, UNCHANGED <<file, position, block_index, taken, panicked>>
    PROVE  IInv'
BY DEF IInv, TypeOK, Sync, NotPastEnd, Complete

LEMMA ReadNoBlockIInv ==
    ASSUME IInv, NEW len \in BufLens, ReadNoBlock(len)
    PROVE  IInv'
<1>1. /\ position \in Nat /\ position < file.size /\ taken \in Nat
      /\ Len(file.items) \in Nat /\ file.size \in Nat
      /\ taken >= Len(file.items) /\ taken <= Len(file.items) + 1
  BY Items DEF IInv, TypeOK, ReadNoBlock, CanRead, HasItem
<1>2. ~ Complete
  <2> SUFFICES ASSUME Complete PROVE FALSE
    OBVIOUS
  <2>1. taken <= Len(file.items)
    BY <1>1 DEF IInv, NotPastEnd
  <2>2. Len(file.items) = position \div BlockSize
    BY <1>1, <2>1 DEF IInv, Sync, ReadNoBlock
  <2>3. PICK q \in Nat, r \in 0 .. BlockSize - 1 :
           q = position \div BlockSize /\ position = BlockSize * q + r
    BY Zenon, <1>1, DivMod
  <2>4. q * BlockSize = BlockSize * q /\ BlockSize * q \in Nat
    BY FileAssumption
  <2>5. q * BlockSize >= file.size
    BY <2>2, <2>3 DEF Complete
  <2> QED
    BY <1>1, <2>3, <2>4, <2>5, FileAssumption
<1>3. UNCHANGED <<file, position, block_index>> /\ block_index = None
  BY DEF ReadNoBlock
<1>4. NotPastEnd'
  BY <1>2, <1>3 DEF NotPastEnd, Complete
<1>5. CASE IsError(taken)
  <2>1. taken' = Len(file.items) + 1 /\ UNCHANGED panicked
    BY <1>5 DEF ReadNoBlock, IsError
  <2>2. TypeOK'
    <3>1. taken' \in 0 .. Len(file.items) + 1
      BY <1>1, <2>1
    <3> QED
      BY <1>3, <2>1, <3>1 DEF IInv, TypeOK
  <2>3. Sync'
    BY <1>1, <1>3, <2>1 DEF Sync
  <2> QED
    BY <1>4, <2>2, <2>3 DEF IInv
<1>6. CASE ~ IsError(taken)
  <2>1. panicked' = TRUE /\ UNCHANGED taken
    BY <1>6 DEF ReadNoBlock
  <2>2. panicked' \in BOOLEAN
    BY <2>1, Zenon
  <2>3. TypeOK'
    BY <1>3, <2>1, <2>2, Zenon DEF IInv, TypeOK
  <2>4. Sync'
    BY <1>3, <2>1 DEF IInv, Sync
  <2> QED
    BY <1>4, <2>3, <2>4 DEF IInv
<1> QED
  BY <1>5, <1>6

LEMMA ReadFailsIInv ==
    ASSUME IInv, NEW len \in BufLens, ReadFails(len)
    PROVE  IInv'
<1>1. UNCHANGED <<file, position, panicked>> /\ block_index' = Block /\ taken' = TakenAfter
  BY DEF ReadFails
<1>2. /\ (position \div BlockSize) + 1 \in 1 .. Len(file.items)
      /\ Block = file.items[(position \div BlockSize) + 1]
      /\ Block \in Nat
      /\ TakenAfter = (position \div BlockSize) + 1
  BY BlockAtPosition DEF ReadFails
<1>3. Len(file.items) \in Nat
  BY Items DEF IInv
<1>4. taken' \in 1 .. Len(file.items) /\ block_index' \in Nat /\ block_index' # None
  BY <1>1, <1>2 DEF None
<1>5. TypeOK'
  <2>1. taken' \in 0 .. Len(file.items) + 1
    BY <1>3, <1>4
  <2> QED
    BY <1>1, <1>4, <2>1 DEF IInv, TypeOK
<1>6. Sync'
  BY <1>1, <1>2, <1>4 DEF Sync
<1>7. NotPastEnd'
  BY <1>1, <1>3, <1>4 DEF IInv, NotPastEnd, Complete
<1> QED
  BY <1>5, <1>6, <1>7 DEF IInv

LEMMA ReadBytesIInv ==
    ASSUME IInv, NEW len \in BufLens, ReadBytes(len)
    PROVE  IInv'
<1> DEFINE n == read_len(len)
<1>1. /\ UNCHANGED <<file, panicked>> /\ taken' = TakenAfter
      /\ position' = position + n
      /\ block_index' = IF offset_within_block + n >= BlockSize THEN None ELSE Block
  BY DEF ReadBytes
<1>2. /\ (position \div BlockSize) + 1 \in 1 .. Len(file.items)
      /\ Block = file.items[(position \div BlockSize) + 1]
      /\ Block \in Nat /\ Block # None
      /\ TakenAfter = (position \div BlockSize) + 1
  BY BlockAtPosition DEF ReadBytes, None
<1>3. /\ n \in Nat \ {0} /\ offset_within_block + n <= BlockSize
      /\ offset_within_block \in 0 .. BlockSize - 1
  BY ReadLen DEF ReadBytes
<1>4. position \in Nat /\ Len(file.items) \in Nat /\ position' \in Nat
  BY <1>1, <1>3, Items DEF IInv, TypeOK
<1>5. taken' \in 1 .. Len(file.items)
  BY <1>1, <1>2
<1> HIDE DEF n
<1>6. TypeOK'
  <2>1. taken' \in 0 .. Len(file.items) + 1
    BY <1>4, <1>5
  <2>2. block_index' \in Nat \cup {None}
    BY <1>1, <1>2
  <2> QED
    BY <1>1, <1>4, <2>1, <2>2 DEF IInv, TypeOK
<1>7. Sync'
  <2>1. CASE offset_within_block + n < BlockSize
    <3>1. position' \div BlockSize = position \div BlockSize
      BY <1>1, <1>3, <1>4, <2>1, SameBlock DEF offset_within_block
    <3>2. block_index' = Block
      BY <1>1, <1>3, <2>1, FileAssumption
    <3> QED
      BY <1>1, <1>2, <1>5, <3>1, <3>2 DEF Sync
  <2>2. CASE offset_within_block + n = BlockSize
    <3>1. position' \div BlockSize = (position \div BlockSize) + 1
      BY <1>1, <1>3, <1>4, <2>2, NextBlock DEF offset_within_block
    <3>2. block_index' = None
      BY <1>1, <2>2, FileAssumption
    <3> QED
      BY <1>1, <1>2, <3>1, <3>2 DEF Sync
  <2> QED
    BY <1>3, <2>1, <2>2, FileAssumption
<1>8. NotPastEnd'
  BY <1>1, <1>4, <1>5 DEF IInv, NotPastEnd, Complete
<1> QED
  BY <1>6, <1>7, <1>8 DEF IInv

LEMMA SeekIInv ==
    ASSUME IInv, NEW base \in Nat, NEW by \in Offsets, Seek(base, by)
    PROVE  IInv'
<1>1. by \in Int /\ base + by \in Int
  BY FileAssumption
<1>2. UNCHANGED <<file, panicked>>
  BY DEF Seek
<1>3. CASE base + by < 0
  <2>1. UNCHANGED <<position, block_index, taken>>
    BY <1>1, <1>3 DEF Seek
  <2> QED
    BY <1>2, <2>1, QuietIInv
<1>4. CASE base + by >= 0
  <2>1. PICK p \in Nat : p = base + by
    BY <1>1, <1>4
  <2>2. /\ taken' = Minimum(p \div BlockSize, Len(file.items) + 1)
        /\ block_index' = None
        /\ position' = p
    BY <1>4, <2>1 DEF Seek, seek_to, skip_blocks
  <2>3. /\ Len(file.items) \in Nat /\ file.size \in Nat
        /\ p \div BlockSize \in Nat
    BY <2>1, DivMod, Items DEF IInv
  <2>4. taken' \in 0 .. Len(file.items) + 1
    BY <2>2, <2>3 DEF Minimum
  <2>5. TypeOK'
    BY <1>2, <2>2, <2>4 DEF IInv, TypeOK
  <2>6. Sync'
    BY <1>2, <2>2, <2>3 DEF Sync, Minimum
  <2>7. NotPastEnd'
    <3> SUFFICES ASSUME Complete, p < file.size
                 PROVE  taken' <= Len(file.items)
      BY <1>2, <2>2 DEF IInv, NotPastEnd, Complete
    <3>1. PICK q \in Nat, r \in 0 .. BlockSize - 1 :
             q = p \div BlockSize /\ p = BlockSize * q + r
      BY DivMod
    <3>2. BlockSize * q < Len(file.items) * BlockSize
      BY <2>3, <3>1, FileAssumption DEF Complete
    <3>3. q < Len(file.items)
      <4> SUFFICES ASSUME q >= Len(file.items) PROVE FALSE
        BY <2>3
      <4>1. BlockSize * q >= Len(file.items) * BlockSize
        BY <2>3, FileAssumption
      <4> QED
        BY <3>2, <4>1, <2>3, FileAssumption
    <3> QED
      BY <2>2, <2>3, <3>1, <3>3 DEF Minimum
  <2> QED
    BY <2>5, <2>6, <2>7 DEF IInv
<1> QED
  BY <1>1, <1>3, <1>4

LEMMA NextIInv ==
    ASSUME IInv, [Next]_vars
    PROVE  IInv'
<1>1. ASSUME NEW len \in BufLens, ReadNothing(len) PROVE IInv'
  BY <1>1, QuietIInv DEF ReadNothing
<1>2. ASSUME NEW len \in BufLens, ReadNoBlock(len) PROVE IInv'
  BY <1>2, ReadNoBlockIInv
<1>3. ASSUME NEW len \in BufLens, ReadFails(len) PROVE IInv'
  BY <1>3, ReadFailsIInv
<1>4. ASSUME NEW len \in BufLens, ReadBytes(len) PROVE IInv'
  BY <1>4, ReadBytesIInv
<1>5. ASSUME NEW by \in Offsets, Seek(0, by) PROVE IInv'
  BY <1>5, SeekIInv
<1>6. ASSUME NEW by \in Offsets, Seek(file.size, by) PROVE IInv'
  BY <1>6, SeekIInv, Items DEF IInv
<1>7. ASSUME NEW by \in Offsets, Seek(position, by) PROVE IInv'
  BY <1>7, SeekIInv DEF IInv, TypeOK
<1>8. CASE Stopped \/ UNCHANGED vars
  BY <1>8, QuietIInv DEF Stopped, vars
<1> QED
  BY <1>1, <1>2, <1>3, <1>4, <1>5, <1>6, <1>7, <1>8 DEF Next

(* The current block of an open file is always the one at its position,    *)
(* after any reads, failed reads and seeks.                                *)
THEOREM FileInvariant == Spec => []IInv
BY InitIInv, NextIInv, PTL DEF Spec

-----------------------------------------------------------------------------
(* A read of some bytes returns the ones of the file at its position. *)
LEMMA ReadBytesContents ==
    ASSUME IInv, NEW len \in BufLens, ReadBytes(len)
    PROVE  ReadsFileContents'
<1> DEFINE n == read_len(len)
           b == position \div BlockSize
<1>1. /\ file' = file
      /\ result' = [call |-> "read", from |-> position, len |-> len,
                    data |-> BytesOf(Block, n)]
  BY DEF ReadBytes
<1>2. /\ b \in Nat /\ b < Len(file.items)
      /\ Block = file.items[b + 1]
  <2>1. b \in Nat /\ Len(file.items) \in Nat
    BY DivMod, Items DEF IInv, TypeOK
  <2> QED
    BY <2>1, BlockAtPosition DEF ReadBytes
<1>3. /\ n \in Nat \ {0} /\ position + n <= file.size
      /\ offset_within_block + n <= BlockSize
      /\ offset_within_block \in 0 .. BlockSize - 1
  BY ReadLen DEF ReadBytes
<1>4. position \in Nat /\ file.size \in Nat /\ len \in Nat
  BY Items, FileAssumption DEF IInv, TypeOK
<1>5. len > 0 /\ position < file.size
  BY DEF ReadBytes, CanRead
<1> HIDE DEF n
<1>6. /\ Len(BytesOf(Block, n)) = n
      /\ \A i \in 1 .. n :
            BytesOf(Block, n)[i] = Byte(Block, offset_within_block + i - 1)
  BY <1>3, BytesLen
<1>7. ASSUME NEW i \in 1 .. n
      PROVE  /\ position + i <= file.size
             /\ (position + i - 1) \div BlockSize < Len(file.items)
             /\ BytesOf(Block, n)[i] = FileByte(position + i - 1)
  <2>1. PICK k \in Nat : k = i - 1
    BY <1>3
  <2>2. /\ position + i - 1 = position + k
        /\ offset_within_block + i - 1 = offset_within_block + k
        /\ offset_within_block + k < BlockSize
        /\ position + i <= file.size
    BY <1>3, <1>4, <2>1, FileAssumption
  <2>3. /\ (position + k) \div BlockSize = b
        /\ (position + k) % BlockSize = offset_within_block + k
    BY <1>4, <2>2, SameBlock DEF offset_within_block
  <2>4. FileByte(position + k) = Byte(Block, offset_within_block + k)
    BY <1>2, <2>3 DEF FileByte
  <2> QED
    BY <1>2, <1>6, <2>2, <2>3, <2>4
<1>8. BytesOf(Block, n) # <<>>
  BY <1>3, <1>6
<1> QED
  <2>1. /\ result'.call = "read" /\ result'.from = position
        /\ result'.len = len /\ result'.data = BytesOf(Block, n)
    BY <1>1
  <2>2. ~ (result'.len = 0 \/ result'.from >= file'.size)
    BY <1>1, <1>4, <1>5, <2>1
  <2> QED
    BY <1>1, <1>6, <1>7, <1>8, <2>1, <2>2 DEF ReadsFileContents, FileByte

LEMMA NextReadsFileContents ==
    ASSUME IInv, ReadsFileContents, [Next]_vars
    PROVE  ReadsFileContents'
<1>1. ASSUME UNCHANGED <<file, result>> PROVE ReadsFileContents'
  BY <1>1 DEF ReadsFileContents, FileByte
<1>2. ASSUME result' = Error \/ result' = NoResult PROVE ReadsFileContents'
  BY <1>2 DEF ReadsFileContents, Error, NoResult
<1>3. ASSUME NEW len \in BufLens, ReadNothing(len) PROVE ReadsFileContents'
  <2>1. /\ file' = file /\ result'.from = position /\ result'.len = len
        /\ result'.data = <<>> /\ (len = 0 \/ position >= file.size)
    BY <1>3 DEF ReadNothing
  <2> QED
    BY <2>1 DEF ReadsFileContents
<1>4. ASSUME NEW len \in BufLens, ReadNoBlock(len) PROVE ReadsFileContents'
  BY <1>1, <1>2, <1>4 DEF ReadNoBlock
<1>5. ASSUME NEW len \in BufLens, ReadFails(len) PROVE ReadsFileContents'
  BY <1>2, <1>5 DEF ReadFails
<1>6. ASSUME NEW len \in BufLens, ReadBytes(len) PROVE ReadsFileContents'
  BY <1>6, ReadBytesContents
<1>7. ASSUME NEW base, NEW by, Seek(base, by) PROVE ReadsFileContents'
  BY <1>2, <1>7 DEF Seek
<1>8. CASE Stopped \/ UNCHANGED vars
  BY <1>1, <1>8 DEF Stopped, vars
<1> QED
  BY <1>3, <1>4, <1>5, <1>6, <1>7, <1>8 DEF Next

(* Every read returns the bytes of the file at the position of the call,   *)
(* and nothing only for an empty buffer or at the end of the file.         *)
THEOREM ReadsAreFileContents == Spec => []ReadsFileContents
<1>1. Init => ReadsFileContents
  BY DEF Init, ReadsFileContents, NoResult
<1> QED
  BY <1>1, FileInvariant, NextReadsFileContents, PTL DEF Spec

(* The unwrap in read_bytes does not panic while the iterator has one item *)
(* for each block of the file.                                             *)
THEOREM CompleteFilesAreSafe == Spec => []CompleteFilesDoNotPanic
<1>1. IInv => CompleteFilesDoNotPanic
  BY DEF IInv, NotPastEnd, Complete, CompleteFilesDoNotPanic
<1> QED
  BY <1>1, FileInvariant, PTL

-----------------------------------------------------------------------------
(* Paths *)
PathByte == 0 .. 255

LEMMA LeastElement ==
    ASSUME NEW T \in SUBSET Nat, T # {}
    PROVE  \E x \in T : \A y \in T : x <= y
  <1>1. PICK x \in T : \A y \in T : ~ (<<y, x>> \in OpToRel(<, Nat))
    BY Zenon, NatLessThanWellFounded, WFMin
  <1>2. \A y \in T : ~ (y < x)
    BY Zenon, <1>1 DEF OpToRel
  <1> QED
    BY <1>2

(* The separators that Components::next coalesces end somewhere. *)
LEMMA SkipSeparatorsEnds ==
    ASSUME buf \in Seq(PathByte), NEW i \in 0 .. Len(buf)
    PROVE  LET j == SkipSeparators(i)
           IN  /\ j \in i .. Len(buf)
               /\ \A k \in i + 1 .. j : buf[k] = SEPARATOR
               /\ j = Len(buf) \/ buf[j + 1] # SEPARATOR
  <1> DEFINE T == {j \in i .. Len(buf) : j = Len(buf) \/ buf[j + 1] # SEPARATOR}
  <1>1. T \in SUBSET Nat /\ Len(buf) \in T
    OBVIOUS
  <1>2. PICK x \in T : \A y \in T : x <= y
    BY Zenon, <1>1, LeastElement
  <1>3. \A k \in i + 1 .. x : buf[k] = SEPARATOR
    <2> SUFFICES ASSUME NEW k \in i + 1 .. x, buf[k] # SEPARATOR PROVE FALSE
      OBVIOUS
    <2>1. k - 1 \in i .. Len(buf) /\ buf[(k - 1) + 1] # SEPARATOR
      OBVIOUS
    <2>2. k - 1 \in T
      BY <2>1
    <2>3. x <= k - 1
      BY Zenon, <1>2, <2>2
    <2>4. x \in Int /\ k \in Int /\ k <= x
      BY <1>1
    <2> QED
      BY <2>3, <2>4
  <1> QED
    BY Zenon, <1>2, <1>3 DEF SkipSeparators

(* A component ends somewhere. *)
LEMMA ComponentEnds ==
    ASSUME buf \in Seq(PathByte), NEW i \in 0 .. Len(buf)
    PROVE  LET j == ComponentEnd(i)
           IN  /\ j \in i .. Len(buf)
               /\ \A k \in i + 1 .. j : buf[k] # SEPARATOR
               /\ j = Len(buf) \/ buf[j + 1] = SEPARATOR
  <1> DEFINE T == {j \in i .. Len(buf) : j = Len(buf) \/ buf[j + 1] = SEPARATOR}
  <1>1. T \in SUBSET Nat /\ Len(buf) \in T
    OBVIOUS
  <1>2. PICK x \in T : \A y \in T : x <= y
    BY Zenon, <1>1, LeastElement
  <1>3. \A k \in i + 1 .. x : buf[k] # SEPARATOR
    <2> SUFFICES ASSUME NEW k \in i + 1 .. x, buf[k] = SEPARATOR PROVE FALSE
      OBVIOUS
    <2>1. k - 1 \in i .. Len(buf) /\ buf[(k - 1) + 1] = SEPARATOR
      OBVIOUS
    <2>2. k - 1 \in T
      BY <2>1
    <2>3. x <= k - 1
      BY Zenon, <1>2, <2>2
    <2>4. x \in Int /\ k \in Int /\ k <= x
      BY <1>1
    <2> QED
      BY <2>3, <2>4
  <1> QED
    BY Zenon, <1>2, <1>3 DEF ComponentEnd

(* A separator after a path *)
LEMMA SeparatorIsValid ==
    ASSUME NEW p \in Seq(PathByte), try_from(p) = "ok"
    PROVE  try_from(p \o <<SEPARATOR>>) = "ok"
  <1> DEFINE s == p \o <<SEPARATOR>>
  <1>0. /\ MAX_LEN \in Nat /\ Len(p) \in Nat /\ Len(s) = Len(p) + 1
        /\ \A j \in 1 .. Len(p) : s[j] = p[j]
        /\ s[Len(p) + 1] = SEPARATOR
        /\ DOMAIN s = 1 .. Len(p) + 1
    BY PathAssumption DEF SEPARATOR
  <1>1. ~ ContainsNull(p) /\ ~ ComponentTooLong(p)
    BY DEF try_from
  <1>2. ~ ContainsNull(s)
    BY <1>0, <1>1 DEF ContainsNull, SEPARATOR, NULL
  <1>3. ~ ComponentTooLong(s)
    <2> SUFFICES ASSUME NEW i \in DOMAIN s,
                        i = 1 \/ s[i - 1] = SEPARATOR,
                        i + MAX_LEN <= Len(s),
                        \A j \in i .. i + MAX_LEN : s[j] # SEPARATOR
                 PROVE  FALSE
      BY Zenon DEF ComponentTooLong
    <2>1. i + MAX_LEN <= Len(p)
      BY <1>0
    <2> QED
      BY <1>0, <1>1, <2>1 DEF ComponentTooLong
  <1> QED
    BY <1>2, <1>3 DEF try_from

(* A path that is pushed onto a path, with a separator between them, makes *)
(* no longer component.                                                    *)
LEMMA JoinIsValid ==
    ASSUME NEW p \in Seq(PathByte), NEW q \in Seq(PathByte),
           try_from(p) = "ok", try_from(q) = "ok",
           p = <<>> \/ p[Len(p)] = SEPARATOR
    PROVE  p \o q \in Seq(PathByte) /\ try_from(p \o q) = "ok"
  <1>1. ~ ContainsNull(p) /\ ~ ComponentTooLong(p) /\ ~ ContainsNull(q) /\ ~ ComponentTooLong(q)
    BY DEF try_from
  <1>2. ~ ContainsNull(p \o q)
    BY <1>1 DEF ContainsNull
  <1>3. ~ ComponentTooLong(p \o q)
    <2> DEFINE s == p \o q
    <2> SUFFICES ASSUME NEW i \in DOMAIN s,
                        i = 1 \/ s[i - 1] = SEPARATOR,
                        i + MAX_LEN <= Len(s),
                        \A j \in i .. i + MAX_LEN : s[j] # SEPARATOR
                 PROVE  FALSE
      BY Zenon DEF ComponentTooLong
    <2>0. MAX_LEN \in Nat /\ Len(p) \in Nat /\ Len(q) \in Nat /\ Len(s) = Len(p) + Len(q)
          /\ i \in 1 .. Len(s)
      BY PathAssumption
    <2>1. CASE i <= Len(p)
      <3>1. i + MAX_LEN < Len(p)
        BY <2>0, <2>1
      <3>2. \A j \in i .. i + MAX_LEN : s[j] = p[j]
        BY <2>0, <3>1
      <3>3. i = 1 \/ p[i - 1] = SEPARATOR
        BY <2>0, <2>1
      <3> QED
        BY <1>1, <2>0, <2>1, <3>1, <3>2, <3>3 DEF ComponentTooLong
    <2>2. CASE i > Len(p)
      <3> DEFINE m == i - Len(p)
      <3>1. m \in DOMAIN q /\ m + MAX_LEN <= Len(q)
        BY <2>0, <2>2
      <3>2. \A j \in m .. m + MAX_LEN : q[j] # SEPARATOR
        <4> SUFFICES ASSUME NEW j \in m .. m + MAX_LEN PROVE q[j] # SEPARATOR
          OBVIOUS
        <4>1. j + Len(p) \in i .. i + MAX_LEN /\ s[j + Len(p)] = q[j]
          BY <2>0, <2>2, <3>1
        <4> QED
          BY Zenon, <4>1
      <3>3. m = 1 \/ q[m - 1] = SEPARATOR
        BY <2>0, <2>2
      <3> QED
        BY <1>1, <3>1, <3>2, <3>3 DEF ComponentTooLong
    <2> QED
      BY <2>0, <2>1, <2>2
  <1> QED
    BY <1>2, <1>3 DEF try_from

-----------------------------------------------------------------------------
(* The offset is never inside a component. *)
AtBoundary ==
    \/ offset \in {0, Len(buf)}
    \/ buf[offset] = SEPARATOR
    \/ buf[offset + 1] = SEPARATOR

PathInv ==
    /\ buf \in Seq(PathByte)
    /\ offset \in 0 .. Len(buf)
    /\ items \in Seq({<<"RootDir">>, <<"CurDir">>, <<"ParentDir">>}
                     \cup ({"Normal"} \X Seq(PathByte)))
    /\ BufIsValid
    /\ AtBoundary
    /\ ComponentsAreNames

ItemType == {<<"RootDir">>, <<"CurDir">>, <<"ParentDir">>} \cup ({"Normal"} \X Seq(PathByte))

LEMMA ComponentType ==
    ASSUME NEW s \in Seq(PathByte)
    PROVE  /\ Component(s) \in ItemType
           /\ Component(s)[1] = "Normal" => Component(s)[2] = s
  BY DEF Component, ItemType

(* The bytes between two separators of a valid path are a valid name. *)
LEMMA BetweenSeparators ==
    ASSUME buf \in Seq(PathByte), BufIsValid,
           NEW start \in 0 .. Len(buf), NEW end \in start + 1 .. Len(buf),
           start = 0 \/ buf[start] = SEPARATOR,
           \A k \in start + 1 .. end : buf[k] # SEPARATOR
    PROVE  LET s == SubSeq(buf, start + 1, end)
           IN  s \in Seq(PathByte) /\ name_try_from(s) = "ok"
  <1> DEFINE s == SubSeq(buf, start + 1, end)
  <1>0. MAX_LEN \in Nat \ {0} /\ Len(buf) \in Nat /\ start \in Nat /\ end \in Nat
    BY PathAssumption
  <1>1. s \in Seq(PathByte) /\ Len(s) = end - start
        /\ DOMAIN s = 1 .. end - start
        /\ \A k \in 1 .. end - start : s[k] = buf[start + k]
    BY <1>0
  <1> HIDE DEF s
  <1>2. s # <<>>
    BY <1>0, <1>1
  <1>3. Len(s) <= MAX_LEN
    <2> SUFFICES ASSUME end - start > MAX_LEN PROVE FALSE
      BY <1>0, <1>1
    <2>1. start + 1 \in DOMAIN buf /\ (start + 1) + MAX_LEN <= Len(buf)
      BY <1>0
    <2>2. start + 1 = 1 \/ buf[(start + 1) - 1] = SEPARATOR
      BY <1>0
    <2>3. \A j \in start + 1 .. (start + 1) + MAX_LEN : buf[j] # SEPARATOR
      BY <1>0
    <2>4. ComponentTooLong(buf)
      BY <2>1, <2>2, <2>3 DEF ComponentTooLong
    <2> QED
      BY <2>4 DEF BufIsValid, try_from
  <1>4. ~ ContainsNull(s)
    <2>1. ~ ContainsNull(buf)
      BY DEF BufIsValid, try_from
    <2> SUFFICES ASSUME NEW k \in 1 .. end - start, s[k] = NULL PROVE FALSE
      BY <1>0, <1>1 DEF ContainsNull
    <2>2. start + k \in DOMAIN buf /\ buf[start + k] = NULL
      BY <1>0, <1>1
    <2> QED
      BY <2>1, <2>2 DEF ContainsNull
  <1>5. \A k \in DOMAIN s : s[k] # SEPARATOR
    <2> SUFFICES ASSUME NEW k \in 1 .. end - start PROVE s[k] # SEPARATOR
      BY <1>1
    <2>1. start + k \in start + 1 .. end
      BY <1>0
    <2> QED
      BY <1>1, <2>1
  <1>6. name_try_from(s) = "ok"
    BY <1>0, <1>1, <1>2, <1>3, <1>4, <1>5 DEF name_try_from
  <1> QED
    BY <1>1, <1>6 DEF s

LEMMA PathInvInit == PathInit => PathInv
  <1> SUFFICES ASSUME PathInit PROVE PathInv
    OBVIOUS
  <1>1. buf = <<>> /\ offset = 0 /\ items = <<>>
    BY DEF PathInit
  <1>2. BufIsValid
    BY <1>1 DEF BufIsValid, try_from, ContainsNull, ComponentTooLong
  <1> QED
    BY <1>1, <1>2 DEF PathInv, AtBoundary, ComponentsAreNames

(* A path that a client passes in is checked. *)
LEMMA NewPathInv ==
    ASSUME NEW p \in Seq(PathByte), try_from(p) = "ok", buf' = p, NewIterator
    PROVE  PathInv'
  BY DEF NewIterator, PathInv, AtBoundary, ComponentsAreNames, BufIsValid,
         try_from, ContainsNull, ComponentTooLong

LEMMA PathInvNext == PathInv /\ [PathNext]_pathVars => PathInv'
  <1> SUFFICES ASSUME PathInv, [PathNext]_pathVars PROVE PathInv'
    OBVIOUS
  <1> USE DEF PathInv
  <1>1. ASSUME NEW s \in Inputs, TryFrom(s) PROVE PathInv'
    <2>1. s \in Seq(PathByte)
      BY PathAssumption DEF PathByte
    <2>2. CASE try_from(s) = "ok"
      BY <1>1, <2>1, <2>2, NewPathInv DEF TryFrom
    <2>3. CASE try_from(s) # "ok"
      BY <1>1, <2>3 DEF TryFrom, AtBoundary, ComponentsAreNames, BufIsValid
    <2> QED
      BY <2>2, <2>3
  <1>2. ASSUME NEW s \in Inputs, Push(s) PROVE PathInv'
    <2>1. s \in Seq(PathByte)
      BY PathAssumption DEF PathByte
    <2>2. CASE try_from(s) = "ok"
      <3>1. pushed(s) \in Seq(PathByte) /\ try_from(pushed(s)) = "ok"
        <4>1. CASE is_absolute(s)
          BY <2>1, <2>2, <4>1 DEF pushed
        <4>2. CASE ~ is_absolute(s) /\ (buf = <<>> \/ buf[Len(buf)] = SEPARATOR)
          BY <2>1, <2>2, <4>2, JoinIsValid DEF pushed, BufIsValid
        <4>3. CASE ~ is_absolute(s) /\ buf # <<>> /\ buf[Len(buf)] # SEPARATOR
          <5> DEFINE q == buf \o <<SEPARATOR>>
          <5>1. q \in Seq(PathByte) /\ q[Len(q)] = SEPARATOR /\ q # <<>>
            BY DEF PathByte, SEPARATOR
          <5>2. try_from(q) = "ok"
            BY SeparatorIsValid DEF BufIsValid
          <5>3. pushed(s) = q \o s
            BY <4>3 DEF pushed
          <5> QED
            BY Zenon, <2>1, <2>2, <5>1, <5>2, <5>3, JoinIsValid
        <4> QED
          BY <4>1, <4>2, <4>3
      <3> QED
        BY <1>2, <2>2, <3>1, NewPathInv DEF Push
    <2>3. CASE try_from(s) # "ok"
      BY <1>2, <2>3 DEF Push, AtBoundary, ComponentsAreNames, BufIsValid
    <2> QED
      BY <2>2, <2>3
  <1>3. CASE RootDir
    <2>1. Len(buf) \in Nat /\ Len(buf) >= 1 /\ buf[1] = SEPARATOR
      BY <1>3 DEF RootDir, is_absolute
    <2>2. offset' \in 0 .. Len(buf') /\ AtBoundary'
      BY <1>3, <2>1 DEF RootDir, AtBoundary
    <2>3. ComponentsAreNames'
      BY <1>3 DEF RootDir, ComponentsAreNames
    <2> QED
      BY <1>3, <2>2, <2>3 DEF RootDir, BufIsValid
  <1>4. CASE NextName
    <2> DEFINE start == SkipSeparators(offset)
               end == ComponentEnd(start)
               s == SubSeq(buf, start + 1, end)
    <2>1. /\ start \in offset .. Len(buf) /\ start < Len(buf)
          /\ \A k \in offset + 1 .. start : buf[k] = SEPARATOR
          /\ buf[start + 1] # SEPARATOR
      BY <1>4, SkipSeparatorsEnds DEF NextName
    <2>2. start \in 0 .. Len(buf)
      BY <2>1
    <2>3. /\ end \in start .. Len(buf)
          /\ \A k \in start + 1 .. end : buf[k] # SEPARATOR
          /\ end = Len(buf) \/ buf[end + 1] = SEPARATOR
      BY <2>2, ComponentEnds
    <2>4. end \in start + 1 .. Len(buf)
      BY <2>1, <2>3
    <2>5. start = 0 \/ buf[start] = SEPARATOR
      BY <2>1 DEF AtBoundary
    <2>6. s \in Seq(PathByte) /\ name_try_from(s) = "ok"
      BY Zenon, <2>2, <2>3, <2>4, <2>5, BetweenSeparators
    <2>7. offset' = end /\ items' = Append(items, Component(s)) /\ buf' = buf
      BY <1>4 DEF NextName
    <2>8. Component(s) \in ItemType /\ (Component(s)[1] = "Normal" => Component(s)[2] = s)
      BY Zenon, <2>6, ComponentType
    <2>9. ComponentsAreNames'
      <3> HIDE DEF start, end, s
      <3> SUFFICES ASSUME NEW i \in DOMAIN items', items'[i][1] = "Normal"
                   PROVE  name_try_from(items'[i][2]) = "ok"
        BY DEF ComponentsAreNames, name_try_from, ContainsNull
      <3>1. CASE i \in DOMAIN items
        BY <2>7, <2>8, <3>1 DEF ComponentsAreNames, ItemType
      <3>2. CASE i = Len(items) + 1
        BY <2>6, <2>7, <2>8, <3>2 DEF ItemType
      <3> QED
        BY <2>7, <2>8, <3>1, <3>2 DEF ItemType
    <2>10. AtBoundary' /\ offset' \in 0 .. Len(buf')
      BY <2>2, <2>3, <2>7 DEF AtBoundary
    <2>11. BufIsValid'
      BY <2>7 DEF BufIsValid
    <2> HIDE DEF s
    <2> QED
      BY <2>7, <2>8, <2>9, <2>10, <2>11 DEF ItemType
  <1>5. CASE NoMoreNames
    BY <1>5 DEF NoMoreNames, AtBoundary, ComponentsAreNames, BufIsValid
  <1>6. CASE UNCHANGED pathVars
    BY <1>6 DEF pathVars, AtBoundary, ComponentsAreNames, BufIsValid
  <1> QED
    BY <1>1, <1>2, <1>3, <1>4, <1>5, <1>6 DEF PathNext

(* Whatever paths are made and pushed, with any limit on names: a path has *)
(* no null byte and no component longer than the limit.                    *)
THEOREM PathsStayValid == PathSpec => []BufIsValid
  <1>1. PathInv => BufIsValid
    BY DEF PathInv
  <1> QED
    BY <1>1, PathInvInit, PathInvNext, PTL DEF PathSpec

(* The unchecked DirEntryName of Components::next is always one that the   *)
(* check accepts.                                                          *)
THEOREM IteratedNamesAreValid == PathSpec => []ComponentsAreNames
  <1>1. PathInv => ComponentsAreNames
    BY DEF PathInv
  <1> QED
    BY <1>1, PathInvInit, PathInvNext, PTL DEF PathSpec

-----------------------------------------------------------------------------
LEMMA StartsInPath ==
    ASSUME NEW p \in Seq(PathByte)
    PROVE  /\ Len(p) \in Nat
           /\ Starts(p) \subseteq Nat
           /\ \A i \in Starts(p) : 1 <= i /\ i <= Len(p)
           /\ Cardinality(Starts(p)) \in Nat
  <1>1. Len(p) \in Nat /\ DOMAIN p = 1 .. Len(p)
    OBVIOUS
  <1>2. Starts(p) \subseteq 1 .. Len(p)
    BY <1>1 DEF Starts
  <1>3. IsFiniteSet(1 .. Len(p))
    BY <1>1, FS_Interval
  <1>4. IsFiniteSet(Starts(p))
    BY <1>2, <1>3, FS_Subset
  <1> QED
    BY <1>1, <1>2, <1>4, FS_CardinalityType

LEMMA StartsAreFinite ==
    ASSUME NEW p \in Seq(PathByte), NEW i \in Nat
    PROVE  /\ Starts(p) \subseteq 1 .. Len(p)
           /\ IsFiniteSet(Starts(p)) /\ Cardinality(Starts(p)) \in Nat
           /\ IsFiniteSet(StartsTo(p, i)) /\ Cardinality(StartsTo(p, i)) \in Nat
           /\ Cardinality(StartsTo(p, i)) <= Cardinality(Starts(p))
  <1>1. Len(p) \in Nat /\ DOMAIN p = 1 .. Len(p)
    OBVIOUS
  <1>2. Starts(p) \subseteq 1 .. Len(p)
    BY <1>1 DEF Starts
  <1>3. IsFiniteSet(1 .. Len(p))
    BY <1>1, FS_Interval
  <1>4. IsFiniteSet(Starts(p))
    BY <1>2, <1>3, FS_Subset
  <1>5. StartsTo(p, i) \in SUBSET Starts(p)
    BY DEF StartsTo
  <1>6. IsFiniteSet(StartsTo(p, i)) /\ Cardinality(StartsTo(p, i)) <= Cardinality(Starts(p))
    BY <1>4, <1>5, FS_Subset
  <1> QED
    BY <1>2, <1>4, <1>6, FS_CardinalityType

(* A component is numbered one more than the one before it. *)
LEMMA NextStart ==
    ASSUME NEW p \in Seq(PathByte), NEW i \in Starts(p), NEW h \in Nat, h < i,
           \A j \in Starts(p) : h < j => i <= j
    PROVE  Cardinality(StartsTo(p, i)) = Cardinality(StartsTo(p, h)) + 1
  <1>1. Starts(p) \subseteq Int /\ i \in Int
    BY StartsInPath
  <1>2. StartsTo(p, i) = StartsTo(p, h) \cup {i}
    BY <1>1 DEF StartsTo
  <1>3. i \notin StartsTo(p, h)
    BY <1>1 DEF StartsTo
  <1>4. IsFiniteSet(StartsTo(p, h))
    BY StartsAreFinite
  <1> QED
    BY Zenon, <1>2, <1>3, <1>4, FS_AddElement

(* Components have different numbers. *)
LEMMA LaterStart ==
    ASSUME NEW p \in Seq(PathByte), NEW i \in Starts(p), NEW j \in Starts(p), i < j
    PROVE  Cardinality(StartsTo(p, i)) < Cardinality(StartsTo(p, j))
  <1>1. Starts(p) \subseteq Nat /\ i \in Nat /\ j \in Nat
    BY StartsInPath
  <1>2. StartsTo(p, i) \cup {j} \in SUBSET StartsTo(p, j) /\ j \notin StartsTo(p, i)
    BY <1>1 DEF StartsTo
  <1>3. /\ IsFiniteSet(StartsTo(p, i)) /\ Cardinality(StartsTo(p, i)) \in Nat
        /\ IsFiniteSet(StartsTo(p, j)) /\ Cardinality(StartsTo(p, j)) \in Nat
    BY <1>1, StartsAreFinite
  <1>4. Cardinality(StartsTo(p, i) \cup {j}) = Cardinality(StartsTo(p, i)) + 1
    BY Zenon, <1>2, <1>3, FS_AddElement
  <1>5. Cardinality(StartsTo(p, i) \cup {j}) <= Cardinality(StartsTo(p, j))
    BY <1>2, <1>3, FS_Subset
  <1> QED
    BY <1>3, <1>4, <1>5

LEMMA StartOfNumber ==
    ASSUME NEW p \in Seq(PathByte), NEW i \in Starts(p)
    PROVE  /\ Start(p, Cardinality(StartsTo(p, i))) = i
           /\ Cardinality(StartsTo(p, i)) \in 1 .. Cardinality(Starts(p))
  <1>1. Starts(p) \subseteq Nat
    BY StartsInPath
  <1>2. ASSUME NEW j \in Starts(p), Cardinality(StartsTo(p, j)) = Cardinality(StartsTo(p, i))
        PROVE  j = i
    <2>1. i \in Nat /\ j \in Nat /\ Cardinality(StartsTo(p, i)) \in Nat
      BY <1>1, StartsAreFinite
    <2>2. ~ (i < j)
      BY <1>2, <2>1, LaterStart
    <2>3. ~ (j < i)
      BY <1>2, <2>1, LaterStart
    <2> QED
      BY <2>1, <2>2, <2>3
  <1>3. Start(p, Cardinality(StartsTo(p, i))) = i
    BY <1>2 DEF Start
  <1>4. i \in Nat /\ i \in StartsTo(p, i)
    BY <1>1 DEF StartsTo
  <1>5. /\ IsFiniteSet(StartsTo(p, i)) /\ Cardinality(StartsTo(p, i)) \in Nat
        /\ Cardinality(Starts(p)) \in Nat
        /\ Cardinality(StartsTo(p, i)) <= Cardinality(Starts(p))
    BY <1>4, StartsAreFinite
  <1>6. Cardinality(StartsTo(p, i)) # 0
    BY <1>4, <1>5, FS_EmptySet
  <1> QED
    BY <1>3, <1>5, <1>6

(* Every number up to that of the components is one's. *)
LEMMA EveryNumberHasAStart ==
    ASSUME NEW p \in Seq(PathByte), NEW k \in 1 .. Cardinality(Starts(p))
    PROVE  Start(p, k) \in Starts(p) /\ Cardinality(StartsTo(p, Start(p, k))) = k
  <1> DEFINE C(n) == Cardinality(StartsTo(p, n))
             T == {n \in Nat : k <= C(n)}
  <1>1. \A n \in Nat : C(n) \in Nat
    BY Zenon, StartsAreFinite
  <1>2. Starts(p) \subseteq Nat /\ Len(p) \in Nat /\ Cardinality(Starts(p)) \in Nat
        /\ \A i \in Starts(p) : i <= Len(p)
    BY StartsInPath
  <1>3. StartsTo(p, Len(p)) = Starts(p)
    BY <1>2 DEF StartsTo
  <1>4. Len(p) \in T
    BY <1>2, <1>3
  <1>5. PICK n \in T : \A m \in T : n <= m
    BY Zenon, <1>4, LeastElement
  <1>6. n # 0
    <2>1. StartsTo(p, 0) = {}
      BY <1>2, StartsInPath DEF StartsTo
    <2>2. C(0) = 0
      BY Zenon, <2>1, FS_EmptySet
    <2> QED
      BY <1>2, <1>5, <2>2
  <1>7. n - 1 \in Nat /\ C(n - 1) \in Nat /\ C(n - 1) < k
    <2>0. n \in Nat /\ n - 1 \in Nat
      BY <1>5, <1>6
    <2>1. n - 1 \in Nat /\ C(n - 1) \in Nat
      <3> HIDE DEF C
      <3> QED
        BY Zenon, <1>1, <2>0
    <2>2. ~ (n <= n - 1)
      BY <1>5
    <2>3. n - 1 \notin T
      BY <1>5, <2>2
    <2>4. ~ (k <= C(n - 1))
      BY <2>1, <2>3
    <2> HIDE DEF C
    <2> QED
      BY <1>2, <2>1, <2>4
  <1>8. n \in Starts(p)
    <2> SUFFICES ASSUME n \notin Starts(p) PROVE FALSE
      OBVIOUS
    <2>1. StartsTo(p, n) = StartsTo(p, n - 1)
      BY <1>2, <1>7 DEF StartsTo
    <2> QED
      BY <1>2, <1>5, <1>7, <2>1
  <1>9. C(n) = C(n - 1) + 1
    BY <1>2, <1>7, <1>8, NextStart
  <1>10. C(n) = k
    BY <1>2, <1>5, <1>7, <1>9
  <1>11. Start(p, k) = n
    BY <1>8, <1>10, StartOfNumber
  <1> QED
    BY <1>8, <1>10, <1>11

LEMMA RunFromIs ==
    ASSUME NEW p \in Seq(PathByte), NEW i \in 1 .. Len(p), NEW e \in i .. Len(p),
           \A j \in i .. e : p[j] # SEPARATOR,
           e = Len(p) \/ p[e + 1] = SEPARATOR
    PROVE  RunFrom(p, i) = SubSeq(p, i, e)
  <1> DEFINE ends == {j \in i .. Len(p) : j = Len(p) \/ p[j + 1] = SEPARATOR}
  <1>1. e \in ends
    OBVIOUS
  <1>2. ASSUME NEW j \in ends PROVE e <= j
    <2>1. CASE j = Len(p)
      BY <2>1
    <2>2. CASE j # Len(p)
      <3>1. j \in Int /\ e \in Int /\ i \in Int /\ p[j + 1] = SEPARATOR /\ i <= j
        BY <2>2
      <3>2. ~ (j + 1 <= e)
        BY <3>1
      <3> QED
        BY <3>1, <3>2
    <2> QED
      BY <2>1, <2>2
  <1>3. ASSUME NEW j \in ends, \A k \in ends : j <= k PROVE j = e
    <2>1. j <= e /\ e <= j /\ j \in Int /\ e \in Int
      BY <1>1, <1>2, <1>3
    <2> QED
      BY <2>1
  <1>4. (CHOOSE j \in ends : \A k \in ends : j <= k) = e
    <2> HIDE DEF ends
    <2> QED
      BY Zenon, <1>1, <1>2, <1>3
  <1> QED
    BY Zenon, <1>4 DEF RunFrom

LEMMA SplitIs ==
    ASSUME NEW p \in Seq(PathByte)
    PROVE  /\ Len(Split(p)) = Len(RootOf(p)) + Cardinality(Starts(p))
           /\ DOMAIN Split(p) = 1 .. Len(Split(p))
           /\ Len(RootOf(p)) \in {0, 1}
           /\ \A i \in 1 .. Len(RootOf(p)) : Split(p)[i] = <<"RootDir">>
           /\ \A k \in 1 .. Cardinality(Starts(p)) :
                 Split(p)[Len(RootOf(p)) + k] = Component(RunFrom(p, Start(p, k)))
  <1> DEFINE f == [k \in 1 .. Cardinality(Starts(p)) |-> Component(RunFrom(p, Start(p, k)))]
             U == {f[k] : k \in 1 .. Cardinality(Starts(p))} \cup { <<"RootDir">> }
  <1>1. Cardinality(Starts(p)) \in Nat
    BY StartsAreFinite
  <1>2. f \in Seq(U) /\ Len(f) = Cardinality(Starts(p))
    BY <1>1
  <1>3. RootOf(p) \in Seq(U) /\ Len(RootOf(p)) \in {0, 1}
        /\ \A i \in 1 .. Len(RootOf(p)) : RootOf(p)[i] = <<"RootDir">>
    <2>1. CASE is_absolute(p)
      <3>1. RootOf(p) = << <<"RootDir">> >>
        BY <2>1 DEF RootOf
      <3>2. <<"RootDir">> \in U
        OBVIOUS
      <3> HIDE DEF U
      <3> QED
        BY <3>1, <3>2
    <2>2. CASE ~ is_absolute(p)
      BY <2>2 DEF RootOf
    <2> QED
      BY <2>1, <2>2
  <1>4. Split(p) = RootOf(p) \o f
    BY DEF Split
  <1>5. \A k \in 1 .. Cardinality(Starts(p)) : f[k] = Component(RunFrom(p, Start(p, k)))
    OBVIOUS
  <1> HIDE DEF f, U
  <1>6. /\ Len(Split(p)) = Len(RootOf(p)) + Cardinality(Starts(p))
        /\ DOMAIN Split(p) = 1 .. Len(Split(p))
    <2> DEFINE r == RootOf(p)
    <2>1. r \in Seq(U) /\ f \in Seq(U)
      BY <1>2, <1>3
    <2> HIDE DEF r
    <2>2. Len(r \o f) = Len(r) + Len(f) /\ DOMAIN (r \o f) = 1 .. Len(r \o f)
      BY <2>1
    <2> QED
      BY <1>2, <1>4, <2>2 DEF r
  <1>7. \A i \in 1 .. Len(RootOf(p)) : Split(p)[i] = <<"RootDir">>
    BY <1>1, <1>2, <1>3, <1>4
  <1>8. \A k \in 1 .. Cardinality(Starts(p)) : Split(p)[Len(RootOf(p)) + k] = f[k]
    BY <1>1, <1>2, <1>3, <1>4
  <1> QED
    BY <1>3, <1>5, <1>6, <1>7, <1>8

-----------------------------------------------------------------------------
(* The iterator has returned the root, once it has moved, and the          *)
(* components that start up to its offset.                                 *)
Returned == (IF offset = 0 THEN 0 ELSE Len(RootOf(buf))) + Cardinality(StartsTo(buf, offset))

IterInv ==
    /\ Len(items) = Returned
    /\ \A i \in DOMAIN items : items[i] = Split(buf)[i]
    /\ status = "none" => offset = Len(buf)

LEMMA NoneReturned ==
    ASSUME buf \in Seq(PathByte), offset = 0
    PROVE  Returned = 0
  <1>1. StartsTo(buf, 0) = {}
    BY StartsInPath DEF StartsTo
  <1> QED
    BY <1>1, FS_EmptySet DEF Returned

LEMMA AllReturned ==
    ASSUME buf \in Seq(PathByte), offset = Len(buf)
    PROVE  Returned = Len(Split(buf))
  <1>1. StartsTo(buf, Len(buf)) = Starts(buf)
    BY StartsInPath DEF StartsTo
  <1>2. offset = 0 => Len(RootOf(buf)) = 0
    <2> SUFFICES ASSUME offset = 0 PROVE Len(RootOf(buf)) = 0
      OBVIOUS
    <2>1. buf = <<>>
      BY Zenon, EmptySeq
    <2> QED
      BY <2>1 DEF RootOf, is_absolute
  <1> QED
    BY <1>1, <1>2, SplitIs DEF Returned

LEMMA IterInvNew ==
    ASSUME NEW p \in Seq(PathByte), buf' = p, NewIterator, status' # "none"
    PROVE  IterInv'
  <1>1. offset' = 0 /\ items' = <<>>
    BY DEF NewIterator
  <1>2. StartsTo(p, 0) = {}
    BY StartsInPath DEF StartsTo
  <1>3. Returned' = 0
    <2>1. Returned' = 0 + Cardinality(StartsTo(p, 0))
      BY <1>1 DEF Returned
    <2>2. Cardinality(StartsTo(p, 0)) = 0
      BY Zenon, <1>2, FS_EmptySet
    <2> QED
      BY <2>1, <2>2
  <1> QED
    BY <1>1, <1>3 DEF IterInv

LEMMA IterInvInit == PathInit => IterInv
  <1> SUFFICES ASSUME PathInit PROVE IterInv
    OBVIOUS
  <1>1. buf = <<>> /\ offset = 0 /\ items = <<>> /\ status = "ok"
    BY DEF PathInit
  <1>2. buf \in Seq(PathByte)
    BY <1>1
  <1>3. Returned = 0
    BY <1>1, <1>2, NoneReturned
  <1> QED
    BY <1>1, <1>3 DEF IterInv

LEMMA IterInvNext == PathInv /\ IterInv /\ [PathNext]_pathVars => IterInv'
  <1> SUFFICES ASSUME PathInv, IterInv, [PathNext]_pathVars PROVE IterInv'
    OBVIOUS
  <1>0. buf \in Seq(PathByte) /\ offset \in 0 .. Len(buf) /\ Len(buf) \in Nat /\ offset \in Nat
    BY DEF PathInv
  <1>00. items \in Seq(ItemType)
    BY DEF PathInv, ItemType
  <1>1. ASSUME NEW s \in Inputs, TryFrom(s) PROVE IterInv'
    <2>1. s \in Seq(PathByte)
      BY PathAssumption DEF PathByte
    <2>2. status' # "none"
      BY <1>1 DEF TryFrom, try_from
    <2>3. CASE try_from(s) = "ok"
      BY <1>1, <2>1, <2>2, <2>3, IterInvNew DEF TryFrom
    <2>4. CASE try_from(s) # "ok"
      BY <1>1, <2>2, <2>4 DEF TryFrom, IterInv, Returned
    <2> QED
      BY <2>3, <2>4
  <1>2. ASSUME NEW s \in Inputs, Push(s) PROVE IterInv'
    <2>1. CASE try_from(s) = "ok"
      <3>1. PathInv'
        BY PathInvNext
      <3>2. buf' \in Seq(PathByte)
        BY <3>1 DEF PathInv
      <3> QED
        BY <1>2, <2>1, <3>2, IterInvNew DEF Push
    <2>2. CASE try_from(s) # "ok"
      BY <1>2, <2>2 DEF Push, IterInv, Returned
    <2> QED
      BY <2>1, <2>2
  <1>3. CASE RootDir
    <2>1. /\ offset = 0 /\ is_absolute(buf) /\ offset' = 1 /\ buf' = buf
          /\ items' = Append(items, <<"RootDir">>) /\ status' = "ok"
      BY <1>3 DEF RootDir
    <2>2. Len(items) = 0
      BY <1>0, <2>1, NoneReturned DEF IterInv
    <2>3. items' = << <<"RootDir">> >>
      BY <1>00, <2>1, <2>2
    <2>4. Len(RootOf(buf)) = 1
      BY <2>1 DEF RootOf
    <2>5. StartsTo(buf, 1) = {}
      BY <1>0, <2>1, StartsInPath DEF StartsTo, Starts, is_absolute
    <2>6. Cardinality(StartsTo(buf, 1)) = 0
      BY <2>5, FS_EmptySet
    <2>7. Returned' = 1
      BY <2>1, <2>4, <2>6 DEF Returned
    <2>8. Split(buf)[1] = <<"RootDir">>
      <3>1. 1 \in 1 .. Len(RootOf(buf))
        BY <2>4
      <3> QED
        BY <1>0, <3>1, SplitIs
    <2>9. Len(items') = 1 /\ DOMAIN items' = {1} /\ items'[1] = <<"RootDir">>
      BY <2>3
    <2> QED
      BY <2>1, <2>7, <2>8, <2>9 DEF IterInv
  <1>4. CASE NextName
    <2> DEFINE start == SkipSeparators(offset)
               end == ComponentEnd(start)
               s == SubSeq(buf, start + 1, end)
               n == Cardinality(StartsTo(buf, offset))
    <2>1. /\ start \in offset .. Len(buf) /\ start < Len(buf)
          /\ \A k \in offset + 1 .. start : buf[k] = SEPARATOR
          /\ buf[start + 1] # SEPARATOR
      BY <1>0, <1>4, SkipSeparatorsEnds DEF NextName
    <2>2. start \in 0 .. Len(buf)
      BY <1>0, <2>1
    <2>3. /\ end \in start .. Len(buf)
          /\ \A k \in start + 1 .. end : buf[k] # SEPARATOR
          /\ end = Len(buf) \/ buf[end + 1] = SEPARATOR
      BY Zenon, <1>0, <2>2, ComponentEnds
    <2>4. end \in start + 1 .. Len(buf)
      BY <1>0, <2>1, <2>2, <2>3
    <2>5. start = 0 \/ buf[start] = SEPARATOR
      BY <1>0, <2>1 DEF PathInv, AtBoundary
    <2>6. /\ offset' = end /\ items' = Append(items, Component(s)) /\ buf' = buf
          /\ status' = "ok" /\ ~ (offset = 0 /\ is_absolute(buf))
      BY <1>4 DEF NextName
    <2> HIDE DEF start, end
    <2>7. start + 1 \in Starts(buf)
      BY <1>0, <2>1, <2>2, <2>5 DEF Starts
    <2>8. \A j \in Starts(buf) : offset < j => start + 1 <= j
      BY <1>0, <2>1, <2>2 DEF Starts
    <2>9. Cardinality(StartsTo(buf, start + 1)) = n + 1
      <3>1. offset < start + 1
        BY <1>0, <2>1
      <3> QED
        BY <1>0, <2>7, <2>8, <3>1, NextStart
    <2>10. StartsTo(buf, end) = StartsTo(buf, start + 1)
      <3>1. \A j \in Starts(buf) : j <= end => j <= start + 1
        BY <1>0, <2>2, <2>3, <2>4 DEF Starts
      <3>2. \A j \in Starts(buf) : j \in Int
        BY <1>0, StartsInPath
      <3>3. start + 1 <= end /\ start \in Int /\ end \in Int
        BY <1>0, <2>2, <2>4
      <3> QED
        BY <3>1, <3>2, <3>3 DEF StartsTo
    <2>11. Start(buf, n + 1) = start + 1 /\ n + 1 \in 1 .. Cardinality(Starts(buf))
      BY <1>0, <2>7, <2>9, StartOfNumber
    <2>12. RunFrom(buf, start + 1) = s
      <3>1. start + 1 \in 1 .. Len(buf)
        BY <1>0, <2>1, <2>2
      <3> QED
        BY <1>0, <2>3, <2>4, <3>1, RunFromIs
    <2>13. Split(buf)[Len(RootOf(buf)) + (n + 1)] = Component(s)
      BY Zenon, <1>0, <2>11, <2>12, SplitIs
    <2>14. n \in Nat /\ Len(RootOf(buf)) \in {0, 1}
      BY <1>0, StartsAreFinite, SplitIs
    <2>15. Len(items) = Len(RootOf(buf)) + n
      <3>1. offset = 0 => Len(RootOf(buf)) = 0
        BY <2>6 DEF RootOf
      <3>2. Len(items) = (IF offset = 0 THEN 0 ELSE Len(RootOf(buf))) + n
        BY DEF IterInv, Returned
      <3> HIDE DEF n
      <3> QED
        BY <2>14, <3>1, <3>2
    <2>16. Returned' = Len(RootOf(buf)) + (n + 1)
      <3>1. end # 0
        BY <1>0, <2>2, <2>4
      <3> QED
        BY <2>6, <2>9, <2>10, <3>1 DEF Returned
    <2>17. \A i \in DOMAIN items : items[i] = Split(buf)[i]
      BY DEF IterInv
    <2>18. Len(items') = Len(items) + 1 /\ items'[Len(items) + 1] = Component(s)
           /\ DOMAIN items' = 1 .. Len(items) + 1
           /\ \A i \in 1 .. Len(items) : i \in DOMAIN items /\ items'[i] = items[i]
      <3>1. Component(s) \in ItemType
        <4>1. s \in Seq(PathByte)
          BY <1>0, <2>2, <2>4
        <4> QED
          BY Zenon, <4>1, ComponentType
      <3> HIDE DEF s
      <3> QED
        BY <1>00, <2>6, <3>1
    <2> HIDE DEF n, s
    <2>19. Len(items') = Returned'
      BY <2>14, <2>15, <2>16, <2>18
    <2>20. Len(items) \in Nat /\ Len(items) + 1 = Len(RootOf(buf)) + (n + 1)
      BY <2>14, <2>15
    <2>21. \A i \in DOMAIN items' : items'[i] = Split(buf)[i]
      <3> SUFFICES ASSUME NEW i \in 1 .. Len(items) + 1 PROVE items'[i] = Split(buf)[i]
        BY <2>18
      <3>1. CASE i \in 1 .. Len(items)
        BY <2>17, <2>18, <3>1
      <3>2. CASE i = Len(items) + 1
        BY <2>13, <2>18, <2>20, <3>2
      <3> QED
        BY <2>20, <3>1, <3>2
    <2> QED
      BY <2>6, <2>19, <2>21 DEF IterInv
  <1>5. CASE NoMoreNames
    <2>1. /\ SkipSeparators(offset) = Len(buf) /\ ~ (offset = 0 /\ is_absolute(buf))
          /\ offset' = Len(buf) /\ status' = "none" /\ UNCHANGED <<buf, items>>
      BY <1>5 DEF NoMoreNames
    <2>2. \A k \in offset + 1 .. Len(buf) : buf[k] = SEPARATOR
      BY <1>0, <2>1, SkipSeparatorsEnds
    <2>3. StartsTo(buf, Len(buf)) = StartsTo(buf, offset)
      BY <1>0, <2>2, StartsInPath DEF StartsTo, Starts
    <2>4. offset = 0 => Len(RootOf(buf)) = 0
      BY <2>1 DEF RootOf
    <2>5. Len(buf) = 0 => offset = 0
      BY <1>0
    <2>6. Returned' = Returned
      BY <2>1, <2>3, <2>4, <2>5 DEF Returned
    <2> QED
      BY <2>1, <2>6 DEF IterInv
  <1>6. CASE UNCHANGED pathVars
    BY <1>6 DEF pathVars, IterInv, Returned
  <1> QED
    BY <1>1, <1>2, <1>3, <1>4, <1>5, <1>6 DEF PathNext

(* The iterator over any path returns the components that the path has by  *)
(* their definition, in order, and says that there are no more after the   *)
(* last one only.                                                          *)
THEOREM IterationIsSplit == PathSpec => []IteratesComponents
  <1>1. PathInv /\ IterInv => IteratesComponents
    <2> SUFFICES ASSUME PathInv, IterInv PROVE IteratesComponents
      OBVIOUS
    <2>1. buf \in Seq(PathByte) /\ offset \in 0 .. Len(buf) /\ Len(buf) \in Nat /\ offset \in Nat
      BY DEF PathInv
    <2>2. Len(items) = Returned /\ \A i \in DOMAIN items : items[i] = Split(buf)[i]
      BY DEF IterInv
    <2>3. Returned <= Len(Split(buf))
      <3> DEFINE n == Cardinality(StartsTo(buf, offset))
      <3>1. n \in Nat /\ Cardinality(Starts(buf)) \in Nat /\ n <= Cardinality(Starts(buf))
        BY <2>1, StartsAreFinite
      <3>2. /\ Len(Split(buf)) = Len(RootOf(buf)) + Cardinality(Starts(buf))
            /\ Len(RootOf(buf)) \in {0, 1}
        BY <2>1, SplitIs
      <3>3. Returned = (IF offset = 0 THEN 0 ELSE Len(RootOf(buf))) + n
        BY DEF Returned
      <3> HIDE DEF n
      <3> QED
        BY <3>1, <3>2, <3>3
    <2>4. status = "none" => Len(items) = Len(Split(buf))
      BY <2>1, <2>2, AllReturned DEF IterInv
    <2> QED
      BY <2>2, <2>3, <2>4 DEF IteratesComponents
  <1>2. PathInit => PathInv /\ IterInv
    BY PathInvInit, IterInvInit
  <1>3. PathInv /\ IterInv /\ [PathNext]_pathVars => PathInv' /\ IterInv'
    BY PathInvNext, IterInvNext
  <1> QED
    BY <1>1, <1>2, <1>3, PTL DEF PathSpec

-----------------------------------------------------------------------------
LEMMA ShiftKeepsCardinality ==
    ASSUME NEW T \in SUBSET Nat, IsFiniteSet(T), NEW n \in Nat
    PROVE  /\ IsFiniteSet({n + j : j \in T})
           /\ Cardinality({n + j : j \in T}) = Cardinality(T)
  <1> DEFINE U == {n + j : j \in T}
             f == [j \in T |-> n + j]
  <1>1. f \in [T -> U]
    OBVIOUS
  <1>2. IsInjective(f)
    BY DEF IsInjective
  <1>3. \A u \in U : \E j \in T : f[j] = u
    OBVIOUS
  <1> HIDE DEF f, U
  <1>4. f \in Bijection(T, U)
    BY <1>1, <1>2, <1>3 DEF Bijection, Injection, Surjection
  <1>5. ExistsBijection(T, U)
    BY <1>4 DEF ExistsBijection
  <1>6. IsFiniteSet(U) /\ Cardinality(U) = Cardinality(T)
    BY <1>5, FS_Bijection
  <1> QED
    BY <1>6 DEF U

(* A component ends before a separator or at the end of the path. *)
LEMMA RunEnds ==
    ASSUME NEW p \in Seq(PathByte), NEW i \in Starts(p)
    PROVE  \E e \in i .. Len(p) :
              /\ \A j \in i .. e : p[j] # SEPARATOR
              /\ e = Len(p) \/ p[e + 1] = SEPARATOR
  <1> DEFINE T == {j \in i .. Len(p) : j = Len(p) \/ p[j + 1] = SEPARATOR}
  <1>1. i \in Nat /\ 1 <= i /\ i <= Len(p) /\ Len(p) \in Nat /\ p[i] # SEPARATOR
    BY StartsInPath DEF Starts
  <1>2. T \in SUBSET Nat /\ Len(p) \in T
    BY <1>1
  <1>3. PICK e \in T : \A y \in T : e <= y
    BY Zenon, <1>2, LeastElement
  <1>4. ASSUME NEW j \in i .. e PROVE p[j] # SEPARATOR
    <2> SUFFICES ASSUME p[j] = SEPARATOR PROVE FALSE
      OBVIOUS
    <2>1. j # i /\ e \in Nat /\ e <= Len(p)
      BY <1>1, <1>3
    <2>2. j - 1 \in i .. Len(p) /\ p[(j - 1) + 1] = SEPARATOR
      BY <1>1, <2>1
    <2>3. j - 1 \in T
      BY <2>2
    <2>4. e <= j - 1
      BY <1>3, <2>3
    <2> QED
      BY <1>1, <2>1, <2>4
  <1> QED
    BY <1>3, <1>4

(* Two sequences of bytes have the same run, at places a distance apart,   *)
(* if the bytes of the run and where it ends agree.                        *)
LEMMA SameRun ==
    ASSUME NEW p \in Seq(PathByte), NEW s \in Seq(PathByte), NEW n \in Nat,
           NEW i \in Nat, 1 <= i, NEW e \in i .. Len(p),
           \A j \in i .. e : p[j] # SEPARATOR,
           e = Len(p) \/ p[e + 1] = SEPARATOR,
           n + e <= Len(s),
           \A j \in i .. e : s[n + j] = p[j],
           n + e = Len(s) \/ s[n + e + 1] = SEPARATOR
    PROVE  RunFrom(s, n + i) = RunFrom(p, i)
  <1>0. Len(p) \in Nat /\ Len(s) \in Nat /\ e \in Nat /\ i <= e /\ e <= Len(p)
    OBVIOUS
  <1>1. RunFrom(p, i) = SubSeq(p, i, e)
    <2>1. i \in 1 .. Len(p)
      BY <1>0
    <2> QED
      BY <2>1, RunFromIs
  <1>2. RunFrom(s, n + i) = SubSeq(s, n + i, n + e)
    <2>1. n + i \in 1 .. Len(s) /\ n + e \in n + i .. Len(s)
      BY <1>0
    <2>2. \A j \in n + i .. n + e : s[j] # SEPARATOR
      <3> SUFFICES ASSUME NEW j \in n + i .. n + e PROVE s[j] # SEPARATOR
        OBVIOUS
      <3>1. j - n \in i .. e /\ n + (j - n) = j
        BY <1>0
      <3> QED
        BY Zenon, <3>1
    <2>3. n + e = Len(s) \/ s[(n + e) + 1] = SEPARATOR
      BY <1>0
    <2> QED
      BY <2>1, <2>2, <2>3, RunFromIs
  <1>3. SubSeq(s, n + i, n + e) = SubSeq(p, i, e)
    <2> DEFINE x == SubSeq(s, n + i, n + e)
               y == SubSeq(p, i, e)
    <2>1. x \in Seq(PathByte) /\ Len(x) = (e - i) + 1
          /\ \A k \in 1 .. (e - i) + 1 : x[k] = s[n + i + k - 1]
      BY <1>0
    <2>2. y \in Seq(PathByte) /\ Len(y) = (e - i) + 1
          /\ \A k \in 1 .. (e - i) + 1 : y[k] = p[i + k - 1]
      BY <1>0
    <2>3. ASSUME NEW k \in 1 .. (e - i) + 1 PROVE s[n + i + k - 1] = p[i + k - 1]
      <3>1. i + k - 1 \in i .. e /\ n + (i + k - 1) = n + i + k - 1
        BY <1>0
      <3> QED
        BY <3>1
    <2> HIDE DEF x, y
    <2>4. Len(x) = Len(y) /\ \A k \in 1 .. Len(x) : x[k] = y[k]
      BY Zenon, <2>1, <2>2, <2>3
    <2>5. x = y
      BY Zenon, <2>1, <2>2, <2>4, SeqEqual
    <2> QED
      BY <2>5 DEF x, y
  <1> QED
    BY <1>1, <1>2, <1>3

(* What is between separators decides the components. *)
LEMMA SeparatorSplitsNothing ==
    ASSUME NEW p \in Seq(PathByte), p # <<>>, p[Len(p)] # SEPARATOR
    PROVE  Split(p \o <<SEPARATOR>>) = Split(p)
  <1> DEFINE s == p \o <<SEPARATOR>>
  <1>0. /\ Len(p) \in Nat /\ Len(p) > 0 /\ Len(s) = Len(p) + 1
        /\ \A j \in 1 .. Len(p) : s[j] = p[j]
        /\ s[Len(p) + 1] = SEPARATOR
        /\ DOMAIN p = 1 .. Len(p) /\ DOMAIN s = 1 .. Len(p) + 1
    BY EmptySeq DEF SEPARATOR
  <1>1. s \in Seq(PathByte)
    BY DEF PathByte, SEPARATOR
  <1> HIDE DEF s
  <1>2. Starts(s) = Starts(p)
    BY <1>0 DEF Starts
  <1>3. \A i : StartsTo(s, i) = StartsTo(p, i)
    BY <1>2 DEF StartsTo
  <1>4. \A k : Start(s, k) = Start(p, k)
    BY <1>2, <1>3 DEF Start
  <1>5. RootOf(s) = RootOf(p)
    <2>1. s # <<>> /\ s[1] = p[1]
      BY <1>0
    <2> QED
      BY <2>1 DEF RootOf, is_absolute
  <1>6. ASSUME NEW i \in Starts(p) PROVE RunFrom(s, i) = RunFrom(p, i)
    <2>1. PICK e \in i .. Len(p) : /\ \A j \in i .. e : p[j] # SEPARATOR
                                   /\ e = Len(p) \/ p[e + 1] = SEPARATOR
      BY RunEnds
    <2>2. i \in Nat /\ 1 <= i
      BY StartsInPath
    <2>3. e \in Nat /\ e <= Len(p) /\ 0 + e <= Len(s)
      <3>1. Len(p) \in Nat /\ Len(s) = Len(p) + 1
        BY <1>0
      <3> QED
        BY <2>2, <3>1
    <2>4. \A j \in i .. e : s[0 + j] = p[j]
      BY <1>0, <2>2, <2>3
    <2>5. 0 + e = Len(s) \/ s[0 + e + 1] = SEPARATOR
      <3>1. e = Len(p) => s[e + 1] = SEPARATOR
        BY SMTT(30), <1>0
      <3>2. e # Len(p) => p[e + 1] = SEPARATOR /\ s[e + 1] = p[e + 1]
        <4>1. Len(p) \in Nat
          BY <1>0
        <4>2. e # Len(p) => e + 1 \in 1 .. Len(p)
          BY <2>3, <4>1
        <4> QED
          BY Zenon, <1>0, <2>1, <4>2
      <3>3. 0 + e + 1 = e + 1
        BY <2>3
      <3> QED
        BY <3>1, <3>2, <3>3
    <2>6. RunFrom(s, 0 + i) = RunFrom(p, i)
      <3>1. s \in Seq(PathByte) /\ 0 \in Nat /\ 0 + e <= Len(s)
        BY <1>1, <2>3
      <3> QED
        BY ZenonT(40), <2>1, <2>2, <2>4, <2>5, <3>1, SameRun
    <2> QED
      BY <2>2, <2>6
  <1>7. \A k \in 1 .. Cardinality(Starts(p)) : RunFrom(s, Start(s, k)) = RunFrom(p, Start(p, k))
    BY <1>4, <1>6, EveryNumberHasAStart
  <1>8. Split(s) = Split(p)
    BY Zenon, <1>2, <1>5, <1>7 DEF Split
  <1> QED
    BY <1>8 DEF s

(* A path that ends with a separator, and what is pushed onto it: the      *)
(* components start where those of the two paths do.                       *)
LEMMA StartsOfJoin ==
    ASSUME NEW p \in Seq(PathByte), NEW q \in Seq(PathByte), p = <<>> \/ p[Len(p)] = SEPARATOR
    PROVE  LET s == p \o q
           IN  /\ Starts(s) = Starts(p) \cup {Len(p) + j : j \in Starts(q)}
               /\ \A i \in Starts(p) : StartsTo(s, i) = StartsTo(p, i)
               /\ \A j \in Starts(q) :
                     StartsTo(s, Len(p) + j) = Starts(p) \cup {Len(p) + k : k \in StartsTo(q, j)}
  <1> DEFINE s == p \o q
             Q == {Len(p) + j : j \in Starts(q)}
  <1>0. /\ Len(p) \in Nat /\ Len(q) \in Nat /\ Len(s) = Len(p) + Len(q)
        /\ \A j \in 1 .. Len(p) : s[j] = p[j]
        /\ \A j \in 1 .. Len(q) : s[Len(p) + j] = q[j]
        /\ DOMAIN p = 1 .. Len(p) /\ DOMAIN q = 1 .. Len(q)
        /\ DOMAIN s = 1 .. Len(p) + Len(q)
    OBVIOUS
  <1>1. Len(p) = 0 \/ s[Len(p)] = SEPARATOR
    BY <1>0
  <1> HIDE DEF s
  <1>2. \A i \in Starts(p) : i \in Starts(s)
    BY <1>0 DEF Starts
  <1>3. \A j \in Starts(q) : Len(p) + j \in Starts(s)
    <2> SUFFICES ASSUME NEW j \in Starts(q) PROVE Len(p) + j \in Starts(s)
      OBVIOUS
    <2>1. j \in 1 .. Len(q) /\ q[j] # SEPARATOR /\ (j = 1 \/ q[j - 1] = SEPARATOR)
      BY <1>0 DEF Starts
    <2>2. Len(p) + j \in DOMAIN s /\ s[Len(p) + j] # SEPARATOR
      BY <1>0, <2>1
    <2>3. Len(p) + j = 1 \/ s[(Len(p) + j) - 1] = SEPARATOR
      <3>1. CASE j = 1
        BY <1>0, <1>1, <3>1
      <3>2. CASE j # 1
        <4>1. j - 1 \in 1 .. Len(q) /\ q[j - 1] = SEPARATOR /\ Len(p) + (j - 1) = (Len(p) + j) - 1
          BY <1>0, <2>1, <3>2
        <4> QED
          BY <1>0, <4>1
      <3> QED
        BY <3>1, <3>2
    <2> QED
      BY <2>2, <2>3 DEF Starts
  <1>4. \A i \in Starts(s) : i \in Starts(p) \/ i \in Q
    <2> SUFFICES ASSUME NEW i \in Starts(s) PROVE i \in Starts(p) \/ i \in Q
      OBVIOUS
    <2>1. i \in 1 .. Len(p) + Len(q) /\ s[i] # SEPARATOR /\ (i = 1 \/ s[i - 1] = SEPARATOR)
      BY <1>0 DEF Starts
    <2>2. CASE i <= Len(p)
      <3>1. i \in 1 .. Len(p)
        BY <1>0, <2>1, <2>2
      <3>2. i # 1 => i - 1 \in 1 .. Len(p)
        BY <1>0, <3>1
      <3> QED
        BY <1>0, <2>1, <3>1, <3>2 DEF Starts
    <2>3. CASE i > Len(p)
      <3> DEFINE j == i - Len(p)
      <3>1. j \in 1 .. Len(q) /\ i = Len(p) + j
        BY <1>0, <2>1, <2>3
      <3> HIDE DEF j
      <3>2. q[j] # SEPARATOR
        BY <1>0, <2>1, <3>1
      <3>3. j # 1 => j - 1 \in 1 .. Len(q) /\ i - 1 = Len(p) + (j - 1) /\ i # 1
        BY <1>0, <3>1
      <3>4. j = 1 \/ q[j - 1] = SEPARATOR
        BY <1>0, <2>1, <3>3
      <3>5. j \in Starts(q)
        BY <1>0, <3>1, <3>2, <3>4 DEF Starts
      <3> QED
        BY <3>1, <3>5
    <2> QED
      BY SMTT(30), <1>0, <2>1, <2>2, <2>3
  <1>5. Starts(s) = Starts(p) \cup Q
    BY <1>2, <1>3, <1>4
  <1>6. /\ Starts(p) \subseteq Nat /\ \A i \in Starts(p) : i <= Len(p)
        /\ Starts(q) \subseteq Nat /\ \A j \in Starts(q) : 1 <= j
    BY StartsInPath
  <1>7. \A i \in Starts(p) : StartsTo(s, i) = StartsTo(p, i)
    <2> SUFFICES ASSUME NEW i \in Starts(p) PROVE StartsTo(s, i) = StartsTo(p, i)
      OBVIOUS
    <2>1. \A x \in Q : ~ (x <= i)
      BY <1>0, <1>6
    <2> QED
      BY <1>5, <2>1 DEF StartsTo
  <1>8. \A j \in Starts(q) :
           StartsTo(s, Len(p) + j) = Starts(p) \cup {Len(p) + k : k \in StartsTo(q, j)}
    <2> SUFFICES ASSUME NEW j \in Starts(q)
                 PROVE  StartsTo(s, Len(p) + j) = Starts(p) \cup {Len(p) + k : k \in StartsTo(q, j)}
      OBVIOUS
    <2>1. \A i \in Starts(p) : i <= Len(p) + j
      BY <1>0, <1>6
    <2>2. \A k \in Starts(q) : Len(p) + k <= Len(p) + j <=> k <= j
      BY <1>0, <1>6
    <2>3. \A x \in StartsTo(s, Len(p) + j) :
             x \in Starts(p) \cup {Len(p) + k : k \in StartsTo(q, j)}
      BY <1>5, <2>2 DEF StartsTo
    <2>4. \A x \in Starts(p) : x \in StartsTo(s, Len(p) + j)
      BY <1>5, <2>1 DEF StartsTo
    <2>5. \A k \in StartsTo(q, j) : Len(p) + k \in StartsTo(s, Len(p) + j)
      BY <1>5, <2>2 DEF StartsTo
    <2> QED
      BY <2>3, <2>4, <2>5
  <1> QED
    BY <1>5, <1>7, <1>8 DEF s

(* w is x followed by y *)
IsConcat(w, x, y) ==
    /\ Len(w) = Len(x) + Len(y)
    /\ \A k \in 1 .. Len(x) : w[k] = x[k]
    /\ \A k \in 1 .. Len(y) : w[Len(x) + k] = y[k]

LEMMA ConcatIs ==
    ASSUME NEW S, NEW x \in Seq(S), NEW y \in Seq(S)
    PROVE  x \o y \in Seq(S) /\ IsConcat(x \o y, x, y)
  BY DEF IsConcat

LEMMA ConcatOnly ==
    ASSUME NEW S, NEW w \in Seq(S), NEW x \in Seq(S), NEW y \in Seq(S), IsConcat(w, x, y)
    PROVE  w = x \o y
  <1> DEFINE v == x \o y
  <1>1. v \in Seq(S) /\ IsConcat(v, x, y)
    BY ConcatIs
  <1> HIDE DEF v
  <1>2. Len(x) \in Nat /\ Len(y) \in Nat
    OBVIOUS
  <1>3. Len(w) = Len(v) /\ Len(w) = Len(x) + Len(y)
    BY <1>1 DEF IsConcat
  <1>4. ASSUME NEW k \in 1 .. Len(w) PROVE w[k] = v[k]
    <2>1. CASE k <= Len(x)
      <3>1. k \in 1 .. Len(x)
        BY <1>2, <2>1
      <3> QED
        BY <1>1, <3>1 DEF IsConcat
    <2>2. CASE k > Len(x)
      <3>1. k - Len(x) \in 1 .. Len(y) /\ Len(x) + (k - Len(x)) = k
        BY <1>2, <1>3, <2>2
      <3> QED
        BY Zenon, <1>1, <3>1 DEF IsConcat
    <2> QED
      BY <1>2, <2>1, <2>2
  <1>5. w = v
    BY Zenon, <1>1, <1>3, <1>4, SeqEqual
  <1> QED
    BY <1>5 DEF v

LEMMA ConcatTwice ==
    ASSUME NEW S, NEW r \in Seq(S), NEW x \in Seq(S), NEW y \in Seq(S), NEW z \in Seq(S),
           NEW t \in Seq(S), NEW a \in Seq(S),
           IsConcat(t, r, x), IsConcat(z, x, y), IsConcat(a, r, z)
    PROVE  IsConcat(a, t, y)
  <1>1. /\ Len(r) \in Nat /\ Len(x) \in Nat /\ Len(y) \in Nat
        /\ Len(t) = Len(r) + Len(x) /\ Len(z) = Len(x) + Len(y)
        /\ Len(a) = Len(r) + Len(z)
    BY DEF IsConcat
  <1>2. ASSUME NEW k \in 1 .. Len(t) PROVE a[k] = t[k]
    <2>1. CASE k <= Len(r)
      <3>1. k \in 1 .. Len(r)
        BY SMTT(30), <1>1, <2>1
      <3> QED
        BY <3>1 DEF IsConcat
    <2>2. CASE k > Len(r)
      <3> DEFINE m == k - Len(r)
      <3>1. m \in 1 .. Len(x) /\ m \in 1 .. Len(z) /\ k = Len(r) + m
        BY <1>1, <2>2
      <3> HIDE DEF m
      <3>2. t[Len(r) + m] = x[m] /\ z[m] = x[m] /\ a[Len(r) + m] = z[m]
        BY <3>1 DEF IsConcat
      <3> QED
        BY <3>1, <3>2
    <2> QED
      BY SMTT(30), <1>1, <2>1, <2>2
  <1>3. ASSUME NEW k \in 1 .. Len(y) PROVE a[Len(t) + k] = y[k]
    <2>1. Len(x) + k \in 1 .. Len(z) /\ Len(t) + k = Len(r) + (Len(x) + k)
      BY <1>1
    <2> QED
      BY ZenonT(40), <2>1 DEF IsConcat
  <1>4. Len(a) = Len(t) + Len(y)
    BY <1>1
  <1> QED
    BY <1>2, <1>3, <1>4 DEF IsConcat

LEMMA JoinSplits ==
    ASSUME NEW p \in Seq(PathByte), NEW q \in Seq(PathByte), p = <<>> \/ p[Len(p)] = SEPARATOR,
           ~ is_absolute(q)
    PROVE  Split(p \o q) = Split(p) \o Split(q)
  <1> DEFINE s == p \o q
             c == Cardinality(Starts(p))
             d == Cardinality(Starts(q))
  <1>0. /\ Len(p) \in Nat /\ Len(q) \in Nat /\ Len(s) = Len(p) + Len(q)
        /\ \A j \in 1 .. Len(p) : s[j] = p[j]
        /\ \A j \in 1 .. Len(q) : s[Len(p) + j] = q[j]
        /\ s \in Seq(PathByte)
    OBVIOUS
  <1>1. /\ Starts(s) = Starts(p) \cup {Len(p) + j : j \in Starts(q)}
        /\ \A i \in Starts(p) : StartsTo(s, i) = StartsTo(p, i)
        /\ \A j \in Starts(q) :
              StartsTo(s, Len(p) + j) = Starts(p) \cup {Len(p) + k : k \in StartsTo(q, j)}
    BY StartsOfJoin
  <1>2. RootOf(s) = RootOf(p) /\ RootOf(q) = <<>>
    <2>1. CASE p = <<>>
      <3>1. s = q
        BY <2>1
      <3> HIDE DEF s
      <3> QED
        BY <2>1, <3>1 DEF RootOf, is_absolute
    <2>2. CASE p # <<>>
      <3>1. Len(p) > 0
        BY <1>0, <2>2, EmptySeq
      <3>2. s # <<>> /\ s[1] = p[1]
        BY <1>0, <3>1
      <3> HIDE DEF s
      <3> QED
        BY <2>2, <3>2 DEF RootOf, is_absolute
    <2> QED
      BY <2>1, <2>2
  <1> HIDE DEF s
  <1>3. /\ IsFiniteSet(Starts(p)) /\ c \in Nat /\ IsFiniteSet(Starts(q)) /\ d \in Nat
        /\ Starts(p) \subseteq Nat /\ Starts(q) \subseteq Nat
        /\ \A i \in Starts(p) : i <= Len(p)
        /\ \A j \in Starts(q) : 1 <= j
    BY Zenon, StartsAreFinite, StartsInPath
  <1>4. ASSUME NEW T \in SUBSET Starts(q)
        PROVE  Cardinality(Starts(p) \cup {Len(p) + j : j \in T}) = c + Cardinality(T)
    <2> DEFINE U == {Len(p) + j : j \in T}
    <2>1. T \in SUBSET Nat /\ IsFiniteSet(T)
      BY <1>3, FS_Subset
    <2>2. IsFiniteSet(U) /\ Cardinality(U) = Cardinality(T) /\ Cardinality(T) \in Nat
      BY Zenon, <1>0, <2>1, ShiftKeepsCardinality, FS_CardinalityType
    <2>3. Starts(p) \cap U = {}
      BY SMTT(30), <1>0, <1>3
    <2> HIDE DEF U
    <2>4. Cardinality(Starts(p) \cup U) = c + Cardinality(U) - Cardinality(Starts(p) \cap U)
      BY SMTT(30), <1>3, <2>2, FS_Union
    <2>5. Cardinality(Starts(p) \cap U) = 0
      BY Zenon, <2>3, FS_EmptySet
    <2>6. Cardinality(Starts(p) \cup U) = c + Cardinality(T)
      <3> HIDE DEF c
      <3> QED
        BY <1>3, <2>2, <2>4, <2>5
    <2> QED
      BY <2>6 DEF U
  <1>5. Cardinality(Starts(s)) = c + d
    BY <1>1, <1>4
  <1>6. ASSUME NEW k \in 1 .. c
        PROVE  RunFrom(s, Start(s, k)) = RunFrom(p, Start(p, k))
    <2> DEFINE i == Start(p, k)
    <2>1. i \in Starts(p) /\ Cardinality(StartsTo(p, i)) = k
      BY EveryNumberHasAStart
    <2> HIDE DEF i
    <2>2. i \in Starts(s) /\ Cardinality(StartsTo(s, i)) = k
      BY <1>1, <2>1
    <2>3. Start(s, k) = i
      BY <1>0, <2>2, StartOfNumber
    <2>4. PICK e \in i .. Len(p) : /\ \A j \in i .. e : p[j] # SEPARATOR
                                   /\ e = Len(p) \/ p[e + 1] = SEPARATOR
      BY <2>1, RunEnds
    <2>5. i \in Nat /\ 1 <= i /\ i <= Len(p)
      BY <2>1, StartsInPath
    <2>6. e \in Nat /\ i <= e /\ e <= Len(p) /\ Len(p) \in Nat /\ Len(q) \in Nat
      BY <1>0, <2>5
    <2>7. p[Len(p)] = SEPARATOR
      BY <2>5
    <2>8. e # Len(p)
      BY <2>4, <2>5, <2>6, <2>7
    <2>9. p[e + 1] = SEPARATOR /\ e + 1 \in 1 .. Len(p)
      BY <2>4, <2>5, <2>6, <2>8
    <2>10. 0 + e <= Len(s)
      BY <1>0, <2>6
    <2>11. \A j \in i .. e : s[0 + j] = p[j]
      BY <1>0, <2>5, <2>6
    <2>12. 0 + e = Len(s) \/ s[0 + e + 1] = SEPARATOR
      <3>1. 0 + e + 1 = e + 1
        BY <2>6
      <3> QED
        BY <1>0, <2>9, <3>1
    <2>13. RunFrom(s, 0 + i) = RunFrom(p, i)
      <3>1. s \in Seq(PathByte) /\ 0 \in Nat
        BY <1>0
      <3> QED
        BY Zenon, <2>4, <2>5, <2>10, <2>11, <2>12, <3>1, SameRun
    <2> QED
      BY SMTT(30), <2>3, <2>5, <2>13 DEF i
  <1>7. ASSUME NEW k \in 1 .. d
        PROVE  RunFrom(s, Start(s, c + k)) = RunFrom(q, Start(q, k))
    <2> DEFINE i == Start(q, k)
    <2>1. i \in Starts(q) /\ Cardinality(StartsTo(q, i)) = k
      BY EveryNumberHasAStart
    <2> HIDE DEF i
    <2>2. StartsTo(q, i) \in SUBSET Starts(q)
      BY DEF StartsTo
    <2>3. Cardinality(StartsTo(s, Len(p) + i)) = c + k
      BY <1>1, <1>4, <2>1, <2>2
    <2>4. Len(p) + i \in Starts(s)
      BY <1>1, <2>1
    <2>5. Start(s, c + k) = Len(p) + i
      BY <1>0, <2>3, <2>4, StartOfNumber
    <2>6. PICK e \in i .. Len(q) : /\ \A j \in i .. e : q[j] # SEPARATOR
                                   /\ e = Len(q) \/ q[e + 1] = SEPARATOR
      BY <2>1, RunEnds
    <2>7. i \in Nat /\ 1 <= i /\ i <= Len(q)
      BY <2>1, StartsInPath
    <2>8. e \in Nat /\ i <= e /\ e <= Len(q) /\ Len(p) \in Nat /\ Len(q) \in Nat
      BY <1>0, <2>7
    <2>9. Len(p) + e <= Len(s)
      BY SMTT(30), <1>0, <2>8
    <2>10. \A j \in i .. e : s[Len(p) + j] = q[j]
      BY SMTT(30), <1>0, <2>7, <2>8
    <2>11. Len(p) + e = Len(s) \/ s[Len(p) + e + 1] = SEPARATOR
      <3>1. CASE e = Len(q)
        BY <1>0, <3>1
      <3>2. CASE e # Len(q)
        <4>1. e + 1 \in 1 .. Len(q) /\ Len(p) + (e + 1) = Len(p) + e + 1
          BY <2>8, <3>2
        <4> QED
          BY <1>0, <2>6, <3>2, <4>1
      <3> QED
        BY <3>1, <3>2
    <2>12. RunFrom(s, Len(p) + i) = RunFrom(q, i)
      BY ZenonT(40), <1>0, <2>6, <2>7, <2>9, <2>10, <2>11, SameRun
    <2> QED
      BY <2>5, <2>12 DEF i
  <1> DEFINE x == [k \in 1 .. c |-> Component(RunFrom(p, Start(p, k)))]
             y == [k \in 1 .. d |-> Component(RunFrom(q, Start(q, k)))]
             z == [k \in 1 .. c + d |-> Component(RunFrom(s, Start(s, k)))]
             U == {x[k] : k \in 1 .. c} \cup {y[k] : k \in 1 .. d}
                  \cup {z[k] : k \in 1 .. c + d} \cup { <<"RootDir">> }
  <1>8. x \in [1 .. c -> U] /\ y \in [1 .. d -> U] /\ z \in [1 .. c + d -> U]
    OBVIOUS
  <1>9. /\ \A k \in 1 .. c : z[k] = x[k]
        /\ \A k \in 1 .. d : z[c + k] = y[k]
    <2>1. ASSUME NEW k \in 1 .. c PROVE z[k] = x[k]
      <3>1. k \in 1 .. c + d
        BY <1>3
      <3> QED
        BY <1>6, <3>1
    <2>2. ASSUME NEW k \in 1 .. d PROVE z[c + k] = y[k]
      <3>1. c + k \in 1 .. c + d
        BY <1>3
      <3> QED
        BY <1>7, <3>1
    <2> QED
      BY <2>1, <2>2
  <1>10. /\ Split(s) = RootOf(p) \o z /\ Split(p) = RootOf(p) \o x
         /\ Split(q) = <<>> \o y
    BY <1>2, <1>5 DEF Split
  <1>11. <<"RootDir">> \in U
    OBVIOUS
  <1>12. c \in Nat /\ d \in Nat
    BY <1>3
  <1> HIDE DEF x, y, z, U, c, d
  <1>13. /\ x \in Seq(U) /\ Len(x) = c /\ y \in Seq(U) /\ Len(y) = d
         /\ z \in Seq(U) /\ Len(z) = c + d
    BY <1>8, <1>12
  <1>14. RootOf(p) \in Seq(U)
    BY <1>11 DEF RootOf
  <1>15. IsConcat(z, x, y)
    BY <1>9, <1>13 DEF IsConcat
  <1>16. /\ Split(p) \in Seq(U) /\ IsConcat(Split(p), RootOf(p), x)
         /\ Split(s) \in Seq(U) /\ IsConcat(Split(s), RootOf(p), z)
    BY <1>10, <1>13, <1>14, ConcatIs
  <1>17. x \in Seq(U) /\ y \in Seq(U) /\ z \in Seq(U)
    BY <1>13
  <1>18. IsConcat(Split(s), Split(p), y)
    BY Zenon, <1>14, <1>15, <1>16, <1>17, ConcatTwice
  <1>19. Split(s) = Split(p) \o y
    BY Zenon, <1>16, <1>17, <1>18, ConcatOnly
  <1>20. Split(q) = y
    BY <1>10, <1>13
  <1>21. Split(s) = Split(p) \o Split(q)
    BY <1>19, <1>20
  <1> QED
    BY <1>21 DEF s

(* push adds the components of its argument after those of any path, and   *)
(* joins none of them to another, whichever of the two has separators at   *)
(* the place where they meet.                                              *)
THEOREM PushesAppend == PathSpec => PushAppends
  <1> DEFINE Appends(s) == Push(s) /\ status' = "ok" =>
                Split(buf') = IF is_absolute(s) THEN Split(s) ELSE Split(buf) \o Split(s)
  <1>1. ASSUME PathInv, NEW s \in Inputs PROVE Appends(s)
    <2> SUFFICES ASSUME Push(s), status' = "ok"
                 PROVE  Split(buf') = IF is_absolute(s) THEN Split(s) ELSE Split(buf) \o Split(s)
      OBVIOUS
    <2>1. s \in Seq(PathByte) /\ buf \in Seq(PathByte)
      BY <1>1, PathAssumption DEF PathByte, PathInv
    <2>2. buf' = pushed(s)
      BY DEF Push
    <2>3. CASE is_absolute(s)
      BY <2>2, <2>3 DEF pushed
    <2>4. CASE ~ is_absolute(s) /\ (buf = <<>> \/ buf[Len(buf)] = SEPARATOR)
      BY <2>1, <2>2, <2>4, JoinSplits DEF pushed
    <2>5. CASE ~ is_absolute(s) /\ buf # <<>> /\ buf[Len(buf)] # SEPARATOR
      <3> DEFINE q == buf \o <<SEPARATOR>>
      <3>1. q \in Seq(PathByte) /\ q[Len(q)] = SEPARATOR
        BY <2>1 DEF PathByte, SEPARATOR
      <3>2. buf' = q \o s
        BY <2>2, <2>5 DEF pushed
      <3>3. Split(q) = Split(buf)
        BY <2>1, <2>5, SeparatorSplitsNothing
      <3> HIDE DEF q
      <3>4. Split(q \o s) = Split(q) \o Split(s)
        BY <2>1, <2>5, <3>1, JoinSplits
      <3> QED
        BY <2>5, <3>2, <3>3, <3>4
    <2> QED
      BY <2>3, <2>4, <2>5
  <1>2. PathInv => [\A s \in Inputs : Appends(s)]_pathVars
    BY <1>1
  <1> QED
    BY <1>2, PathInvInit, PathInvNext, PTL DEF PathSpec, PushAppends
=============================================================================

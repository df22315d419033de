------------------------ MODULE ExtentsBlocksProofs -------------------------
(***************************************************************************)
(* Proofs about ExtentsBlocks for every file: the number of items for any  *)
(* extents, and their values for well-formed ones.                         *)
(***************************************************************************)
EXTENDS ExtentsBlocks, TLAPS

E(i) == file.extents[i]

(* Where the iterator is in a well-formed file: the extents before the     *)
(* current one end at or before the current block, the current one is      *)
(* entered at its first block, and the later ones are still ahead.         *)
PositionInv ==
    WellFormed(file) =>
        /\ \A i \in 1 .. next_extent : i # extent => End(E(i)) <= block_within_file
        /\ extent # None /\ blocks_remaining_in_hole = 0 =>
              block_within_file = E(extent).block_within_file + block_within_extent
        /\ extent # None /\ blocks_remaining_in_hole > 0 =>
              /\ block_within_file + blocks_remaining_in_hole
                    = E(extent).block_within_file
              /\ block_within_extent = 0
        /\ extent = None /\ blocks_remaining_in_hole > 0 => next_extent = NumExtents
        /\ extent = None /\ blocks_remaining_in_hole = 0 =>
              \A j \in next_extent + 1 .. NumExtents :
                  block_within_file <= E(j).block_within_file

(* The current block never leaves the current extent. *)
WithinInv == extent # None => block_within_extent <= E(extent).num_blocks

(* The current extent is the one taken last. *)
LatestInv == extent # None => extent = next_extent

IInv == /\ TypeOK /\ OneItemPerBlock /\ WithinInv /\ LatestInv /\ PositionInv
        /\ YieldsFileBlocks

(* An extent of a file has the fields of its type. *)
LEMMA ExtentType ==
  ASSUME TypeOK, NEW i \in 1 .. NumExtents
  PROVE  /\ E(i).block_within_file \in Nat
         /\ E(i).start_block \in 0 .. MaxBlock
         /\ E(i).num_blocks \in Nat
<1>1. file.extents \in Seq(Extent)
  BY DEF TypeOK, FileType
<1>2. E(i) \in Extent
  BY <1>1 DEF E, NumExtents
<1> QED
  BY <1>2 DEF Extent

(* The arithmetic facts about the state that every step needs. *)
LEMMA Numbers ==
  ASSUME TypeOK
  PROVE  /\ Total \in Nat /\ NumExtents \in Nat /\ next_extent \in Nat
         /\ extent \in Nat /\ block_within_file \in Nat
         /\ block_within_extent \in Nat /\ blocks_remaining_in_hole \in Nat
<1>1. file.num_blocks_total \in Nat /\ file.extents \in Seq(Extent)
  BY DEF TypeOK, FileType
<1>2. Total \in Nat /\ NumExtents \in Nat
  BY <1>1 DEF Total, NumExtents
<1> QED
  BY <1>2 DEF TypeOK

(* The initial state satisfies the inductive invariant. *)
LEMMA InitIInv == Init => IInv
<1> SUFFICES ASSUME Init PROVE IInv
  OBVIOUS
<1>1. file \in FileType
  BY ExtentsAssumption, Zenon DEF Init
<1>2. Total \in Nat /\ NumExtents \in Nat /\ file.extents \in Seq(Extent)
  BY <1>1 DEF FileType, Total, NumExtents
<1>3. is_done \in BOOLEAN /\ error \in BOOLEAN /\ ~ is_done
  BY Zenon DEF Init
<1>4. TypeOK
  BY <1>1, <1>2, <1>3 DEF Init, TypeOK, None
<1>5. OneItemPerBlock /\ WithinInv /\ LatestInv /\ YieldsFileBlocks
  BY <1>3 DEF Init, OneItemPerBlock, WithinInv, LatestInv, YieldsFileBlocks
<1>6. PositionInv
  BY <1>2, <1>4, ExtentType DEF Init, PositionInv, None
<1> QED
  BY <1>4, <1>5, <1>6 DEF IInv

(* Yielding d for the current block keeps the items right if d is its      *)
(* location.                                                               *)
LEMMA YieldKeeps ==
  ASSUME IInv, NEW d \in 0 .. MaxBlock, Yield(d), UNCHANGED file,
         block_within_file < Total, ~ is_done,
         WellFormed(file) => IsBlock(file, block_within_file, d)
  PROVE  /\ OneItemPerBlock' /\ YieldsFileBlocks'
         /\ yielded' \in Seq(0 .. MaxBlock)
         /\ block_within_file' \in 0 .. Total'
<1> USE DEF IInv
<1>1. /\ yielded \in Seq(0 .. MaxBlock) /\ Len(yielded) = block_within_file
      /\ yielded' = Append(yielded, d) /\ block_within_file' = block_within_file + 1
      /\ UNCHANGED is_done
  BY DEF TypeOK, OneItemPerBlock, Yield
<1>2. /\ Len(yielded') = block_within_file'
      /\ yielded' \in Seq(0 .. MaxBlock)
      /\ yielded'[block_within_file + 1] = d
      /\ \A k \in 1 .. Len(yielded) : yielded'[k] = yielded[k]
  BY <1>1, Numbers
<1>3. OneItemPerBlock'
  BY <1>1, <1>2 DEF OneItemPerBlock
<1>4. YieldsFileBlocks'
  <2> SUFFICES ASSUME WellFormed(file), NEW k \in 1 .. Len(yielded')
               PROVE  IsBlock(file, k - 1, yielded'[k])
    BY DEF YieldsFileBlocks
  <2>1. CASE k \in 1 .. Len(yielded)
    BY <1>2, <2>1 DEF YieldsFileBlocks
  <2>2. CASE k = block_within_file + 1
    <3>1. k - 1 = block_within_file
      BY <2>2, Numbers
    <3> QED
      BY <1>2, <2>2, <3>1
  <2>3. /\ block_within_file \in Nat /\ Len(yielded) = block_within_file
        /\ Len(yielded') = block_within_file + 1
    BY <1>1, <1>2, Numbers
  <2>4. k \in 1 .. Len(yielded) \/ k = block_within_file + 1
    BY <2>3
  <2> QED
    BY <2>1, <2>2, <2>4
<1>5. block_within_file' \in 0 .. Total'
  BY <1>1, Numbers DEF Total
<1> QED
  BY <1>2, <1>3, <1>4, <1>5

(* A step that yields nothing keeps what was yielded right. *)
LEMMA NothingKeeps ==
  ASSUME IInv, YieldNothing, UNCHANGED file
  PROVE  /\ OneItemPerBlock' /\ YieldsFileBlocks'
         /\ yielded' \in Seq(0 .. MaxBlock)
         /\ block_within_file' \in 0 .. Total'
         /\ is_done' \in BOOLEAN /\ error' \in BOOLEAN
  BY DEF IInv, TypeOK, YieldNothing, OneItemPerBlock, YieldsFileBlocks, Total

(* A step that yields an error does, too. *)
LEMMA ErrorKeeps ==
  ASSUME IInv, YieldError, UNCHANGED file
  PROVE  /\ OneItemPerBlock' /\ YieldsFileBlocks'
         /\ yielded' \in Seq(0 .. MaxBlock)
         /\ block_within_file' \in 0 .. Total'
         /\ is_done' \in BOOLEAN /\ error' \in BOOLEAN
  BY DEF IInv, TypeOK, YieldError, OneItemPerBlock, YieldsFileBlocks, Total

(* The end of the file *)
LEMMA EndOfFileIInv == IInv /\ EndOfFile => IInv'
<1> SUFFICES ASSUME IInv, EndOfFile PROVE IInv'
  OBVIOUS
<1> USE DEF IInv
<1>1. /\ block_within_file = Total
      /\ UNCHANGED <<file, next_extent, extent, block_within_extent,
                     blocks_remaining_in_hole, block_within_file, error, yielded>>
  BY Numbers DEF EndOfFile, TypeOK
<1>2. is_done' \in BOOLEAN
  BY Zenon DEF EndOfFile
<1>3. TypeOK'
  BY <1>1, <1>2 DEF TypeOK, Total, NumExtents
<1>4. OneItemPerBlock'
  BY <1>1 DEF OneItemPerBlock, Total
<1>5. WithinInv' /\ LatestInv' /\ PositionInv' /\ YieldsFileBlocks'
  BY <1>1 DEF WithinInv, LatestInv, PositionInv, YieldsFileBlocks, E, NumExtents
<1> QED
  BY <1>3, <1>4, <1>5

(* In a hole, no extent covers the current block. *)
LEMMA HoleIsUncovered ==
  ASSUME IInv, WellFormed(file), InFile, blocks_remaining_in_hole > 0
  PROVE  IsBlock(file, block_within_file, Hole)
<1> USE DEF IInv
<1> SUFFICES ASSUME NEW i \in 1 .. NumExtents PROVE ~ Covers(file, i, block_within_file)
  BY DEF IsBlock, NumExtents
<1>1. /\ E(i).block_within_file \in Nat /\ E(i).num_blocks \in Nat
  BY ExtentType
<1>2. CASE i <= next_extent /\ i # extent
  <2>1. End(E(i)) <= block_within_file
    BY <1>2, Numbers DEF PositionInv
  <2> QED
    BY <1>1, <2>1, Numbers DEF Covers, End, E
<1>3. CASE i = extent
  <2>1. block_within_file < E(i).block_within_file
    BY <1>1, <1>3, Numbers DEF PositionInv, None
  <2> QED
    BY <1>1, <2>1, Numbers DEF Covers, E
<1>4. CASE i > next_extent
  <2>1. extent # None /\ extent = next_extent
    BY <1>4, Numbers DEF PositionInv, LatestInv
  <2>2. /\ extent \in 1 .. NumExtents /\ extent < i
    BY <1>4, <2>1, Numbers DEF None, TypeOK
  <2>3. /\ E(extent).block_within_file \in Nat /\ E(extent).num_blocks \in Nat
    BY <2>2, ExtentType
  <2>4. block_within_file < E(extent).block_within_file
    BY <2>1, <2>3, Numbers DEF PositionInv
  <2>5. End(E(extent)) <= E(i).block_within_file
    BY <2>2 DEF WellFormed, E, NumExtents
  <2> QED
    BY <1>1, <2>3, <2>4, <2>5, Numbers DEF Covers, End, E
<1> QED
  BY <1>2, <1>3, <1>4, Numbers

(* A step in a hole *)
LEMMA InHoleIInv == IInv /\ InHole => IInv'
<1> SUFFICES ASSUME IInv, InHole PROVE IInv'
  OBVIOUS
<1> USE DEF IInv
<1>1. /\ InFile /\ blocks_remaining_in_hole > 0 /\ Yield(Hole)
      /\ blocks_remaining_in_hole' = blocks_remaining_in_hole - 1
      /\ block_within_file' = block_within_file + 1
      /\ UNCHANGED <<file, next_extent, extent, block_within_extent, is_done, error>>
  BY DEF InHole, Yield
<1>2. /\ OneItemPerBlock' /\ YieldsFileBlocks' /\ yielded' \in Seq(0 .. MaxBlock)
      /\ block_within_file' \in 0 .. Total'
  <2>1. Hole \in 0 .. MaxBlock
    BY ExtentsAssumption DEF Hole
  <2>2. WellFormed(file) => IsBlock(file, block_within_file, Hole)
    BY <1>1, HoleIsUncovered
  <2> QED
    BY <1>1, <2>1, <2>2, YieldKeeps DEF InFile
<1>3. TypeOK'
  BY <1>1, <1>2, Numbers DEF TypeOK, NumExtents
<1>4. WithinInv' /\ LatestInv'
  BY <1>1 DEF WithinInv, LatestInv, E
<1>5. PositionInv'
  <2> SUFFICES ASSUME WellFormed(file) PROVE PositionInv'
    BY <1>1 DEF PositionInv
  <2>1. ASSUME NEW i \in 1 .. next_extent, i # extent
        PROVE  End(E(i)) <= block_within_file'
    <3>1. End(E(i)) <= block_within_file
      BY <2>1 DEF PositionInv
    <3>2. i \in 1 .. NumExtents
      BY Numbers DEF TypeOK
    <3> QED
      BY <1>1, <3>1, <3>2, Numbers, ExtentType DEF End
  <2>2. CASE extent # None
    <3>1. extent \in 1 .. NumExtents
      BY <2>2, Numbers DEF TypeOK, None
    <3>2. E(extent).block_within_file \in Nat
      BY <3>1, ExtentType
    <3>3. /\ block_within_file + blocks_remaining_in_hole = E(extent).block_within_file
          /\ block_within_extent = 0 /\ extent = next_extent
      BY <1>1, <2>2 DEF PositionInv, LatestInv
    <3>4. blocks_remaining_in_hole' = 0 =>
            block_within_file' = E(extent).block_within_file + block_within_extent
      BY <1>1, <3>2, <3>3, Numbers
    <3>5. block_within_file' + blocks_remaining_in_hole' = E(extent).block_within_file
      BY <1>1, <3>2, <3>3, Numbers
    <3> QED
      BY <1>1, <2>1, <2>2, <3>3, <3>4, <3>5 DEF PositionInv, E
  <2>3. CASE extent = None
    <3>1. next_extent = NumExtents
      BY <1>1, <2>3 DEF PositionInv
    <3>2. next_extent + 1 .. NumExtents = {}
      BY <3>1, Numbers
    <3> QED
      BY <1>1, <2>1, <2>3, <3>1, <3>2 DEF PositionInv, E, NumExtents
  <2> QED
    BY <2>2, <2>3
<1> QED
  BY <1>2, <1>3, <1>4, <1>5

(* Using extent i at its block w: either the extent is finished, or its    *)
(* next block is yielded.  The extent is the one taken last, the file is   *)
(* at that block, and the earlier extents are behind.                      *)
LEMMA UseExtentKeeps ==
  ASSUME IInv, InFile, NEW i \in 1 .. NumExtents, NEW w \in Nat,
         UseExtent(i, w), w <= E(i).num_blocks,
         UNCHANGED <<file, blocks_remaining_in_hole>>,
         blocks_remaining_in_hole = 0, next_extent' = i,
         WellFormed(file) =>
            /\ block_within_file = E(i).block_within_file + w
            /\ \A j \in 1 .. i - 1 : End(E(j)) <= block_within_file
  PROVE  IInv'
<1> USE DEF IInv
<1>0. /\ E(i).block_within_file \in Nat /\ E(i).num_blocks \in Nat
      /\ E(i).start_block \in 0 .. MaxBlock /\ i \in Nat /\ i # 0
  BY ExtentType, Numbers
<1>1. CASE w = E(i).num_blocks
  <2>1. extent' = None /\ block_within_extent' = w /\ YieldNothing
    BY <1>1 DEF UseExtent, E
  <2>2. /\ OneItemPerBlock' /\ YieldsFileBlocks' /\ yielded' \in Seq(0 .. MaxBlock)
        /\ block_within_file' \in 0 .. Total'
        /\ is_done' \in BOOLEAN /\ error' \in BOOLEAN
    BY <2>1, NothingKeeps
  <2>3. TypeOK' /\ WithinInv' /\ LatestInv'
    BY <1>0, <2>1, <2>2, Numbers DEF TypeOK, WithinInv, LatestInv, NumExtents, None
  <2>4. PositionInv'
    <3> SUFFICES ASSUME WellFormed(file) PROVE PositionInv'
      BY DEF PositionInv
    <3>1. block_within_file' = block_within_file /\ block_within_file = End(E(i))
      BY <1>0, <1>1, <2>1 DEF YieldNothing, End
    <3>2. \A j \in 1 .. i : End(E(j)) <= block_within_file
      BY <1>0, <3>1, Numbers
    <3>3. \A j \in i + 1 .. NumExtents : block_within_file <= E(j).block_within_file
      <4> TAKE j \in i + 1 .. NumExtents
      <4>1. j \in 1 .. NumExtents /\ i < j
        BY <1>0, Numbers
      <4> QED
        BY <3>1, <4>1 DEF WellFormed, E, NumExtents
    <3> QED
      BY <2>1, <3>1, <3>2, <3>3 DEF PositionInv, E, NumExtents
  <2> QED
    BY <2>2, <2>3, <2>4
<1>2. CASE w # E(i).num_blocks /\ E(i).start_block + w > MaxBlock
  <2>1. extent' = i /\ block_within_extent' = w /\ YieldError
    BY <1>2 DEF UseExtent, E
  <2>2. /\ OneItemPerBlock' /\ YieldsFileBlocks' /\ yielded' \in Seq(0 .. MaxBlock)
        /\ block_within_file' \in 0 .. Total'
        /\ is_done' \in BOOLEAN /\ error' \in BOOLEAN
    BY <2>1, ErrorKeeps
  <2>3. TypeOK' /\ WithinInv' /\ LatestInv'
    BY <1>0, <2>1, <2>2, Numbers DEF TypeOK, WithinInv, LatestInv, NumExtents, E
  <2>4. ~ WellFormed(file)
    <3>1. WellFormed(file) => E(i).start_block + E(i).num_blocks <= MaxBlock
      BY DEF WellFormed, E, NumExtents
    <3> QED
      BY <1>0, <1>2, <3>1, ExtentsAssumption
  <2> QED
    BY <2>2, <2>3, <2>4 DEF PositionInv
<1>3. CASE w # E(i).num_blocks /\ ~ (E(i).start_block + w > MaxBlock)
  <2>1. /\ extent' = i /\ block_within_extent' = w + 1
        /\ Yield(E(i).start_block + w)
        /\ block_within_file' = block_within_file + 1
        /\ UNCHANGED <<is_done, error>>
    BY <1>3 DEF UseExtent, E, Yield
  <2>2. E(i).start_block + w \in 0 .. MaxBlock
    BY <1>0, <1>3, ExtentsAssumption
  <2>3. WellFormed(file) => IsBlock(file, block_within_file, E(i).start_block + w)
    <3> SUFFICES ASSUME WellFormed(file)
                 PROVE  IsBlock(file, block_within_file, E(i).start_block + w)
      OBVIOUS
    <3>1. Covers(file, i, block_within_file)
      BY <1>0, <1>3 DEF Covers, End, E
    <3>2. block_within_file - E(i).block_within_file = w
      BY <1>0
    <3> QED
      BY <3>1, <3>2 DEF IsBlock, E, NumExtents
  <2>4. /\ OneItemPerBlock' /\ YieldsFileBlocks' /\ yielded' \in Seq(0 .. MaxBlock)
        /\ block_within_file' \in 0 .. Total'
    BY <2>1, <2>2, <2>3, YieldKeeps DEF InFile
  <2>5. TypeOK' /\ WithinInv' /\ LatestInv'
    <3>1. w + 1 \in Nat /\ w + 1 <= E(i).num_blocks
      BY <1>0, <1>3
    <3>2. is_done' \in BOOLEAN /\ error' \in BOOLEAN
      BY <2>1 DEF TypeOK
    <3>3. WithinInv' /\ LatestInv'
      BY <2>1, <3>1 DEF WithinInv, LatestInv, E
    <3>4. next_extent' \in 0 .. NumExtents' /\ extent' \in 0 .. next_extent'
      BY <1>0, <2>1, Numbers DEF NumExtents
    <3> QED
      BY <2>1, <2>4, <3>1, <3>2, <3>3, <3>4 DEF TypeOK
  <2>6. PositionInv'
    <3> SUFFICES ASSUME WellFormed(file) PROVE PositionInv'
      BY DEF PositionInv
    <3>1. block_within_file' = E(i).block_within_file + (w + 1)
      BY <1>0, <2>1
    <3>2. \A j \in 1 .. i : j # i => End(E(j)) <= block_within_file'
      <4> SUFFICES ASSUME NEW j \in 1 .. i, j # i PROVE End(E(j)) <= block_within_file'
        OBVIOUS
      <4>1. j \in 1 .. i - 1 /\ j \in 1 .. NumExtents
        BY <1>0, Numbers
      <4>2. End(E(j)) \in Nat
        BY <4>1, ExtentType DEF End
      <4> QED
        BY <2>1, <4>1, <4>2, Numbers
    <3> QED
      BY <1>0, <2>1, <3>1, <3>2 DEF PositionInv, E, None
  <2> QED
    BY <2>4, <2>5, <2>6
<1> QED
  BY <1>1, <1>2, <1>3

(* Going on in the current extent *)
LEMMA InExtentIInv == IInv /\ InExtent => IInv'
<1> SUFFICES ASSUME IInv, InExtent PROVE IInv'
  OBVIOUS
<1> USE DEF IInv
<1>1. /\ InFile /\ blocks_remaining_in_hole = 0 /\ extent # None
      /\ UseExtent(extent, block_within_extent)
      /\ UNCHANGED <<file, next_extent, blocks_remaining_in_hole>>
  BY DEF InExtent
<1>2. extent \in 1 .. NumExtents /\ block_within_extent \in Nat
  BY <1>1, Numbers DEF TypeOK, None
<1>3. block_within_extent <= E(extent).num_blocks
  BY <1>1 DEF WithinInv
<1>4. CASE extent = next_extent
  <2>1. WellFormed(file) =>
           /\ block_within_file = E(extent).block_within_file + block_within_extent
           /\ \A j \in 1 .. extent - 1 : End(E(j)) <= block_within_file
    BY <1>1, <1>2, <1>4, Numbers DEF PositionInv
  <2> QED
    BY <1>1, <1>2, <1>3, <1>4, <2>1, UseExtentKeeps
<1>5. extent = next_extent
  BY <1>1 DEF LatestInv
<1> QED
  BY <1>4, <1>5

(* Entering a new extent without a hole *)
LEMMA NextExtentIInv == IInv /\ NextExtent => IInv'
<1> SUFFICES ASSUME IInv, NextExtent PROVE IInv'
  OBVIOUS
<1> USE DEF IInv
<1> DEFINE i == next_extent + 1
<1>1. /\ InFile /\ blocks_remaining_in_hole = 0 /\ extent = None
      /\ next_extent < NumExtents /\ next_extent' = i
      /\ E(i).block_within_file <= block_within_file
      /\ UseExtent(i, 0) /\ UNCHANGED <<file, blocks_remaining_in_hole>>
  BY DEF NextExtent, NeedsExtent, E
<1>2. i \in 1 .. NumExtents /\ i - 1 = next_extent /\ i \in next_extent + 1 .. NumExtents
  BY <1>1, Numbers
<1>3. E(i).block_within_file \in Nat /\ E(i).num_blocks \in Nat
  BY <1>2, ExtentType
<1>4. WellFormed(file) =>
         /\ block_within_file = E(i).block_within_file + 0
         /\ \A j \in 1 .. i - 1 : End(E(j)) <= block_within_file
  <2> SUFFICES ASSUME WellFormed(file)
               PROVE  /\ block_within_file = E(i).block_within_file + 0
                      /\ \A j \in 1 .. i - 1 : End(E(j)) <= block_within_file
    OBVIOUS
  <2>1. block_within_file <= E(i).block_within_file
    BY <1>1, <1>2 DEF PositionInv
  <2>2. \A j \in 1 .. next_extent : End(E(j)) <= block_within_file
    BY <1>1, Numbers DEF PositionInv, None
  <2> QED
    BY <1>1, <1>2, <1>3, <2>1, <2>2, Numbers
<1>5. 0 \in Nat /\ 0 <= E(i).num_blocks
  BY <1>3
<1> HIDE DEF i
<1> QED
  BY <1>1, <1>2, <1>4, <1>5, UseExtentKeeps

(* Entering a hole before a new extent *)
LEMMA HoleBeforeExtentIInv == IInv /\ HoleBeforeExtent => IInv'
<1> SUFFICES ASSUME IInv, HoleBeforeExtent PROVE IInv'
  OBVIOUS
<1> USE DEF IInv
<1> DEFINE i == next_extent + 1
<1>1. /\ extent = None /\ next_extent < NumExtents /\ next_extent' = i
      /\ E(i).block_within_file > block_within_file
      /\ blocks_remaining_in_hole' = E(i).block_within_file - block_within_file
      /\ extent' = i /\ block_within_extent' = 0 /\ YieldNothing
      /\ block_within_file' = block_within_file /\ file' = file
  BY DEF HoleBeforeExtent, NeedsExtent, E, YieldNothing
<1>2. i \in 1 .. NumExtents /\ i - 1 = next_extent /\ i \in Nat /\ i # 0
  BY <1>1, Numbers
<1>3. E(i).block_within_file \in Nat /\ E(i).num_blocks \in Nat
  BY <1>2, ExtentType
<1>4. \A j \in 1 .. i : j # i => (WellFormed(file) => End(E(j)) <= block_within_file)
  BY <1>1, <1>2, Numbers DEF PositionInv, None
<1> HIDE DEF i
<1>5. /\ blocks_remaining_in_hole' \in Nat /\ blocks_remaining_in_hole' > 0
      /\ block_within_file + blocks_remaining_in_hole' = E(i).block_within_file
  BY <1>1, <1>3, Numbers
<1>6. /\ OneItemPerBlock' /\ YieldsFileBlocks' /\ yielded' \in Seq(0 .. MaxBlock)
      /\ block_within_file' \in 0 .. Total'
      /\ is_done' \in BOOLEAN /\ error' \in BOOLEAN
  BY <1>1, NothingKeeps
<1>7. TypeOK'
  <2>1. next_extent' \in 0 .. NumExtents' /\ extent' \in 0 .. next_extent'
    <3>1. NumExtents' = NumExtents
      BY <1>1 DEF NumExtents
    <3>2. next_extent' = i /\ extent' = i /\ i \in 0 .. NumExtents /\ i \in 0 .. i
      BY <1>1, <1>2, Numbers
    <3> QED
      BY <3>1, <3>2
  <2>2. block_within_extent' \in Nat
    BY <1>1
  <2>3. file' \in FileType
    BY <1>1 DEF TypeOK
  <2> QED
    BY <1>5, <1>6, <2>1, <2>2, <2>3 DEF TypeOK
<1>8. WithinInv' /\ LatestInv'
  <2>1. extent' = i /\ next_extent' = i /\ block_within_extent' = 0
    BY <1>1
  <2>2. E(extent)' = E(i)
    BY <1>1, <2>1 DEF E
  <2>3. 0 <= E(i).num_blocks
    BY <1>3
  <2> QED
    BY <2>1, <2>2, <2>3 DEF WithinInv, LatestInv
<1>9. PositionInv'
  BY <1>1, <1>2, <1>4, <1>5 DEF PositionInv, E, None
<1> QED
  BY <1>6, <1>7, <1>8, <1>9

(* The error of the extents' iterator, and the hole at the end *)
LEMMA LastExtentIInv == IInv /\ (ExtentError \/ FinalHole) => IInv'
<1> SUFFICES ASSUME IInv, ExtentError \/ FinalHole PROVE IInv'
  OBVIOUS
<1> USE DEF IInv
<1>1. /\ NeedsExtent /\ next_extent = NumExtents /\ extent = None
      /\ UNCHANGED <<file, next_extent, extent, block_within_extent, block_within_file>>
  BY DEF ExtentError, FinalHole, NeedsExtent, YieldError, YieldNothing
<1>2. /\ OneItemPerBlock' /\ YieldsFileBlocks' /\ yielded' \in Seq(0 .. MaxBlock)
      /\ block_within_file' \in 0 .. Total'
      /\ is_done' \in BOOLEAN /\ error' \in BOOLEAN
  BY NothingKeeps, ErrorKeeps DEF ExtentError, FinalHole
<1>3. blocks_remaining_in_hole' \in Nat
  BY <1>1, Numbers DEF ExtentError, FinalHole, NeedsExtent, InFile
<1>4. TypeOK' /\ WithinInv' /\ LatestInv'
  BY <1>1, <1>2, <1>3 DEF TypeOK, WithinInv, LatestInv, NumExtents
<1>5. PositionInv'
  <2>1. next_extent + 1 .. NumExtents = {}
    BY <1>1, Numbers
  <2> QED
    BY <1>1, <2>1 DEF PositionInv, E, NumExtents
<1> QED
  BY <1>2, <1>4, <1>5

-----------------------------------------------------------------------------
(* Every reachable state satisfies the inductive invariant. *)
THEOREM ExtentsInvariant == Spec => []IInv
<1>1. IInv /\ [Next]_vars => IInv'
  <2> SUFFICES ASSUME IInv, [Next]_vars PROVE IInv'
    OBVIOUS
  <2>1. CASE UNCHANGED vars
    BY <2>1 DEF vars, IInv, TypeOK, OneItemPerBlock, WithinInv, LatestInv, PositionInv,
                YieldsFileBlocks, Total, NumExtents, E
  <2>2. CASE Step
    BY <2>2, EndOfFileIInv, InHoleIInv, InExtentIInv, NextExtentIInv,
       HoleBeforeExtentIInv, LastExtentIInv DEF Step
  <2> QED
    BY <2>1, <2>2 DEF Next, Done
<1> QED
  BY <1>1, InitIInv, PTL DEF Spec

(* The iterator's types hold for every file: no block index overflows. *)
THEOREM ExtentsTypeOK == Spec => []TypeOK
<1>1. IInv => TypeOK
  BY DEF IInv
<1> QED
  BY <1>1, ExtentsInvariant, PTL

(* For any extents, valid or not, there is one item per block of the file, *)
(* or an error.                                                            *)
THEOREM ExtentsOneItemPerBlock == Spec => []OneItemPerBlock
<1>1. IInv => OneItemPerBlock
  BY DEF IInv
<1> QED
  BY <1>1, ExtentsInvariant, PTL

(* For every well-formed sequence of extents, each item is the location of *)
(* its block of the file.                                                  *)
THEOREM ExtentsYieldFileBlocks == Spec => []YieldsFileBlocks
<1>1. IInv => YieldsFileBlocks
  BY DEF IInv
<1> QED
  BY <1>1, ExtentsInvariant, PTL
=============================================================================

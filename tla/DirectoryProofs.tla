-------------------------- MODULE DirectoryProofs ---------------------------
(***************************************************************************)
(* Proofs about reading a directory (Directory): the iterator lists the    *)
(* entries, all of them and in order; an answer comes from a block whose   *)
(* checksum is right; and a lookup, by the iterator or in the hash tree,   *)
(* agrees with that list, for every directory.                             *)
(***************************************************************************)
EXTENDS Directory, WellFoundedInduction, TLAPS

(* A non-empty set of natural numbers has a least element. *)
LEMMA LeastNat ==
  ASSUME NEW T \in SUBSET Nat, T # {}
  PROVE  \E m \in T : \A k \in T : m <= k
<1> DEFINE R == OpToRel(<, Nat)
<1>1. IsWellFoundedOn(R, Nat)
  BY NatLessThanWellFounded, Zenon
<1>2. \A x, y \in Nat : <<x, y>> \in R <=> x < y
  BY DEF OpToRel
<1> HIDE DEF R
<1>3. PICK x \in T : \A y \in T : ~ (<<y, x>> \in R)
  BY Zenon, <1>1, WFMin
<1>4. ASSUME NEW y \in T PROVE x <= y
  <2>1. ~ (y < x)
    BY Zenon, <1>2, <1>3
  <2> QED
    BY <2>1
<1> QED
  BY <1>4

(* Induction, as a fact about sets. *)
LEMMA NatInduction1 ==
  ASSUME NEW S \in SUBSET Nat, 0 \in S, \A n \in S : n + 1 \in S
  PROVE  S = Nat
<1> SUFFICES ASSUME Nat \ S # {} PROVE FALSE
  BY Zenon
<1>1. PICK m \in Nat \ S : \A k \in Nat \ S : m <= k
  BY Zenon, LeastNat
<1>2. m # 0 /\ m - 1 \in Nat
  BY <1>1
<1>3. m - 1 \in S
  BY <1>1, <1>2
<1> QED
  BY <1>1, <1>2, <1>3

(* The blocks on a way are what their recursive definition says. *)
LEMMA BlocksOnDef ==
  ASSUME NEW d, d.depth \in Nat, NEW w
  PROVE  /\ BlocksOn(d, w)[0] = 1
         /\ \A l \in Levels(d) : BlocksOn(d, w)[l + 1] = Child(d, BlocksOn(d, w)[l], l, w[l])
<1> DEFINE F(g, n) == [l \in 0 .. n |-> IF l = 0 THEN 1 ELSE Child(d, g[l - 1], l - 1, w[l - 1])]
           S == {n \in Nat : \E g : g = F(g, n)}
<1>1. 0 \in S
  <2>1. [l \in 0 .. 0 |-> 1] = F([l \in 0 .. 0 |-> 1], 0)
    OBVIOUS
  <2> QED
    BY Zenon, <2>1
<1>2. ASSUME NEW n \in S PROVE n + 1 \in S
  <2>1. PICK g : g = F(g, n)
    BY <1>2
  <2> DEFINE h == [l \in 0 .. n + 1 |-> IF l <= n THEN g[l] ELSE Child(d, g[n], n, w[n])]
  <2>2. n \in Nat
    OBVIOUS
  <2>3. \A l \in 0 .. n + 1 :
           h[l] = IF l = 0 THEN 1 ELSE Child(d, h[l - 1], l - 1, w[l - 1])
    <3> TAKE l \in 0 .. n + 1
    <3>1. CASE l = 0
      BY <2>1, <2>2, <3>1
    <3>2. CASE l \in 1 .. n
      <4>1. h[l] = g[l] /\ h[l - 1] = g[l - 1] /\ l # 0
        BY <2>2, <3>2
      <4>2. g[l] = Child(d, g[l - 1], l - 1, w[l - 1])
        BY <2>1, <2>2, <3>2
      <4> QED
        BY <4>1, <4>2
    <3>3. CASE l = n + 1
      <4>1. h[l] = Child(d, g[n], n, w[n]) /\ h[l - 1] = g[n] /\ l # 0 /\ l - 1 = n
        BY <2>2, <3>3
      <4> QED
        BY <4>1
    <3> QED
      BY <2>2, <3>1, <3>2, <3>3
  <2>4. h = F(h, n + 1)
    <3> HIDE DEF h
    <3>1. h = [l \in 0 .. n + 1 |-> h[l]]
      BY DEF h
    <3> QED
      BY Zenon, <2>3, <3>1
  <2> HIDE DEF h
  <2> QED
    BY <2>2, <2>4
<1>3. S = Nat
  <2> HIDE DEF S
  <2>1. S \in SUBSET Nat
    BY DEF S
  <2> QED
    BY <1>1, <1>2, <2>1, NatInduction1
<1>4. d.depth + 1 \in S
  <2> HIDE DEF S
  <2> QED
    BY <1>3
<1>5. PICK g : g = F(g, d.depth + 1)
  BY <1>4
<1>6. BlocksOn(d, w) = F(BlocksOn(d, w), d.depth + 1)
  BY Zenon, <1>5 DEF BlocksOn
<1> HIDE DEF S
<1>7. BlocksOn(d, w)[0] = 1
  BY <1>6
<1>8. ASSUME NEW l \in Levels(d)
      PROVE  BlocksOn(d, w)[l + 1] = Child(d, BlocksOn(d, w)[l], l, w[l])
  <2>1. l + 1 \in 0 .. d.depth + 1 /\ l + 1 # 0 /\ (l + 1) - 1 = l
    BY DEF Levels
  <2> QED
    BY <1>6, <2>1
<1> QED
  BY <1>7, <1>8

-----------------------------------------------------------------------------
(* Where a lookup in the tree is: it starts at the root, which is the      *)
(* first block, and looks only for names other than "." and "..".          *)
InTree == pc \in {"node", "search", "leaf"}

PlaceInv ==
    /\ pc \in {"open", "read_dir", "root", "dots", "node", "search", "leaf", "done"}
    /\ pc \in {"open", "root"} => block = 0
    /\ pc \in {"open", "root", "dots"} => level = 0
    /\ pc = "dots" => block = 1
    /\ InTree => block > 0 /\ name \notin {".", ".."}
    /\ pc \in {"root", "dots"} \/ InTree => op = "lookup" /\ dir.has_htree
    /\ pc \in {"node", "search"} => level <= dir.depth
    /\ pc \in {"node", "search"} /\ level = 0 => block = 1
    /\ pc = "search" => Node.count \in 1 .. Limit
    /\ pc \in {"open", "root"} => record = 0
    /\ pc = "open" => answers = <<>>
    /\ pc = "leaf" => level = dir.depth + 1
    /\ pc = "read_dir" => op = "list" \/ ~ dir.has_htree
    /\ op = "lookup" /\ pc # "done" => answers = <<>>
    /\ pc # "done" => outcome = "none"
    /\ op = "list" => outcome \notin {"found", "NotFound"}
    /\ op = "lookup" => outcome # "ok"

(* The block in use was read with the checks of DirBlock::read. *)
Checked(b) == \E first \in {b = 1, FALSE} :
                 BlockType(b, first) \in dir.blocks[b].checksum
CheckedInv ==
    dir.checksums => /\ pc # "done" /\ block > 0 => Checked(block)
                     /\ AnswersAreChecked

(* The entries before the point that the iterator has reached *)
Passed(e) == e.block < block \/ (e.block = block /\ e.record <= record)

ListInv ==
    /\ ListsEntries
    /\ op = "list" => \A k \in 1 .. Len(answers) : Passed(answers[k])
    /\ op = "list" /\ pc = "read_dir" =>
          \A e \in AllEntries(dir) : Passed(e) => \E k \in 1 .. Len(answers) : answers[k] = e
    /\ op = "lookup" /\ pc = "read_dir" =>
          \A e \in AllEntries(dir) : Passed(e) => e.name # name

(* A lookup in a well-formed tree is on every way that leads to an entry   *)
(* of the name; in the leaf, none of the records it has read is one.       *)
LeadsToName(w) ==
    LeadsToLeaf(dir, w) /\ \E e \in EntriesOf(dir, LeafOn(dir, w)) : e.name = name

WayInv ==
    WellFormed(dir) =>
        /\ InTree => \A w \in Ways(dir) : LeadsToName(w) => block = BlocksOn(dir, w)[level]
        /\ pc = "leaf" => \A e \in EntriesOf(dir, block) : e.record <= record => e.name # name

IInv == TypeOK /\ PlaceInv /\ CheckedInv /\ ListInv /\ SearchInv
        /\ WayInv /\ LookupAgreesWithList

-----------------------------------------------------------------------------
(* What DirectoryAssumption says of the directory in use. *)
LEMMA DirFacts ==
  ASSUME TypeOK
  PROVE  /\ NumBlocks \in Nat /\ dir.depth \in Nat /\ dir.at12 \in Record
         /\ dir.has_htree \in BOOLEAN
         /\ \A b \in 1 .. NumBlocks :
               /\ dir.blocks[b].records \in Seq(Record)
               /\ Len(dir.blocks[b].records) > 0
         /\ Hash(name) \in Nat
  BY Zenon, DirectoryAssumption DEF TypeOK, IsBlock, NumBlocks

LEMMA NodeFacts ==
  ASSUME NEW d \in Dirs, NEW lvl \in Nat, NEW b, lvl = 0 \/ b \in 1 .. Len(d.blocks)
  PROVE  /\ NodeOf(d, b, lvl).count \in Nat /\ LimitOf(lvl) \in Nat
         /\ NodeOf(d, b, lvl).entries \in Seq(NodeEntry)
         /\ NodeOf(d, b, lvl).count <= LimitOf(lvl) =>
               \A i \in 1 .. NodeOf(d, b, lvl).count :
                  NodeOf(d, b, lvl).entries[i] \in NodeEntry
<1>1. IsNode(NodeOf(d, b, lvl), LimitOf(lvl)) /\ LimitOf(lvl) \in Nat
  BY ZenonT(40), DirectoryAssumption DEF IsBlock, NodeOf, LimitOf
<1>2. ASSUME NEW n, NEW limit \in Nat, IsNode(n, limit)
      PROVE  /\ n.count \in Nat
             /\ n.entries \in Seq(NodeEntry)
             /\ n.count <= limit =>
                   \A i \in 1 .. n.count : n.entries[i] \in NodeEntry
  <2>1. /\ n.count \in Nat
        /\ n.entries \in Seq(NodeEntry)
        /\ n.count <= limit => n.count <= Len(n.entries)
    BY <1>2 DEF IsNode
  <2>2. ASSUME n.count <= limit, NEW i \in 1 .. n.count
        PROVE  n.entries[i] \in NodeEntry
    <3>1. i \in 1 .. Len(n.entries)
      BY <2>1, <2>2
    <3> QED
      BY <2>1, <3>1
  <2> QED
    BY <2>1, <2>2
<1> QED
  BY <1>1, <1>2

(* In the tree, the block in use is one of the directory. *)
LEMMA BlockInTree ==
  ASSUME TypeOK, PlaceInv, InTree
  PROVE  block \in 1 .. NumBlocks /\ block \in 1 .. Len(dir.blocks)
<1>1. block \in 0 .. NumBlocks /\ NumBlocks = Len(dir.blocks)
  BY Zenon DEF TypeOK, NumBlocks
<1>2. block > 0
  BY Zenon DEF PlaceInv
<1>3. NumBlocks \in Nat
  BY Zenon, DirFacts
<1> QED
  BY <1>1, <1>2, <1>3

LEMMA NodeInUse == Node = NodeOf(dir, block, level) /\ Limit = LimitOf(level)
  BY DEF Node, Limit, NodeOf, LimitOf, Current

LEMMA NodeInUseFacts ==
  ASSUME TypeOK, PlaceInv, pc \in {"node", "search"}
  PROVE  /\ Node.count \in Nat /\ Limit \in Nat
         /\ pc = "search" => /\ Node.count \in 1 .. Limit
                             /\ \A i \in 1 .. Node.count : Node.entries[i] \in NodeEntry
<1>1. dir \in Dirs /\ level \in Nat /\ (level = 0 \/ block \in 1 .. Len(dir.blocks))
  BY DirFacts DEF TypeOK, PlaceInv, InTree, NumBlocks
<1>2. /\ Node.count \in Nat /\ Limit \in Nat
      /\ Node.count <= Limit =>
            \A i \in 1 .. Node.count : Node.entries[i] \in NodeEntry
  BY <1>1, NodeInUse, NodeFacts
<1>3. pc = "search" => Node.count \in 1 .. Limit
  BY DEF PlaceInv
<1> QED
  BY <1>2, <1>3

(* The record that is read next, where there is one *)
LEMMA RecordFacts ==
  ASSUME TypeOK, HasRecord
  PROVE  /\ rec \in Record
         /\ rec.inode # 0 => Entry(rec, block, record + 1) \in EntriesOf(dir, block)
         /\ Entry(rec, block, record + 1) \in
               Answers(dir)
<1>1. block \in 1 .. NumBlocks /\ record + 1 \in 1 .. Len(dir.blocks[block].records)
  BY DirFacts DEF TypeOK, HasRecord, Current, NumBlocks
<1>2. rec = dir.blocks[block].records[record + 1]
  BY DEF rec, Current
<1>3. rec \in Record
  BY <1>1, <1>2, DirFacts
<1>4. rec.inode # 0 => Entry(rec, block, record + 1) \in EntriesOf(dir, block)
  BY <1>1, <1>2 DEF EntriesOf
<1>5. Entry(rec, block, record + 1) \in
        Answers(dir)
  BY <1>1, <1>3 DEF Entry, Record, Answers, NumBlocks
<1> QED
  BY <1>3, <1>4, <1>5

(* An entry of a block is one of its records, and has an inode. *)
LEMMA EntryFacts ==
  ASSUME NEW d, NEW b, NEW e \in EntriesOf(d, b)
  PROVE  /\ e.block = b /\ e.record \in 1 .. Len(d.blocks[b].records)
         /\ d.blocks[b].records[e.record].inode # 0
         /\ e = Entry(d.blocks[b].records[e.record], b, e.record)
         /\ e.name = d.blocks[b].records[e.record].name
  BY DEF EntriesOf, Entry

-----------------------------------------------------------------------------
(* Types, and where the lookup is *)
LEMMA TypeStep == TypeOK /\ PlaceInv /\ Next => TypeOK' /\ PlaceInv'
<1> SUFFICES ASSUME TypeOK, PlaceInv, Next PROVE TypeOK' /\ PlaceInv'
  OBVIOUS
<1> USE DirFacts
<1>1. CASE Open
  BY <1>1 DEF Open, call, search, Return, Continue, TypeOK, PlaceInv, InTree, NumBlocks
<1>2. CASE NextBlock
  BY <1>2 DEF NextBlock, call, search, Return, Continue, TypeOK, PlaceInv, InTree, NumBlocks,
              ReadResult
<1>3. CASE EndOfDir
  BY <1>3 DEF EndOfDir, call, search, Return, Continue, TypeOK, PlaceInv, InTree, NumBlocks
<1>4. ASSUME HasRecord, UNCHANGED call PROVE Answer \in Seq(Answers(dir)')
  <2>1. dir' = dir /\ answers \in Seq(Answers(dir))
    BY <1>4 DEF call, TypeOK
  <2> QED
    BY <1>4, <2>1, RecordFacts DEF Answer
<1>5. CASE NextRecord
  <2>1. answers' \in Seq(Answers(dir)')
    BY <1>4, <1>5 DEF NextRecord, call, TypeOK
  <2> QED
    BY <1>5, <2>1 DEF NextRecord, call, search, Return, Continue, TypeOK, PlaceInv, InTree,
                      NumBlocks
<1>6. CASE ReadRoot
  <2>1. \/ UNCHANGED block /\ Return("error")
        \/ /\ NumBlocks > 0 /\ block' = 1
           /\ Continue("dots") \/ Return("error") \/ Return("panic")
    <3>1. ReadResult(1, TRUE) \in {"ok", "error", "panic"}
      BY DEF ReadResult
    <3>2. NumBlocks # 0 => NumBlocks > 0
      OBVIOUS
    <3> QED
      BY <1>6, <3>1, <3>2, Zenon DEF ReadRoot
  <2>2. pc = "root" /\ UNCHANGED <<call, record, search, answers>>
    BY <1>6 DEF ReadRoot
  <2> QED
    BY <2>1, <2>2 DEF call, search, Return, Continue, TypeOK, PlaceInv, InTree, NumBlocks
<1>7. CASE Dots
  <2>1. Current.records[1] \in Record /\ dir.at12 \in Record
    BY <1>7 DEF Dots, PlaceInv, TypeOK, Current
  <2>2. ASSUME NEW r \in Record, NEW i \in {1, 2} PROVE Entry(r, block, i) \in Answers(dir)
    BY <1>7 DEF Dots, Answers, Entry, Record, PlaceInv, TypeOK, NumBlocks
  <2>3. answers' \in Seq(Answers(dir)')
    <3>1. dir' = dir /\ answers \in Seq(Answers(dir))
      BY <1>7 DEF Dots, call, TypeOK
    <3>2. \/ answers' = answers
          \/ \E r \in Record, i \in {1, 2} : answers' = <<Entry(r, block, i)>>
      BY <1>7, <2>1, Zenon DEF Dots
    <3>3. ASSUME NEW e \in Answers(dir) PROVE <<e>> \in Seq(Answers(dir))
      OBVIOUS
    <3> QED
      BY Zenon, <2>2, <3>1, <3>2, <3>3
  <2> QED
    BY <1>7, <2>3 DEF Dots, call, search, Return, Continue, TypeOK, PlaceInv, InTree,
                      NumBlocks
<1>8. CASE OpenNode
  <2>1. Node.count \in Nat /\ Limit \in Nat
    BY <1>8, NodeInUseFacts DEF OpenNode
  <2>2. Node' = Node /\ Limit' = Limit
    BY <1>8 DEF OpenNode, Node, Limit, Current, call, search
  <2> QED
    BY <1>8, <2>1, <2>2 DEF OpenNode, call, search, Return, Continue, TypeOK, PlaceInv, InTree,
                      NumBlocks
<1>9. CASE Bisect
  <2>1. Node.count \in Nat /\ Limit \in Nat
    BY <1>9, NodeInUseFacts DEF Bisect
  <2>2. Node' = Node /\ Limit' = Limit
    BY <1>9 DEF Bisect, Node, Limit, Current, call, search
  <2>3. mid \in left .. right
    <3>1. left \in Nat /\ right \in Nat /\ left <= right
      BY <1>9, <2>1 DEF Bisect, TypeOK
    <3> QED
      BY <3>1 DEF mid
  <2>4. PlaceInv'
    BY <1>9, <2>1, <2>2, <2>3 DEF Bisect, call, search, Return, Continue, TypeOK, PlaceInv,
                      InTree
  <2>5. \/ left' = mid + 1 /\ UNCHANGED <<right, pc, outcome>>
        \/ mid # 0 /\ right' = mid - 1 /\ UNCHANGED <<left, pc, outcome>>
        \/ Return("error") /\ UNCHANGED <<left, right>>
    BY <1>9 DEF Bisect
  <2>6. pc = "search" /\ UNCHANGED <<call, block, record, level, answers>>
    BY <1>9 DEF Bisect
  <2>7. TypeOK'
    BY <2>1, <2>2, <2>3, <2>5, <2>6 DEF call, Return, TypeOK, NumBlocks
  <2> QED
    BY <2>4, <2>7
<1>10. CASE Descend
  <2>1. /\ Node.count \in Nat
        /\ \A i \in 1 .. Node.count : Node.entries[i].block \in Nat
    BY <1>10, NodeInUseFacts DEF Descend, NodeEntry
  <2>2. CASE left = 0
    BY <1>10, <2>2 DEF Descend, call, search, Return, Continue, TypeOK, PlaceInv, InTree,
                       NumBlocks
  <2>3. CASE left # 0
    <3>1. left \in 1 .. Node.count
      BY <1>10, <2>1, <2>3 DEF Descend, TypeOK
    <3> DEFINE child == Node.entries[found_index + 1].block + 1
    <3>2. child \in Nat \ {0}
      BY <2>1, <3>1 DEF found_index
    <3>3. \/ Return("error") /\ UNCHANGED <<block, level>>
          \/ /\ child <= NumBlocks /\ block' = child /\ level' = level + 1
             /\ \/ Return("error") \/ Return("panic")
                \/ Continue(IF level = dir.depth THEN "leaf" ELSE "node")
      <4>1. CASE child > NumBlocks
        BY Zenon, <1>10, <2>3, <4>1 DEF Descend
      <4>2. CASE ~ (child > NumBlocks)
        <5>1. /\ block' = child /\ level' = level + 1
              /\ IF ReadResult(child, FALSE) # "ok" THEN Return(ReadResult(child, FALSE))
                 ELSE Continue(IF level = dir.depth THEN "leaf" ELSE "node")
          BY Zenon, <1>10, <2>3, <4>2 DEF Descend
        <5>2. ReadResult(child, FALSE) \in {"ok", "error", "panic"}
          BY DEF ReadResult
        <5>3. child <= NumBlocks
          BY <3>2, <4>2
        <5> QED
          BY Zenon, <5>1, <5>2, <5>3
      <4> QED
        BY <4>1, <4>2
    <3> HIDE DEF child
    <3>4. pc = "search" /\ record' = 0 /\ UNCHANGED <<call, left, right, answers>>
      BY <1>10 DEF Descend
    <3>5. TypeOK'
      <4>1. level \in 0 .. dir.depth
        BY <3>4 DEF TypeOK, PlaceInv
      <4>2. level' \in 0 .. dir.depth + 1 /\ block' \in 0 .. NumBlocks /\ pc' # "search"
        BY <3>2, <3>3, <4>1 DEF Return, Continue, TypeOK
      <4> QED
        BY <3>4, <4>2 DEF call, TypeOK, NumBlocks
    <3>6. PlaceInv'
      <4>1. /\ pc' \in {"done", "leaf", "node"} /\ record' = 0
            /\ pc' = "done" => outcome' \in {"error", "panic"}
            /\ pc' # "done" => outcome' = "none" /\ block' = child /\ level' = level + 1
            /\ pc' = "leaf" => level = dir.depth
            /\ pc' = "node" => level # dir.depth
        BY <3>3, <3>4 DEF Return, Continue, PlaceInv
      <4>2. /\ op = "lookup" /\ dir.has_htree /\ name \notin {".", ".."} /\ answers = <<>>
            /\ UNCHANGED <<dir, name, op, answers>>
        BY Zenon, <3>4 DEF PlaceInv, InTree, call
      <4>3. /\ level \in 0 .. dir.depth /\ dir.depth \in Nat
        BY <3>4, DirFacts DEF TypeOK, PlaceInv
      <4> QED
        BY <3>2, <4>1, <4>2, <4>3 DEF PlaceInv, InTree
    <3> QED
      BY <3>5, <3>6
  <2> QED
    BY <2>2, <2>3
<1>11. CASE ScanRecord
  <2>1. answers' \in Seq(Answers(dir)')
    BY <1>4, <1>11 DEF ScanRecord, call, TypeOK
  <2> QED
    BY <1>11, <2>1 DEF ScanRecord, call, search, Return, Continue, TypeOK, PlaceInv, InTree,
                      NumBlocks
<1>12. CASE ScanEnd
  BY <1>12 DEF ScanEnd, call, search, Return, Continue, TypeOK, PlaceInv, InTree, NumBlocks
<1>13. CASE Returned
  BY <1>13 DEF Returned, vars, call, TypeOK, PlaceInv, InTree, NumBlocks, Node, Current, Limit
<1> QED
  BY <1>1, <1>2, <1>3, <1>5, <1>6, <1>7, <1>8, <1>9, <1>10, <1>11, <1>12, <1>13
     DEF Next, Step

-----------------------------------------------------------------------------
(* No step changes what the caller asked for. *)
LEMMA CallStays == Next => UNCHANGED <<dir, name, op>>
  BY Zenon DEF Next, Step, Open, NextBlock, EndOfDir, NextRecord, ReadRoot, Dots, OpenNode, Bisect,
         Descend, ScanRecord, ScanEnd, Returned, vars, call

(* A block that is read is checked. *)
LEMMA ReadChecks ==
  ASSUME dir.checksums, NEW b, NEW first \in {b = 1, FALSE}, ReadResult(b, first) = "ok"
  PROVE  Checked(b)
<1>1. BlockType(b, first) \in dir.blocks[b].checksum
  BY DEF ReadResult
<1> QED
  BY Zenon, <1>1 DEF Checked

LEMMA CheckedStep == TypeOK /\ PlaceInv /\ CheckedInv /\ Next => CheckedInv'
<1> SUFFICES ASSUME TypeOK, PlaceInv, CheckedInv, Next, dir.checksums, dir' = dir
             PROVE  CheckedInv'
  BY CallStays DEF CheckedInv
<1>2. \A k \in 1 .. Len(answers) : Checked(answers[k].block)
  BY Zenon DEF CheckedInv, AnswersAreChecked, Checked
<1>3. pc # "done" /\ block > 0 => Checked(block)
  BY DEF CheckedInv
<1>4. answers \in Seq(Answers(dir))
  BY DEF TypeOK
<1>5. SUFFICES /\ pc' # "done" /\ block' > 0 => Checked(block')
               /\ \A k \in 1 .. Len(answers') : Checked(answers'[k].block)
  BY <1>5 DEF CheckedInv, AnswersAreChecked, Checked, BlockType
<1>6. CASE UNCHANGED <<block, answers>>
  <2>1. pc' # "done" => pc # "done"
    BY Zenon, <1>6 DEF Next, Step, Open, NextBlock, EndOfDir, NextRecord, ReadRoot, Dots, OpenNode,
                Bisect, Descend, ScanRecord, ScanEnd, Returned, vars, call
  <2> QED
    BY <1>2, <1>3, <1>6, <2>1
<1>7. CASE NextBlock
  <2>1. pc' # "done" => ReadResult(block', block' = 1) = "ok"
    BY <1>7 DEF NextBlock, Return
  <2> QED
    BY Zenon, <1>2, <1>7, <2>1, ReadChecks DEF NextBlock
<1>8. CASE ReadRoot
  <2>1. pc' # "done" => block' = 1 /\ ReadResult(1, TRUE) = "ok"
    BY Zenon, <1>8 DEF ReadRoot, Return
  <2>2. pc' # "done" => Checked(1)
    BY Zenon, <2>1, ReadChecks
  <2> QED
    BY Zenon, <1>2, <1>8, <2>1, <2>2 DEF ReadRoot
<1>9. CASE Descend
  <2>1. pc' # "done" => ReadResult(block', FALSE) = "ok"
    BY Zenon, <1>9 DEF Descend, Return
  <2> QED
    BY Zenon, <1>2, <1>9, <2>1, ReadChecks DEF Descend
<1>10. ASSUME HasRecord, pc # "done"
       PROVE  \A k \in 1 .. Len(Answer) : Checked(Answer[k].block)
  <2>1. block > 0
    BY <1>10 DEF HasRecord
  <2>2. Answer = Append(answers, Entry(rec, block, record + 1))
    BY DEF Answer
  <2>3. Entry(rec, block, record + 1).block = block
    BY DEF Entry
  <2> HIDE DEF Answer
  <2> QED
    BY <1>2, <1>3, <1>4, <1>10, <2>1, <2>2, <2>3
<1>11. CASE NextRecord
  BY <1>2, <1>3, <1>10, <1>11 DEF NextRecord, Return
<1>12. CASE ScanRecord
  BY <1>2, <1>3, <1>10, <1>12 DEF ScanRecord, Return
<1>13. CASE Dots
  <2>1. \/ answers' = answers
        \/ \E r, i : answers' = <<Entry(r, block, i)>>
    BY <1>13, Zenon DEF Dots
  <2>2. Checked(block) /\ block' = block
    BY <1>3, <1>13 DEF Dots, PlaceInv
  <2> QED
    BY <1>2, <2>1, <2>2 DEF Entry
<1> QED
  BY <1>6, <1>7, <1>8, <1>9, <1>11, <1>12, <1>13
     DEF Next, Step, Open, EndOfDir, OpenNode, Bisect, ScanEnd, Returned, vars

-----------------------------------------------------------------------------
(* The iterator *)
LEMMA AllEntryFacts ==
  ASSUME NEW d, NEW e \in AllEntries(d)
  PROVE  /\ e.block \in 1 .. Len(d.blocks) /\ e \in EntriesOf(d, e.block)
         /\ e.record \in 1 .. Len(d.blocks[e.block].records)
         /\ d.blocks[e.block].records[e.record].inode # 0
         /\ e = Entry(d.blocks[e.block].records[e.record], e.block, e.record)
<1>1. PICK b \in 1 .. Len(d.blocks) : e \in EntriesOf(d, b)
  BY DEF AllEntries
<1> QED
  BY <1>1, EntryFacts

(* The first block of a well-formed tree has "." and ".." only. *)
LEMMA RootRecords ==
  ASSUME NEW d, WellFormed(d)
  PROVE  /\ Len(d.blocks[1].records) = 2 /\ d.at12 = d.blocks[1].records[2]
         /\ \A e \in AllEntries(d) : e.block = 1 => e.name \in {".", ".."}
<1>1. /\ Len(d.blocks[1].records) = 2 /\ d.at12 = d.blocks[1].records[2]
      /\ d.blocks[1].records[1].name = "." /\ d.blocks[1].records[2].name = ".."
  BY Zenon DEF WellFormed, RootFits
<1>2. ASSUME NEW e \in AllEntries(d), e.block = 1 PROVE e.name \in {".", ".."}
  <2>1. e \in EntriesOf(d, 1)
    BY Zenon, <1>2, AllEntryFacts
  <2>2. e.record \in 1 .. Len(d.blocks[1].records) /\ e.name = d.blocks[1].records[e.record].name
    BY <2>1, EntryFacts
  <2>3. e.record = 1 \/ e.record = 2
    BY <1>1, <2>2
  <2> QED
    BY Zenon, <1>1, <2>2, <2>3
<1> QED
  BY Zenon, <1>1, <1>2

(* At the end of a block every entry of it is passed, and none of the next *)
(* one.                                                                    *)
LEMMA PassedBlock ==
  ASSUME TypeOK, ~ HasRecord, NEW e \in AllEntries(dir)
  PROVE  Passed(e) <=> e.block <= block
<1>1. /\ e.block \in 1 .. NumBlocks
      /\ e.record \in 1 .. Len(dir.blocks[e.block].records)
  BY AllEntryFacts DEF NumBlocks
<1>2. block \in Nat /\ record \in Nat /\ NumBlocks \in Nat
  BY DirFacts DEF TypeOK
<1>3. block > 0 => Len(dir.blocks[block].records) \in Nat
                   /\ Len(dir.blocks[block].records) <= record
  <2> SUFFICES ASSUME block > 0
               PROVE  Len(dir.blocks[block].records) \in Nat
                      /\ Len(dir.blocks[block].records) <= record
    OBVIOUS
  <2>1. Len(dir.blocks[block].records) \in Nat
    BY <1>2, DirFacts DEF TypeOK
  <2> QED
    BY <1>2, <2>1 DEF HasRecord, Current
<1>4. e.block = block => e.record <= record
  BY <1>1, <1>2, <1>3
<1> QED
  BY <1>1, <1>2, <1>4 DEF Passed

(* One record on, one more entry is passed, if the record is one. *)
LEMMA PassedRecord ==
  ASSUME TypeOK, HasRecord, NEW e \in AllEntries(dir),
         e.block < block \/ (e.block = block /\ e.record <= record + 1)
  PROVE  Passed(e) \/ (rec.inode # 0 /\ e = Entry(rec, block, record + 1))
<1>1. /\ e.record \in Nat /\ record \in Nat
      /\ dir.blocks[e.block].records[e.record].inode # 0
      /\ e = Entry(dir.blocks[e.block].records[e.record], e.block, e.record)
  BY AllEntryFacts DEF TypeOK
<1>2. Passed(e) \/ (e.block = block /\ e.record = record + 1)
  BY <1>1 DEF Passed
<1> QED
  BY <1>1, <1>2 DEF rec, Current

LEMMA ListStepList ==
  ASSUME TypeOK, PlaceInv, ListInv, op = "list", HasRecord, NextRecord, Answer = answers'
  PROVE  ListInv'
<1> DEFINE new == Entry(rec, block, record + 1)
<1>1. /\ UNCHANGED <<dir, op, block>> /\ record' = record + 1
      /\ pc = "read_dir" /\ outcome' # "ok"
  BY DEF NextRecord, call, Return, Continue, PlaceInv
<1>2. answers' = Append(answers, new)
  BY DEF Answer
<1>3. rec.inode # 0
  <2>1. Answer # answers
    BY DEF Answer, TypeOK
  <2> QED
    BY <2>1 DEF NextRecord
<1>4. new \in AllEntries(dir) /\ new.block = block /\ new.record = record + 1
  <2>1. new \in EntriesOf(dir, block)
    BY <1>3, RecordFacts
  <2>2. block \in 1 .. Len(dir.blocks)
    BY DirFacts DEF HasRecord, TypeOK, NumBlocks
  <2> QED
    BY <2>1, <2>2 DEF AllEntries, Entry
<1> HIDE DEF new
<1>5. answers \in Seq(Answers(dir)) /\ block \in Nat /\ record \in Nat
  BY DirFacts DEF TypeOK
<1>6. /\ Len(answers') = Len(answers) + 1 /\ Len(answers) \in Nat
      /\ answers'[Len(answers) + 1] = new
      /\ \A k \in 1 .. Len(answers) : answers'[k] = answers[k]
  BY <1>2, <1>5
<1>7. /\ \A k \in 1 .. Len(answers) : answers[k] \in AllEntries(dir) /\ Passed(answers[k])
      /\ \A k, l \in 1 .. Len(answers) : k < l => Before(answers[k], answers[l])
      /\ \A e \in AllEntries(dir) : Passed(e) => \E k \in 1 .. Len(answers) : answers[k] = e
      /\ \A e \in AllEntries(dir) : (\E k \in 1 .. Len(answers) : Before(e, answers[k]))
                  => \E k \in 1 .. Len(answers) : answers[k] = e
  BY <1>1 DEF ListInv, ListsEntries
<1>8. \A e \in AllEntries(dir) : Passed(e) <=> Before(e, new)
  <2> TAKE e \in AllEntries(dir)
  <2>1. e.record \in Nat
    BY AllEntryFacts
  <2> QED
    BY <1>4, <1>5, <2>1 DEF Passed, Before
<1>9. \A k \in 1 .. Len(answers') : answers'[k] \in AllEntries(dir)
  BY <1>4, <1>6, <1>7
<1>10. \A k, l \in 1 .. Len(answers') : k < l => Before(answers'[k], answers'[l])
  <2> TAKE k, l \in 1 .. Len(answers')
  <2> HAVE k < l
  <2>1. k \in 1 .. Len(answers) /\ answers'[k] = answers[k]
    BY <1>6
  <2>2. l \in 1 .. Len(answers) \/ l = Len(answers) + 1
    BY <1>6
  <2> QED
    BY <1>6, <1>7, <1>8, <2>1, <2>2
<1>11. \A e \in AllEntries(dir) : (\E k \in 1 .. Len(answers') : Before(e, answers'[k]))
           => \E k \in 1 .. Len(answers') : answers'[k] = e
  BY <1>6, <1>7, <1>8
<1>12. ListsEntries'
  BY <1>1, <1>9, <1>10, <1>11 DEF ListsEntries, Before
<1>13. \A k \in 1 .. Len(answers') :
          \/ answers'[k].block < block
          \/ answers'[k].block = block /\ answers'[k].record <= record + 1
  <2> TAKE k \in 1 .. Len(answers')
  <2>1. CASE k \in 1 .. Len(answers)
    <3>1. answers'[k] = answers[k] /\ Passed(answers[k]) /\ answers[k].record \in Nat
      BY <1>6, <1>7, <2>1, AllEntryFacts
    <3> QED
      BY <1>5, <3>1 DEF Passed
  <2>2. CASE k = Len(answers) + 1
    BY <1>4, <1>5, <1>6, <2>2
  <2> QED
    BY <1>6, <2>1, <2>2
<1>14. \A e \in AllEntries(dir) :
          e.block < block \/ (e.block = block /\ e.record <= record + 1)
             => \E k \in 1 .. Len(answers') : answers'[k] = e
  <2> TAKE e \in AllEntries(dir)
  <2> HAVE e.block < block \/ (e.block = block /\ e.record <= record + 1)
  <2>1. Passed(e) \/ e = new
    BY PassedRecord DEF new
  <2> QED
    BY <1>6, <1>7, <2>1
<1> QED
  BY <1>1, <1>12, <1>13, <1>14 DEF ListInv, Passed

(* A step that yields nothing and passes no entry leaves the list as it is. *)
LEMMA ListStays ==
  ASSUME TypeOK, ListInv, UNCHANGED <<dir, name, op, answers>>, pc = "read_dir",
         pc' \in {"read_dir", "done"}, outcome' # "ok",
         \A e \in AllEntries(dir) : Passed(e) => Passed(e)',
         pc' = "read_dir" => \A e \in AllEntries(dir) :
            Passed(e)' => Passed(e) \/ (op = "lookup" /\ e.name # name)
  PROVE  ListInv'
<1>1. op = "list" => \A k \in 1 .. Len(answers) : Passed(answers[k])' /\ answers[k] \in AllEntries(dir)
  BY DEF ListInv, ListsEntries
<1>2. op = "list" => \A k \in 1 .. Len(answers') : Passed(answers[k])'
  BY <1>1 DEF Passed
<1>3. ListsEntries'
  BY DEF ListInv, ListsEntries, Before
<1>4. op = "list" /\ pc' = "read_dir" =>
          \A e \in AllEntries(dir) : Passed(e)' => \E k \in 1 .. Len(answers) : answers[k] = e
  BY DEF ListInv
<1>5. op = "lookup" /\ pc' = "read_dir" =>
          \A e \in AllEntries(dir) : Passed(e)' => e.name # name
  BY ZenonT(40) DEF ListInv
<1> QED
  BY <1>2, <1>3, <1>4, <1>5 DEF ListInv, Passed

LEMMA ListStep == TypeOK /\ PlaceInv /\ ListInv /\ Next => ListInv'
<1> SUFFICES ASSUME TypeOK, PlaceInv, ListInv, Next, UNCHANGED <<dir, name, op>>
             PROVE  ListInv'
  BY CallStays
<1>1. CASE Open
  <2>1. /\ answers' = <<>> /\ block' = 0 /\ block = 0 /\ record' = 0 /\ outcome' # "ok"
    BY <1>1 DEF Open, PlaceInv, Return, Continue
  <2>2. \A e \in AllEntries(dir) : ~ (e.block < 0 \/ (e.block = 0 /\ e.record <= 0))
    BY AllEntryFacts
  <2> QED
    BY <2>1, <2>2 DEF ListInv, ListsEntries, Passed
<1>2. CASE NextBlock
  <2>1. /\ ~ HasRecord /\ block' = block + 1 /\ record' = 0 /\ UNCHANGED answers
        /\ pc = "read_dir" /\ pc' \in {"read_dir", "done"} /\ outcome' # "ok"
    BY <1>2 DEF NextBlock, Return, Continue, PlaceInv
  <2>2. ASSUME NEW e \in AllEntries(dir) PROVE Passed(e)' <=> Passed(e)
    <3>1. e.block \in Nat /\ e.record \in Nat \ {0} /\ block \in Nat
      BY DirFacts, AllEntryFacts DEF TypeOK, NumBlocks
    <3>2. Passed(e)' <=> e.block < block + 1
      BY <2>1, <3>1 DEF Passed
    <3> QED
      BY <2>1, <3>1, <3>2, PassedBlock
  <2> QED
    BY <2>1, <2>2, ListStays
<1>3. CASE EndOfDir
  <2>1. /\ ~ HasRecord /\ block = NumBlocks /\ UNCHANGED <<block, record, answers>>
        /\ pc = "read_dir" /\ pc' = "done"
    BY <1>3 DEF EndOfDir, Return
  <2>2. CASE op = "lookup"
    BY <2>1, <2>2 DEF ListInv, ListsEntries
  <2>3. CASE op = "list"
    <3>1. \A e \in AllEntries(dir) : Passed(e)
      BY <2>1, DirFacts, PassedBlock, AllEntryFacts DEF NumBlocks
    <3>2. \A e \in AllEntries(dir) : \E k \in 1 .. Len(answers) : answers[k] = e
      BY ZenonT(40), <2>1, <2>3, <3>1 DEF ListInv
    <3>3. ListsEntries'
      BY <2>1, <2>3, <3>2 DEF ListInv, ListsEntries, Before
    <3> QED
      BY <2>1, <2>3, <3>3 DEF ListInv, Passed
  <2> QED
    BY <2>2, <2>3 DEF TypeOK
<1>4. CASE NextRecord
  <2>1. /\ HasRecord /\ record' = record + 1 /\ UNCHANGED block
        /\ pc = "read_dir" /\ pc' \in {"read_dir", "done"} /\ outcome' # "ok"
        /\ answers' = answers \/ answers' = Answer
    BY <1>4 DEF NextRecord, Return, Continue, PlaceInv
  <2>2. CASE answers' = Answer /\ op = "list"
    BY <1>4, <2>1, <2>2, ListStepList
  <2>3. CASE answers' = Answer /\ op = "lookup"
    <3>1. pc' = "done"
      <4>1. Answer # answers
        BY DEF Answer, TypeOK
      <4> QED
        BY <1>4, <2>3, <4>1 DEF NextRecord, Return
    <3> QED
      BY <2>3, <3>1 DEF ListInv, ListsEntries
  <2>4. CASE answers' = answers
    <3>1. ASSUME NEW e \in AllEntries(dir), Passed(e) PROVE Passed(e)'
      BY <2>1, <3>1, AllEntryFacts DEF Passed, TypeOK
    <3>2. ASSUME pc' = "read_dir", NEW e \in AllEntries(dir), Passed(e)'
          PROVE  Passed(e) \/ (op = "lookup" /\ e.name # name)
      <4>1. Passed(e) \/ (rec.inode # 0 /\ e = Entry(rec, block, record + 1))
        BY <2>1, <3>2, PassedRecord DEF Passed
      <4>2. rec.inode = 0 \/ (op = "lookup" /\ rec.name # name)
        <5>1. Answer # answers
          BY DEF Answer, TypeOK
        <5> QED
          BY <1>4, <2>4, <3>2, <5>1 DEF NextRecord, Return
      <4> QED
        BY <4>1, <4>2 DEF Entry
    <3> QED
      BY <2>1, <2>4, <3>1, <3>2, ListStays
  <2> QED
    BY <2>1, <2>2, <2>3, <2>4 DEF TypeOK
<1>5. CASE pc # "open" /\ pc # "read_dir" /\ pc # "done"
  <2>1. op = "lookup" /\ pc' # "read_dir"
    BY Zenon, <1>5 DEF PlaceInv, InTree, Next, Step, Open, NextBlock, EndOfDir, NextRecord, ReadRoot,
                Dots, OpenNode, Bisect, Descend, ScanRecord, ScanEnd, Returned, Return, Continue
  <2> QED
    BY ZenonT(40), <2>1 DEF ListInv, ListsEntries
<1>6. CASE Returned
  <2>1. /\ UNCHANGED <<dir, name, op, block, record, answers, outcome>>
        /\ pc = "done" /\ pc' = "done"
    BY Zenon, <1>6 DEF Returned, vars, call
  <2>2. ListsEntries'
    BY Zenon, <2>1 DEF ListInv, ListsEntries, Before
  <2>3. op = "list" => \A k \in 1 .. Len(answers') : Passed(answers[k])'
    BY Zenon, <2>1 DEF ListInv, Passed
  <2> QED
    BY <2>1, <2>2, <2>3 DEF ListInv
<1> QED
  BY Zenon, <1>1, <1>2, <1>3, <1>4, <1>5, <1>6
     DEF Next, Step, ReadRoot, Dots, OpenNode, Bisect, Descend, ScanRecord, ScanEnd

-----------------------------------------------------------------------------
(* The binary search *)
LEMMA HashAtSorted ==
  ASSUME TypeOK, PlaceInv, pc = "search", Sorted(Node),
         NEW i \in 0 .. Node.count - 1, NEW j \in 0 .. Node.count - 1, i <= j
  PROVE  HashAt(i) \in Nat /\ HashAt(j) \in Nat /\ HashAt(i) <= HashAt(j)
<1>1. /\ Node.count \in Nat
      /\ \A k \in 1 .. Node.count : Node.entries[k].hash \in Nat
  BY NodeInUseFacts DEF NodeEntry
<1>2. HashAt(i) \in Nat /\ HashAt(j) \in Nat
  BY <1>1 DEF HashAt
<1>3. CASE i = 0
  BY <1>2, <1>3 DEF HashAt
<1>4. CASE i = j
  BY <1>2, <1>4
<1>5. CASE i # 0 /\ i # j
  <2>1. i + 1 \in 2 .. Node.count /\ j + 1 \in 2 .. Node.count /\ i + 1 < j + 1
    BY <1>1, <1>5
  <2> QED
    BY <1>2, <1>5, <2>1 DEF HashAt, Sorted
<1> QED
  BY <1>3, <1>4, <1>5

LEMMA SearchStep == TypeOK /\ PlaceInv /\ SearchInv /\ Next => SearchInv'
<1> SUFFICES ASSUME TypeOK, PlaceInv, SearchInv, Next, UNCHANGED <<dir, name, op>>,
                    pc' = "search", Sorted(Node)'
             PROVE  SearchInv'
  BY ZenonT(40), CallStays DEF SearchInv
<1>1. OpenNode \/ Bisect
  BY ZenonT(40) DEF Next, Step, Open, NextBlock, EndOfDir, NextRecord, ReadRoot, Dots, Descend, ScanRecord,
         ScanEnd, Returned, Return, Continue, vars
<1>2. Node' = Node /\ \A i : HashAt(i)' = HashAt(i)
  BY ZenonT(40), <1>1 DEF OpenNode, Bisect, Node, Current, HashAt, search
<1>3. Node.count \in Nat /\ Hash(name) \in Nat
  BY <1>1, NodeInUseFacts, DirFacts DEF OpenNode, Bisect
<1>4. CASE OpenNode
  <2>1. left' = 0 /\ right' = Node.count - 1
    BY <1>4 DEF OpenNode, Return
  <2> QED
    BY <1>2, <1>3, <2>1 DEF SearchInv
<1>5. CASE Bisect
  <2>1. /\ pc = "search" /\ Sorted(Node)
        /\ left \in 0 .. Node.count /\ right \in 0 .. Node.count - 1 /\ left <= right
    BY <1>2, <1>5 DEF Bisect, TypeOK, Sorted
  <2>2. mid \in left .. right
    BY <1>3, <2>1 DEF mid
  <2>3. mid \in 0 .. Node.count - 1
    BY <1>3, <2>1, <2>2
  <2>4. /\ \A i \in 0 .. left - 1 : HashAt(i) <= Hash(name)
        /\ \A i \in right + 1 .. Node.count - 1 : HashAt(i) > Hash(name)
    BY <2>1 DEF SearchInv
  <2>5. CASE HashAt(mid) <= Hash(name)
    <3>1. left' = mid + 1 /\ right' = right
      BY <1>5, <2>5 DEF Bisect
    <3>2. ASSUME NEW i \in 0 .. mid PROVE HashAt(i) <= Hash(name)
      <4>1. i \in 0 .. Node.count - 1 /\ i <= mid
        BY <1>3, <2>3
      <4>2. HashAt(i) \in Nat /\ HashAt(mid) \in Nat /\ HashAt(i) <= HashAt(mid)
        BY <2>1, <2>3, <4>1, HashAtSorted
      <4> QED
        BY <1>3, <2>5, <4>2
    <3>3. \A i \in 0 .. left' - 1 : HashAt(i) <= Hash(name)
      BY <2>3, <3>1, <3>2
    <3> QED
      BY <1>2, <2>4, <3>1, <3>3 DEF SearchInv
  <2>6. CASE ~ (HashAt(mid) <= Hash(name))
    <3>1. right' = mid - 1 /\ left' = left
      BY <1>5, <2>6 DEF Bisect, Return
    <3>2. ASSUME NEW i \in mid .. Node.count - 1 PROVE HashAt(i) > Hash(name)
      <4>1. i \in 0 .. Node.count - 1 /\ mid <= i
        BY <1>3, <2>3
      <4>2. HashAt(i) \in Nat /\ HashAt(mid) \in Nat /\ HashAt(mid) <= HashAt(i)
        BY <2>1, <2>3, <4>1, HashAtSorted
      <4> QED
        BY <1>3, <2>6, <4>2
    <3>3. \A i \in right' + 1 .. Node.count - 1 : HashAt(i) > Hash(name)
      BY <2>3, <3>1, <3>2
    <3> QED
      BY <1>2, <2>4, <3>1, <3>3 DEF SearchInv
  <2> QED
    BY <2>5, <2>6
<1> QED
  BY <1>1, <1>4, <1>5

-----------------------------------------------------------------------------
(* The search in a well-formed tree ends at the entry that a way to an     *)
(* entry of the name takes.                                                *)
LEMMA SearchFinds ==
  ASSUME TypeOK, PlaceInv, SearchInv, WellFormed(dir), pc = "search", left > right,
         NEW w \in Ways(dir), LeadsToName(w), block = BlocksOn(dir, w)[level]
  PROVE  /\ left # 0 /\ left = w[level]
         /\ BlocksOn(dir, w)[level + 1] = Node.entries[left].block + 1
         /\ BlocksOn(dir, w)[level + 1] \in 2 .. NumBlocks
<1>1. level \in Levels(dir) /\ level \in 0 .. dir.depth + 1 /\ dir.depth \in Nat
      /\ level + 1 \in 0 .. dir.depth + 1
  BY DirFacts DEF TypeOK, PlaceInv, Levels
<1>2. Node = NodeOn(dir, w, level) /\ Limit = LimitOf(level)
  BY NodeInUse DEF NodeOn
<1>3. /\ Node.count \in 1 .. Limit /\ Sorted(Node)
      /\ \A i \in 1 .. Node.count : Node.entries[i].block + 1 \in 2 .. NumBlocks
  <2>1. BlocksOn(dir, w)[level] # 0
    BY <1>1 DEF LeadsToName, LeadsToLeaf
  <2>2. NodesFit(dir, w)
    BY DEF WellFormed
  <2> QED
    BY <1>1, <1>2, <2>1, <2>2 DEF NodesFit, NumBlocks
<1>4. PICK e \in EntriesOf(dir, LeafOn(dir, w)) : e.name = name
  BY DEF LeadsToName
<1>5. KeysFit(dir, w, Hash(name))
  BY ZenonT(40), <1>4 DEF LeadsToName, WellFormed
<1> DEFINE i == w[level]
<1>6. /\ i > 1 => Node.entries[i].hash <= Hash(name)
      /\ i < Node.count => Hash(name) < Node.entries[i + 1].hash
  BY <1>1, <1>2, <1>5 DEF KeysFit
<1>7. BlocksOn(dir, w)[level + 1] = Child(dir, block, level, i)
  BY <1>1, BlocksOnDef
<1>8. i \in Nat \ {0}
  BY <1>1, DirectoryAssumption DEF Ways
<1> HIDE DEF i
<1>9. i <= Node.count
  <2>1. Child(dir, block, level, i) # 0
    BY ZenonT(40), <1>1, <1>7 DEF LeadsToName, LeadsToLeaf
  <2> QED
    BY <1>2, <2>1, NodeInUse DEF Child
<1>10. Child(dir, block, level, i) = Node.entries[i].block + 1
  <2>1. block \in 1 .. Len(dir.blocks)
    BY Zenon, BlockInTree DEF InTree
  <2>2. i <= NodeOf(dir, block, level).count /\ NodeOf(dir, block, level).count <= LimitOf(level)
    <3>1. Node.count \in Nat /\ Limit \in Nat /\ Node.count <= Limit
      <4>1. Limit \in Nat
        BY Zenon, NodeInUseFacts
      <4> QED
        BY <1>3, <4>1
    <3> QED
      BY Zenon, <1>9, <3>1, NodeInUse
  <2> QED
    BY Zenon, <2>1, <2>2, NodeInUse DEF Child
<1>11. /\ Node.count \in Nat /\ Hash(name) \in Nat
       /\ left \in 0 .. Node.count /\ right \in 0 .. Node.count - 1
       /\ \A k \in 1 .. Node.count : Node.entries[k].hash \in Nat
  <2>1. Node.count \in Nat /\ \A k \in 1 .. Node.count : Node.entries[k] \in NodeEntry
    BY Zenon, NodeInUseFacts
  <2>2. Hash(name) \in Nat /\ left \in 0 .. Node.count /\ right \in 0 .. Node.count - 1
    BY Zenon, DirFacts DEF TypeOK
  <2> QED
    BY <2>1, <2>2 DEF NodeEntry
<1>12. /\ \A k \in 0 .. left - 1 : HashAt(k) <= Hash(name)
       /\ \A k \in right + 1 .. Node.count - 1 : HashAt(k) > Hash(name)
  BY Zenon, <1>3 DEF SearchInv
<1>13. ~ (left < i)
  <2> SUFFICES ASSUME left < i PROVE FALSE
    OBVIOUS
  <2>1. i - 1 \in right + 1 .. Node.count - 1 /\ i > 1 /\ i - 1 # 0 /\ (i - 1) + 1 = i
        /\ i \in 1 .. Node.count
    BY <1>8, <1>9, <1>11
  <2>2. HashAt(i - 1) > Hash(name) /\ HashAt(i - 1) = Node.entries[i].hash
    BY <1>12, <2>1 DEF HashAt
  <2> QED
    BY <1>6, <1>11, <2>1, <2>2
<1>14. ~ (i < left)
  <2> SUFFICES ASSUME i < left PROVE FALSE
    OBVIOUS
  <2>1. /\ left - 1 \in 0 .. left - 1 /\ left - 1 # 0 /\ (left - 1) + 1 = left
        /\ left \in 2 .. Node.count /\ i + 1 \in 2 .. Node.count /\ i < Node.count
        /\ i + 1 <= left /\ i + 1 \in 1 .. Node.count /\ left \in 1 .. Node.count
    BY <1>8, <1>9, <1>11
  <2>2. HashAt(left - 1) <= Hash(name) /\ HashAt(left - 1) = Node.entries[left].hash
    BY <1>12, <2>1 DEF HashAt
  <2>3. Node.entries[i + 1].hash <= Node.entries[left].hash
    BY <1>3, <1>11, <2>1 DEF Sorted
  <2> QED
    BY <1>6, <1>11, <2>1, <2>2, <2>3
<1>15. left = i
  BY <1>8, <1>11, <1>13, <1>14
<1> QED
  BY <1>3, <1>7, <1>8, <1>9, <1>10, <1>11, <1>15 DEF i

LEMMA WayStep == TypeOK /\ PlaceInv /\ SearchInv /\ WayInv /\ Next => WayInv'
<1> SUFFICES ASSUME TypeOK, PlaceInv, SearchInv, WayInv, Next, UNCHANGED <<dir, name, op>>,
                    WellFormed(dir)
             PROVE  WayInv'
  BY CallStays DEF WayInv
<1>1. /\ InTree => \A w \in Ways(dir) : LeadsToName(w) => block = BlocksOn(dir, w)[level]
      /\ pc = "leaf" =>
            \A e \in EntriesOf(dir, block) : e.record <= record => e.name # name
  BY DEF WayInv
<1>2. \A w : LeadsToName(w)' <=> LeadsToName(w)
  BY DEF LeadsToName
<1>3. CASE ~ InTree'
  BY <1>3 DEF WayInv, InTree
<1>4. CASE Dots /\ InTree'
  <2>1. pc' = "node" /\ block' = 1 /\ level' = 0
    BY <1>4 DEF Dots, Return, Continue, InTree, PlaceInv, search
  <2>2. \A w \in Ways(dir) : BlocksOn(dir, w)[0] = 1
    BY BlocksOnDef, DirFacts
  <2> QED
    BY <2>1, <2>2 DEF WayInv
<1>5. CASE (OpenNode \/ Bisect) /\ InTree'
  <2>1. UNCHANGED <<block, level>> /\ pc' \in {"node", "search"} /\ InTree
    BY <1>5 DEF OpenNode, Bisect, Return, Continue, search, InTree
  <2> QED
    BY <1>1, <1>2, <2>1 DEF WayInv
<1>6. CASE Descend /\ InTree'
  <2>1. /\ pc = "search" /\ left > right /\ record' = 0 /\ left # 0
        /\ block' = Node.entries[left].block + 1 /\ level' = level + 1
    <3>1. pc' # "done"
      BY <1>6 DEF InTree
    <3>2. (left - 1) + 1 = left
      BY <1>6, NodeInUseFacts DEF Descend, TypeOK
    <3> QED
      BY Zenon, <1>6, <3>1, <3>2 DEF Descend, Return, found_index
  <2>2. \A w \in Ways(dir) : LeadsToName(w) => block' = BlocksOn(dir, w)[level']
    BY <1>1, <2>1, SearchFinds DEF InTree
  <2>3. \A e \in EntriesOf(dir, block') : ~ (e.record <= record')
    <3> TAKE e \in EntriesOf(dir, block')
    <3>1. e.record \in Nat \ {0}
      BY EntryFacts
    <3> QED
      BY <2>1, <3>1
  <2> QED
    BY <1>2, <2>2, <2>3 DEF WayInv
<1>7. CASE ScanRecord /\ InTree'
  <2>1. /\ pc = "leaf" /\ HasRecord /\ pc' = "leaf" /\ record' = record + 1
        /\ UNCHANGED <<block, level>> /\ ~ (rec.inode # 0 /\ rec.name = name)
    BY ZenonT(40), <1>7 DEF ScanRecord, Return, Continue, search, InTree
  <2>2. ASSUME NEW e \in EntriesOf(dir, block), e.record <= record + 1 PROVE e.name # name
    <3>1. /\ e.record \in Nat /\ record \in Nat
          /\ dir.blocks[block].records[e.record].inode # 0
          /\ e.name = dir.blocks[block].records[e.record].name
      BY EntryFacts DEF TypeOK
    <3>2. CASE e.record <= record
      BY ZenonT(40), <1>1, <2>1, <3>2
    <3>3. CASE e.record = record + 1
      BY ZenonT(40), <2>1, <3>1, <3>3 DEF rec, Current
    <3> QED
      BY <2>2, <3>1, <3>2, <3>3
  <2> QED
    BY <1>1, <1>2, <2>1, <2>2 DEF WayInv, InTree
<1> QED
  BY Zenon, <1>3, <1>4, <1>5, <1>6, <1>7
     DEF Next, Step, Open, NextBlock, EndOfDir, NextRecord, ReadRoot, ScanEnd, Returned, Return,
         Continue, InTree, vars

-----------------------------------------------------------------------------
(* What a lookup returns *)
LEMMA LookupStep ==
    TypeOK /\ PlaceInv /\ ListInv /\ WayInv /\ LookupAgreesWithList /\ Next
        => LookupAgreesWithList'
<1> SUFFICES ASSUME TypeOK, PlaceInv, ListInv, WayInv, LookupAgreesWithList, Next,
                    UNCHANGED <<dir, name, op>>
             PROVE  LookupAgreesWithList'
  BY CallStays
<1>1. CASE Returned
  BY <1>1 DEF Returned, vars, LookupAgreesWithList
<1>2. CASE outcome' \notin {"found", "NotFound"}
  BY ZenonT(40), <1>2 DEF LookupAgreesWithList
<1>3. ASSUME HasRecord, rec.inode # 0, rec.name = name, answers = <<>>, answers' = Answer,
             outcome' = "found"
      PROVE  LookupAgreesWithList'
  <2>1. answers'[1] = Entry(rec, block, record + 1)
    BY <1>3 DEF Answer
  <2>2. block \in 1 .. Len(dir.blocks)
    BY <1>3, DirFacts DEF HasRecord, TypeOK, NumBlocks
  <2>3. answers'[1] \in AllEntries(dir)
    BY <1>3, <2>1, <2>2, RecordFacts DEF AllEntries
  <2> QED
    BY <1>3, <2>1, <2>3 DEF LookupAgreesWithList, Entry
<1>4. CASE NextRecord /\ outcome' \in {"found", "NotFound"}
  <2>1. /\ HasRecord /\ rec.inode # 0 /\ op = "lookup" /\ rec.name = name
        /\ answers = <<>> /\ answers' = Answer /\ outcome' = "found"
    BY <1>4 DEF NextRecord, Return, Continue, PlaceInv, TypeOK
  <2> QED
    BY <1>3, <2>1
<1>5. CASE ScanRecord /\ outcome' \in {"found", "NotFound"}
  <2>1. /\ HasRecord /\ rec.inode # 0 /\ rec.name = name
        /\ answers = <<>> /\ answers' = Answer /\ outcome' = "found"
    BY ZenonT(40), <1>5 DEF ScanRecord, Return, Continue, PlaceInv, InTree
  <2> QED
    BY <1>3, <2>1
<1>6. CASE Dots /\ outcome' \in {"found", "NotFound"}
  <2> DEFINE i == IF name = "." THEN 1 ELSE 2
             r == IF name = "." THEN Current.records[1] ELSE dir.at12
  <2>1. /\ outcome' = "found" /\ r.inode # 0 /\ r.name = name
        /\ answers' = <<Entry(r, block, i)>> /\ block = 1 /\ dir.has_htree
    BY ZenonT(40), <1>6 DEF Dots, Return, Continue, PlaceInv
  <2>2. answers'[1] = Entry(r, 1, i) /\ answers'[1].name = name
    BY <2>1 DEF Entry
  <2>3. 1 \in 1 .. Len(dir.blocks) /\ dir.blocks[1].records \in Seq(Record)
        /\ Len(dir.blocks[1].records) > 0
    <3>1. block \in 0 .. NumBlocks /\ NumBlocks = Len(dir.blocks)
      BY Zenon DEF TypeOK, NumBlocks
    <3>2. NumBlocks \in Nat
      BY Zenon, DirFacts
    <3>3. 1 \in 1 .. NumBlocks
      BY <2>1, <3>1, <3>2
    <3> QED
      BY Zenon, <3>1, <3>3, DirFacts
  <2>4. ASSUME name # ".." \/ WellFormed(dir)
        PROVE  r = dir.blocks[1].records[i] /\ i \in 1 .. Len(dir.blocks[1].records)
    <3>1. CASE name = "."
      BY <2>1, <2>3, <3>1 DEF Current
    <3>2. CASE name # "."
      <4>1. name = ".."
        BY <1>6, <2>1, <3>2 DEF Dots, Continue, PlaceInv
      <4> QED
        <5>1. Len(dir.blocks[1].records) = 2 /\ dir.at12 = dir.blocks[1].records[2]
          BY Zenon, <2>4, <4>1, RootRecords
        <5> QED
          BY <3>2, <5>1
    <3> QED
      BY <3>1, <3>2
  <2> HIDE DEF r, i
  <2>5. name # ".." \/ WellFormed(dir) => answers'[1] \in AllEntries(dir)
    BY <2>1, <2>2, <2>3, <2>4 DEF AllEntries, EntriesOf
  <2> QED
    BY ZenonT(40), <2>1, <2>2, <2>5 DEF LookupAgreesWithList
<1>7. CASE EndOfDir /\ outcome' \in {"found", "NotFound"}
  <2>1. /\ outcome' = "NotFound" /\ op = "lookup" /\ pc = "read_dir" /\ ~ HasRecord
        /\ block = NumBlocks
    BY ZenonT(40), <1>7 DEF EndOfDir, Return, TypeOK
  <2>2. \A e \in AllEntries(dir) : Passed(e)
    BY <2>1, DirFacts, PassedBlock, AllEntryFacts DEF NumBlocks
  <2>3. \A e \in AllEntries(dir) : e.name # name
    BY <2>1, <2>2 DEF ListInv
  <2> QED
    BY <2>1, <2>3 DEF LookupAgreesWithList
<1>8. CASE ScanEnd /\ outcome' \in {"found", "NotFound"}
  <2>1. /\ outcome' = "NotFound" /\ pc = "leaf" /\ ~ HasRecord /\ dir.has_htree
        /\ block \in 1 .. NumBlocks /\ level = dir.depth + 1 /\ name \notin {".", ".."}
    BY <1>8, DirFacts DEF ScanEnd, Return, TypeOK, PlaceInv, InTree
  <2>2. ASSUME WellFormed(dir), NEW e \in AllEntries(dir), e.name = name PROVE FALSE
    <3>1. e.block # 1
      BY Zenon, <2>1, <2>2, RootRecords
    <3>2. PICK w \in Ways(dir) : LeadsToLeaf(dir, w) /\ LeafOn(dir, w) = e.block
      BY ZenonT(40), <2>2, <3>1 DEF WellFormed
    <3>3. LeadsToName(w)
      BY <2>2, <3>2, AllEntryFacts DEF LeadsToName
    <3>4. e.block = block
      BY <2>1, <2>2, <3>2, <3>3 DEF WayInv, InTree, LeafOn
    <3>5. e \in EntriesOf(dir, block) /\ e.record \in 1 .. Len(dir.blocks[block].records)
      BY <3>4, AllEntryFacts
    <3>6. e.record <= record
      <4>1. Len(dir.blocks[block].records) \in Nat /\ record \in Nat
        <5>1. dir.blocks[block].records \in Seq(Record) /\ record \in Nat
          BY Zenon, <2>1, DirFacts DEF TypeOK
        <5> QED
          BY <5>1
      <4> QED
        BY <2>1, <3>5, <4>1 DEF HasRecord, Current
    <3> QED
      BY ZenonT(40), <2>1, <2>2, <3>5, <3>6 DEF WayInv
  <2> QED
    BY <2>1, <2>2 DEF LookupAgreesWithList
<1> QED
  BY Zenon, <1>1, <1>2, <1>4, <1>5, <1>6, <1>7, <1>8
     DEF Next, Step, Open, NextBlock, ReadRoot, OpenNode, Bisect, Descend, ReadResult, Return,
         Continue, PlaceInv

-----------------------------------------------------------------------------
LEMMA InitIInv == Init => IInv
<1> SUFFICES ASSUME Init PROVE IInv
  OBVIOUS
<1>1. dir \in Dirs /\ NumBlocks \in Nat /\ dir.depth \in Nat
  BY DirectoryAssumption DEF Init, NumBlocks
<1>2. TypeOK
  BY <1>1 DEF Init, TypeOK
<1>3. PlaceInv
  BY ZenonT(40), <1>1 DEF Init, PlaceInv, InTree
<1>4. CheckedInv /\ SearchInv /\ WayInv /\ LookupAgreesWithList
  BY DEF Init, CheckedInv, AnswersAreChecked, SearchInv, WayInv, InTree, LookupAgreesWithList
<1>5. ListInv
  BY DEF Init, ListInv, ListsEntries
<1> QED
  BY <1>2, <1>3, <1>4, <1>5 DEF IInv

(* Everything above together is an invariant of reading a directory. *)
THEOREM DirectoryInvariant == Spec => []IInv
<1>1. IInv /\ Next => IInv'
  BY TypeStep, CheckedStep, ListStep, SearchStep, WayStep, LookupStep DEF IInv
<1>2. IInv /\ UNCHANGED vars => IInv'
  <2> SUFFICES ASSUME IInv, UNCHANGED vars PROVE IInv'
    OBVIOUS
  <2>1. CASE pc = "done"
    BY <1>1, <2>1 DEF Next, Returned
  <2>2. CASE pc # "done"
    <3>1. TypeOK' /\ PlaceInv'
      BY ZenonT(40) DEF IInv, vars, call, TypeOK, PlaceInv, InTree, NumBlocks, Node, Current, Limit
    <3>2. CheckedInv'
      BY ZenonT(40) DEF IInv, vars, call, CheckedInv, Checked, AnswersAreChecked, BlockType
    <3>3. ListInv' /\ LookupAgreesWithList'
      BY ZenonT(40) DEF IInv, vars, call, ListInv, ListsEntries, Before, Passed, LookupAgreesWithList
    <3>4. SearchInv'
      BY Zenon DEF IInv, vars, call, SearchInv, Sorted, Node, Current, HashAt
    <3>5. WayInv'
      BY DEF IInv, vars, call, WayInv, InTree, LeadsToName
    <3> QED
      BY ZenonT(40), <3>1, <3>2, <3>3, <3>4, <3>5 DEF IInv
  <2> QED
    BY <2>1, <2>2
<1> QED
  BY <1>1, <1>2, InitIInv, PTL DEF Spec

(* For every directory, damaged ones included: with metadata checksums, an *)
(* entry comes only from a block whose checksum is right.                  *)
THEOREM DirectoryAnswersAreChecked == Spec => []AnswersAreChecked
<1>1. IInv => AnswersAreChecked
  BY Zenon DEF IInv, CheckedInv, AnswersAreChecked
<1> QED
  BY <1>1, DirectoryInvariant, PTL

(* For every directory: ReadDir yields the entries of all blocks in order, *)
(* and passes over nothing else than records without an inode.             *)
THEOREM ReadDirListsEntries == Spec => []ListsEntries
<1>1. IInv => ListsEntries
  BY DEF IInv, ListInv
<1> QED
  BY <1>1, DirectoryInvariant, PTL

(* For every directory whose tree is well-formed, of any depth and width,  *)
(* and for every directory without a tree, a lookup that does not fail     *)
(* finds a name if and only if the list has it.                            *)
THEOREM LookupAgrees == Spec => []LookupAgreesWithList
<1>1. IInv => LookupAgreesWithList
  BY DEF IInv
<1> QED
  BY <1>1, DirectoryInvariant, PTL
=============================================================================

----------------------------- MODULE Directory ------------------------------
(***************************************************************************)
(* A directory read in two ways: the iterator ReadDir                      *)
(* (src/iters/read_dir.rs) and the lookup of a name (src/dir.rs), by that  *)
(* iterator or in the hash tree (src/dir_htree.rs), over blocks that       *)
(* src/dir_block.rs checks and records that src/dir_entry.rs parses.       *)
(*                                                                         *)
(* A block has records, and the node that its bytes from 0x8 on are read   *)
(* as: entries, the first one with hash 0, and the count in the header.    *)
(* The root's node is at 0x20 of the first block instead, and is a field   *)
(* of the directory.  A record with inode 0 is no entry.                   *)
(***************************************************************************)
EXTENDS Integers, Sequences

CONSTANTS Dirs, Names, Hash(_),
          RootEntries, NodeEntries      \* entries that fit in a block

Record == [name : Names, inode : Nat, bad : BOOLEAN]

NodeEntry == [hash : Nat, block : Nat]

IsNode(n, limit) ==
    /\ n.entries \in Seq(NodeEntry)
    /\ n.count \in Nat
    /\ n.count <= limit => n.count <= Len(n.entries)

IsBlock(b) ==
    /\ b.records \in Seq(Record) /\ Len(b.records) > 0
    /\ IsNode(b.node, NodeEntries)
    /\ b.whole \in BOOLEAN          \* the first record is as long as the block
    /\ b.readable \in BOOLEAN
    /\ b.checksum \subseteq {"Root", "Internal", "Leaf"}   \* as which it is right

ASSUME DirectoryAssumption ==
    /\ RootEntries \in Nat /\ NodeEntries \in Nat
    /\ \A n \in Names : Hash(n) \in Nat
    /\ \A d \in Dirs :
          /\ Len(d.blocks) \in Nat
          /\ \A i \in 1 .. Len(d.blocks) : IsBlock(d.blocks[i])
          /\ IsNode(d.root, RootEntries)
          /\ d.at12 \in Record       \* what is parsed at byte 12 of block 1
          /\ d.depth \in Nat
          /\ {d.has_htree, d.encrypted, d.hash_alg, d.checksums} \subseteq BOOLEAN

VARIABLES dir, name,
          op,           \* "list": ReadDir; "lookup": get_dir_entry_inode_by_name
          pc,           \* the next step, or "done"
          outcome,      \* "none", "ok", "found", "NotFound", "error", "panic"
          block,        \* number of the block in use, from 1; 0: none
          record,       \* records of it that were read
          level, left, right,
          answers       \* entries that were returned, with their places

call == <<dir, name, op>>
vars == <<call, pc, outcome, block, record, level, left, right, answers>>
search == <<level, left, right>>

NumBlocks == Len(dir.blocks)
Current == dir.blocks[block]

(* The node in use: the root's at level 0 *)
Node == IF level = 0 THEN dir.root ELSE Current.node
Limit == IF level = 0 THEN RootEntries ELSE NodeEntries

(* The caller lists the directory, or looks a name up. *)
Init ==
    /\ dir \in Dirs
    /\ name \in Names
    /\ op \in {"list", "lookup"}
    /\ pc = "open"
    /\ outcome = "none"
    /\ block = 0 /\ record = 0
    /\ level = 0 /\ left = 0 /\ right = 0
    /\ answers = <<>>

Return(what) == pc' = "done" /\ outcome' = what
Continue(next) == pc' = next /\ UNCHANGED outcome

-----------------------------------------------------------------------------
(* get_dir_entry_inode_by_name up to its two kinds of search; ReadDir::new *)
Open ==
    /\ pc = "open"
    /\ IF dir.encrypted THEN Return("error")
       ELSE Continue(IF op = "lookup" /\ dir.has_htree THEN "root" ELSE "read_dir")
    /\ UNCHANGED <<call, block, record, search, answers>>

(* DirBlock::get_block_type *)
BlockType(b, is_first) ==
    IF ~ dir.has_htree THEN "Leaf"
    ELSE IF is_first THEN "Root"
    ELSE IF dir.blocks[b].whole THEN "Internal" ELSE "Leaf"

(* Mistake: the checksum of an internal node is not compared. *)
ReadResultLeafOnly(b, is_first) ==
    IF ~ dir.blocks[b].readable THEN "error"
    ELSE IF /\ dir.checksums /\ BlockType(b, is_first) = "Leaf"
            /\ "Leaf" \notin dir.blocks[b].checksum
    THEN "error" ELSE "ok"

(* DirBlock::read: the checksum of a node is over as many entries as its   *)
(* header counts; the slice panics if they do not fit in the block.        *)
ReadResult(b, is_first) ==
    LET type == BlockType(b, is_first)
    IN  IF ~ dir.blocks[b].readable THEN "error"
        ELSE IF ~ dir.checksums THEN "ok"
        ELSE IF \/ type = "Root" /\ dir.root.count > RootEntries
                \/ type = "Internal" /\ dir.blocks[b].node.count > NodeEntries
        THEN "panic"
        ELSE IF type \in dir.blocks[b].checksum THEN "ok" ELSE "error"

(* DirEntry::from_bytes on the next record *)
rec == Current.records[record + 1]
HasRecord == block > 0 /\ record < Len(Current.records)

(* An entry and its place, which the code does not return *)
Entry(r, b, i) == [name |-> r.name, inode |-> r.inode, block |-> b, record |-> i]
Answer == Append(answers, Entry(rec, block, record + 1))

-----------------------------------------------------------------------------
(* ReadDir::next_impl.  The next block is fetched and read. *)
NextBlock ==
    /\ pc = "read_dir"
    /\ ~ HasRecord
    /\ block < NumBlocks
    /\ block' = block + 1
    /\ record' = 0
    /\ LET result == ReadResult(block', block' = 1)
       IN  IF result = "ok" THEN Continue("read_dir") ELSE Return(result)
    /\ UNCHANGED <<call, search, answers>>

EndOfDir ==
    /\ pc = "read_dir"
    /\ ~ HasRecord
    /\ block = NumBlocks
    /\ Return(IF op = "list" THEN "ok" ELSE "NotFound")
    /\ UNCHANGED <<call, block, record, search, answers>>

(* Mistake: a record without an inode ends the block. *)
NextRecordStopping ==
    /\ pc = "read_dir"
    /\ HasRecord
    /\ IF rec.inode = 0
       THEN record' = Len(Current.records) /\ UNCHANGED <<pc, outcome, answers>>
       ELSE /\ record' = record + 1
            /\ IF rec.bad THEN Return("error") /\ UNCHANGED answers
               ELSE Continue("read_dir") /\ answers' = Answer
    /\ UNCHANGED <<call, block, search>>

(* The iterator yields the next entry; a linear lookup compares its name. *)
NextRecord ==
    /\ pc = "read_dir"
    /\ HasRecord
    /\ record' = record + 1
    /\ IF rec.bad THEN Return("error") /\ UNCHANGED answers
       ELSE IF rec.inode = 0 \/ (op = "lookup" /\ rec.name # name)
       THEN Continue("read_dir") /\ UNCHANGED answers
       ELSE /\ IF op = "lookup" THEN Return("found") ELSE Continue("read_dir")
            /\ answers' = Answer
    /\ UNCHANGED <<call, block, search>>

-----------------------------------------------------------------------------
(* read_root_block *)
ReadRoot ==
    /\ pc = "root"
    /\ IF NumBlocks = 0 THEN Return("error") /\ UNCHANGED block
       ELSE /\ block' = 1
            /\ LET result == ReadResult(1, TRUE)
               IN  IF result = "ok" THEN Continue("dots") ELSE Return(result)
    /\ UNCHANGED <<call, record, search, answers>>

(* read_dot_or_dotdot: these are expected at bytes 0 and 12 of the root. *)
Dots ==
    /\ pc = "dots"
    /\ IF name \notin {".", ".."}
       THEN Continue("node") /\ UNCHANGED answers
       ELSE LET r == IF name = "." THEN Current.records[1] ELSE dir.at12
            IN  IF ~ r.bad /\ r.inode # 0 /\ r.name = name
                THEN /\ answers' = <<Entry(r, block, IF name = "." THEN 1 ELSE 2)>>
                     /\ Return("found")
                ELSE Return("error") /\ UNCHANGED answers
    /\ UNCHANGED <<call, block, record, search>>

(* HashAlg::from_u8 for the root, InternalNode::new, and the start of      *)
(* lookup_block_by_hash                                                    *)
OpenNode ==
    /\ pc = "node"
    /\ IF (level = 0 /\ ~ dir.hash_alg) \/ Node.count > Limit \/ Node.count = 0
       THEN Return("error") /\ UNCHANGED search
       ELSE /\ left' = 0
            /\ right' = Node.count - 1
            /\ UNCHANGED level
            /\ Continue("search")
    /\ UNCHANGED <<call, block, record, answers>>

mid == (left + right) \div 2

(* For index zero the hash is implicitly zero. *)
HashAt(i) == IF i = 0 THEN 0 ELSE Node.entries[i + 1].hash

(* Mistake: the left end does not move beyond the middle. *)
BisectStuck ==
    /\ pc = "search"
    /\ left <= right
    /\ IF HashAt(mid) <= Hash(name)
       THEN left' = mid /\ UNCHANGED <<right, pc, outcome>>
       ELSE IF mid = 0 THEN Return("error") /\ UNCHANGED <<left, right>>
       ELSE right' = mid - 1 /\ UNCHANGED <<left, pc, outcome>>
    /\ UNCHANGED <<call, block, record, level, answers>>

(* One round of the binary search *)
Bisect ==
    /\ pc = "search"
    /\ left <= right
    /\ IF HashAt(mid) <= Hash(name)
       THEN left' = mid + 1 /\ UNCHANGED <<right, pc, outcome>>
       ELSE IF mid = 0 THEN Return("error") /\ UNCHANGED <<left, right>>
       ELSE right' = mid - 1 /\ UNCHANGED <<left, pc, outcome>>
    /\ UNCHANGED <<call, block, record, level, answers>>

(* Mistake: the entry after the one that was found *)
found_index_after == IF left < Node.count THEN left ELSE left - 1
found_index == left - 1

(* The search ends: the child's block is looked up in the file and read.   *)
(* At the last level it is a leaf.                                         *)
Descend ==
    /\ pc = "search"
    /\ left > right
    /\ IF left = 0 THEN Return("error") /\ UNCHANGED <<block, level>>
       ELSE LET child == Node.entries[found_index + 1].block + 1
            IN  IF child > NumBlocks THEN Return("error") /\ UNCHANGED <<block, level>>
                ELSE /\ block' = child
                     /\ level' = level + 1
                     /\ LET result == ReadResult(child, FALSE)
                        IN  IF result # "ok" THEN Return(result)
                            ELSE Continue(IF level = dir.depth THEN "leaf" ELSE "node")
    /\ record' = 0
    /\ UNCHANGED <<call, left, right, answers>>

(* The linear search through the leaf *)
ScanRecord ==
    /\ pc = "leaf"
    /\ HasRecord
    /\ record' = record + 1
    /\ IF rec.bad THEN Return("error") /\ UNCHANGED answers
       ELSE IF rec.inode # 0 /\ rec.name = name
       THEN Return("found") /\ answers' = Answer
       ELSE Continue("leaf") /\ UNCHANGED answers
    /\ UNCHANGED <<call, block, search>>

ScanEnd ==
    /\ pc = "leaf"
    /\ ~ HasRecord
    /\ Return("NotFound")
    /\ UNCHANGED <<call, block, record, search, answers>>

Step == \/ Open \/ NextBlock \/ EndOfDir \/ NextRecord
        \/ ReadRoot \/ Dots \/ OpenNode \/ Bisect \/ Descend
        \/ ScanRecord \/ ScanEnd

Returned == pc = "done" /\ UNCHANGED vars
Next == Step \/ Returned

Spec == Init /\ [][Next]_vars

(* A lookup is one call; the caller of ReadDir goes on to its end. *)
FairSpec == Spec /\ WF_vars(Step)

-----------------------------------------------------------------------------
Answers(d) ==
    [name : Names, inode : Nat, block : 1 .. Len(d.blocks), record : Nat \ {0}]

TypeOK ==
    /\ dir \in Dirs
    /\ name \in Names
    /\ op \in {"list", "lookup"}
    /\ block \in 0 .. NumBlocks
    /\ record \in Nat
    /\ level \in 0 .. dir.depth + 1
    /\ pc = "search" => /\ left \in 0 .. Node.count
                        /\ right \in 0 .. Node.count - 1
    /\ answers \in Seq(Answers(dir))

Sorted(n) == \A i, j \in 2 .. n.count :
    i < j => n.entries[i].hash <= n.entries[j].hash

(* The loop of lookup_block_by_hash narrows the search without passing     *)
(* over the entry it looks for: entries to the left of `left` are not      *)
(* larger than the hash, entries to the right of `right` are.              *)
SearchInv ==
    pc = "search" /\ Sorted(Node) =>
        /\ \A i \in 0 .. left - 1 : HashAt(i) <= Hash(name)
        /\ \A i \in right + 1 .. Node.count - 1 : HashAt(i) > Hash(name)

(* With metadata checksums, no entry is returned from a block whose        *)
(* checksum is wrong, be it a leaf, an inner node or the root.  (Block 0   *)
(* of the file is read as the root, or as the child of a damaged node.)    *)
AnswersAreChecked ==
    dir.checksums =>
        \A k \in 1 .. Len(answers) :
            LET b == answers[k].block
            IN  \E first \in {b = 1, FALSE} :
                    BlockType(b, first) \in dir.blocks[b].checksum

(* Whatever the blocks hold, also a node that is its own child, a lookup   *)
(* and an iteration end.                                                   *)
LookupReturns == <>(pc = "done")

(* "Invalid data should never cause crashes, panics, or non-terminating    *)
(* loops" (README)                                                         *)
NoPanic == outcome # "panic"

-----------------------------------------------------------------------------
(* What reading a directory and looking up a name in it return.            *)

EntriesOf(d, b) ==
    LET records == d.blocks[b].records
    IN  {Entry(records[i], b, i) :
           i \in {j \in 1 .. Len(records) : records[j].inode # 0}}

AllEntries(d) == UNION {EntriesOf(d, b) : b \in 1 .. Len(d.blocks)}

Before(e, f) == e.block < f.block \/ (e.block = f.block /\ e.record < f.record)

NodeOf(d, b, lvl) == IF lvl = 0 THEN d.root ELSE d.blocks[b].node
LimitOf(lvl) == IF lvl = 0 THEN RootEntries ELSE NodeEntries

(* A way from the root to a leaf takes one of the entries at every level. *)
Levels(d) == 0 .. d.depth
Ways(d) == [Levels(d) -> 1 .. IF RootEntries > NodeEntries THEN RootEntries ELSE NodeEntries]

(* The child of a node; 0 if there is no such node or entry *)
Child(d, b, lvl, i) ==
    IF /\ b \in 1 .. Len(d.blocks)
       /\ NodeOf(d, b, lvl).count <= LimitOf(lvl) /\ i <= NodeOf(d, b, lvl).count
    THEN NodeOf(d, b, lvl).entries[i].block + 1 ELSE 0

(* The block that a way leads to at each level, and its leaf *)
BlocksOn(d, w) ==
    LET at[l \in 0 .. d.depth + 1] ==
            IF l = 0 THEN 1 ELSE Child(d, at[l - 1], l - 1, w[l - 1])
    IN  at
NodeOn(d, w, lvl) == NodeOf(d, BlocksOn(d, w)[lvl], lvl)
LeadsToLeaf(d, w) == \A l \in 0 .. d.depth + 1 : BlocksOn(d, w)[l] # 0
LeafOn(d, w) == BlocksOn(d, w)[d.depth + 1]

(* "All directory entries in this block (or children of this block) have a *)
(* hash greater than or equal to the hash key", and less than the next key *)
(* (equal hashes that go on in a second leaf are not searched for there)   *)
KeysFit(d, w, hash) ==
    \A l \in Levels(d) :
        /\ w[l] > 1 => NodeOn(d, w, l).entries[w[l]].hash <= hash
        /\ w[l] < NodeOn(d, w, l).count => hash < NodeOn(d, w, l).entries[w[l] + 1].hash

NodesFit(d, w) ==
    \A l \in Levels(d) : BlocksOn(d, w)[l] # 0 =>
        /\ BlocksOn(d, w)[l] <= Len(d.blocks)
        /\ NodeOn(d, w, l).count \in 1 .. LimitOf(l)
        /\ Sorted(NodeOn(d, w, l))
        /\ \A i \in 1 .. NodeOn(d, w, l).count :
              NodeOn(d, w, l).entries[i].block + 1 \in 2 .. Len(d.blocks)

RootFits(d) ==
    /\ Len(d.blocks) > 0
    /\ LET records == d.blocks[1].records
       IN  /\ Len(records) = 2 /\ d.at12 = records[2]
           /\ records[1].name = "." /\ records[2].name = ".."

WellFormed(d) ==
    /\ RootFits(d)
    /\ \A w \in Ways(d) : NodesFit(d, w)
    /\ \A w \in Ways(d) : LeadsToLeaf(d, w) =>
          \A e \in EntriesOf(d, LeafOn(d, w)) : KeysFit(d, w, Hash(e.name))
    /\ \A e \in AllEntries(d) :
          e.block = 1 \/ \E w \in Ways(d) : LeadsToLeaf(d, w) /\ LeafOn(d, w) = e.block

(* ReadDir yields the entries of all blocks in order and leaves out the    *)
(* records without an inode: the tree's nodes and checksums, which it      *)
(* passes over without knowing of them.  It leaves out nothing else.       *)
ListsEntries ==
    op = "list" =>
        /\ \A k \in 1 .. Len(answers) : answers[k] \in AllEntries(dir)
        /\ \A k, l \in 1 .. Len(answers) : k < l => Before(answers[k], answers[l])
        /\ \A e \in AllEntries(dir) :
              outcome = "ok" \/ (\E k \in 1 .. Len(answers) : Before(e, answers[k]))
                  => \E k \in 1 .. Len(answers) : answers[k] = e

(* A lookup and the list of all entries agree: what is found is an entry   *)
(* of that name (".." is read at a fixed byte, so this needs a well-formed *)
(* root), and a name that is not found is in none of the blocks, for a     *)
(* search in the tree if the tree is well-formed.                          *)
LookupAgreesWithList ==
    /\ outcome = "found" /\ (name # ".." \/ ~ dir.has_htree \/ WellFormed(dir)) =>
          answers[1].name = name /\ answers[1] \in AllEntries(dir)
    /\ outcome = "NotFound" /\ (~ dir.has_htree \/ WellFormed(dir)) =>
          \A e \in AllEntries(dir) : e.name # name
=============================================================================

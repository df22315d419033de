---------------------------- MODULE MCDirectory -----------------------------
(***************************************************************************)
(* Directories with trees of one and two levels of nodes, and one without  *)
(* a tree; the entries of every leaf vary, and one block may be damaged.   *)
(***************************************************************************)
EXTENDS Directory, TLC

MCNames == {".", "..", "p", "q", "r", "s", "t"}
MCHash(n) == CASE n = "p" -> 2 [] n = "q" -> 4 [] n = "r" -> 4
               [] n = "s" -> 6 [] n = "t" -> 8 [] n \in {".", ".."} -> 0

EntryOf(n) == [name |-> n, inode |-> 10 + MCHash(n), bad |-> FALSE]
Special == [name |-> ".", inode |-> 0, bad |-> FALSE]
NodeWith(entries) == [entries |-> entries, count |-> Len(entries)]
Block(records, entries, whole, type) ==
    [records |-> records, node |-> NodeWith(entries), whole |-> whole,
     readable |-> TRUE, checksum |-> {type}]

Key(h, b) == [hash |-> h, block |-> b]
Leaf(names) ==
    Block([k \in 1 .. Len(names) |-> EntryOf(names[k])] \o <<Special>>, <<>>, FALSE, "Leaf")

(* A deleted entry at the start of a block is a record without an inode. *)
Deleted(leaf) == [leaf EXCEPT !.records = <<Special>> \o @]

Inner(entries) == Block(<<Special>>, entries, TRUE, "Internal")
RootBlock == Block(<<EntryOf("."), EntryOf("..")>>, <<>>, FALSE, "Root")

(* A directory with a tree, and one without *)
Tree(root, blocks, depth) ==
    [blocks |-> <<RootBlock>> \o blocks, root |-> NodeWith(root), at12 |-> EntryOf(".."),
     depth |-> depth, has_htree |-> TRUE, encrypted |-> FALSE, hash_alg |-> TRUE,
     checksums |-> TRUE]
Plain(blocks) ==
    [Tree(<<>>, <<>>, 0) EXCEPT !.blocks = blocks, !.has_htree = FALSE, !.at12 = Special]

LeafNames == {<<>>, <<"p">>, <<"q", "r">>, <<"r">>, <<"s">>, <<"t">>}

(* The order of the blocks in the file is not the order in the tree. *)
OneLevel ==
    {Tree(<<Key(0, 2), Key(4, 1), Key(6, 3)>>, <<Leaf(b), Leaf(a), Leaf(c)>>, 0) :
         a \in LeafNames, b \in LeafNames, c \in {<<>>, <<"r">>, <<"s">>}}

TwoLevels ==
    {Tree(<<Key(0, 1), Key(k, 2)>>,
          <<Inner(<<Key(0, 3), Key(4, 4)>>), Inner(<<Key(0, 5), Key(8, 6)>>),
            Leaf(<<"p">>), Leaf(a), Deleted(Leaf(b)), Leaf(<<"t">>)>>, 1) :
         k \in {4, 6}, a \in LeafNames, b \in LeafNames}

NoTree == {Plain(<<Leaf(a), Deleted(Leaf(b))>>) : a \in LeafNames, b \in LeafNames}

Whole == Tree(<<Key(0, 1), Key(6, 2)>>,
              <<Inner(<<Key(0, 3), Key(4, 4)>>),
                Inner(<<Key(0, 5), Key(8, 6)>>),
                Leaf(<<"p">>), Leaf(<<"r", "q">>), Leaf(<<"s">>), Leaf(<<"t">>)>>, 1)

Damaged(b) ==
    {[Whole EXCEPT !.blocks[b].readable = FALSE],
     [Whole EXCEPT !.blocks[b].checksum = {}],
     [Whole EXCEPT !.blocks[b].checksum = {}, !.checksums = FALSE],
     [Whole EXCEPT !.blocks[b].records[1].bad = TRUE],
     [Whole EXCEPT !.blocks[b].node.count = 0],
     [Whole EXCEPT !.blocks[b].node.count = 9, !.checksums = FALSE]}

(* Among them a node that is its own child, and nodes and leaves that are  *)
(* the first block of the file                                             *)
DamagedTrees ==
    {[Whole EXCEPT !.blocks[2].node.entries[1].block = 1, !.depth = 3],
     [Whole EXCEPT !.root.entries[2].block = 9],
     [Whole EXCEPT !.root.entries[1].block = 0],
     [Whole EXCEPT !.root.entries[1].block = 0, !.checksums = FALSE],
     [Whole EXCEPT !.blocks[2].node.entries[1].block = 0, !.checksums = FALSE],
     [Whole EXCEPT !.root.count = 0],
     [Whole EXCEPT !.root.count = 9, !.checksums = FALSE],
     [Whole EXCEPT !.hash_alg = FALSE],
     [Whole EXCEPT !.at12 = EntryOf("p")],
     [Whole EXCEPT !.blocks[1].records[2] = Special],
     [Whole EXCEPT !.encrypted = TRUE],
     [Whole EXCEPT !.blocks = <<>>]}

MCDirs == OneLevel \cup TwoLevels \cup NoTree \cup DamagedTrees
          \cup UNION {Damaged(b) : b \in 1 .. 7}

(* A node's count that does not fit in its block, with checksums *)
OverfullDirs == {[Whole EXCEPT !.root.count = 9]}
                \cup {[Whole EXCEPT !.blocks[b].node.count = 9] : b \in 2 .. 3}
=============================================================================

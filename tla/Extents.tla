------------------------------ MODULE Extents -------------------------------
(***************************************************************************)
(* The iterator over an inode's extent tree (src/iters/extents.rs): a      *)
(* depth-first walk with the stack to_visit.  A step is one call of        *)
(* next_impl, repeated until it has an item, an error or the end.          *)
(*                                                                         *)
(* A node has its depth, eh_max, its entries (eh_entries is their number)  *)
(* and whether its magic and its checksum are right.  An entry is an       *)
(* extent in a leaf and the block of a child in other nodes.               *)
(***************************************************************************)
EXTENDS Integers, Sequences, SequencesExt

CONSTANTS MaxDepth,         \* 5: a header with a larger depth is refused
          RootEntries,      \* entries that fit in the inode (4)
          BlockEntries,     \* entries of a node that fit in a block
          HasChecksums,     \* has_metadata_checksums()
          Trees             \* the trees to iterate over

IsNode(n) ==
    /\ n.depth \in Nat
    /\ n.max \in Nat
    /\ n.entries \in Seq(Nat)
    /\ n.magic \in BOOLEAN
    /\ n.checksum \in BOOLEAN

(* A tree: the node in the inode and the nodes in readable blocks *)
IsTree(t) == IsNode(t.root) /\ \A b \in DOMAIN t.disk : IsNode(t.disk[b])

ASSUME ExtentsAssumption ==
    /\ MaxDepth \in Nat /\ RootEntries \in Nat /\ BlockEntries \in Nat
    /\ HasChecksums \in BOOLEAN
    /\ \A t \in Trees : IsTree(t)

VARIABLES tree,
          to_visit,     \* stack of nodes, each with the current entry
          is_done,
          error,
          yielded

vars == <<tree, to_visit, is_done, error, yielded>>

(* NodeHeader::from_bytes *)
HeaderOK(n) == n.magic /\ n.depth <= MaxDepth

(* ToVisitItem::new, for node data that holds `room` entries *)
NodeOK(n, room) == HeaderOK(n) /\ Len(n.entries) <= room
ToVisitItem(n) == [node |-> n, entry |-> 0]

(* Extents::new reads the root from the inode, or fails. *)
Init ==
    /\ tree \in Trees
    /\ yielded = <<>>
    /\ IF NodeOK(tree.root, RootEntries)
       THEN to_visit = <<ToVisitItem(tree.root)>> /\ is_done = FALSE /\ error = FALSE
       ELSE to_visit = <<>> /\ is_done = TRUE /\ error = TRUE

-----------------------------------------------------------------------------
Top == to_visit[Len(to_visit)]

(* The entry is counted first, so that no return leaves it out. *)
entry == Top.entry + 1
Advanced == [to_visit EXCEPT ![Len(to_visit)].entry = entry]
Visiting == ~ is_done /\ to_visit # <<>>
HasEntry == entry <= Len(Top.node.entries)

Finish ==
    /\ ~ is_done
    /\ to_visit = <<>>
    /\ is_done' = TRUE
    /\ UNCHANGED <<tree, to_visit, error, yielded>>

(* Mistake: the parent's entry is counted again when a node is left. *)
PopAndAdvance ==
    /\ Visiting
    /\ ~ HasEntry
    /\ LET rest == SubSeq(to_visit, 1, Len(to_visit) - 1)
       IN  to_visit' = IF rest = <<>> THEN rest
                       ELSE [rest EXCEPT ![Len(rest)].entry = @ + 1]
    /\ UNCHANGED <<tree, is_done, error, yielded>>

(* Mistake: a node that is used up stays on the stack. *)
PopNothing ==
    /\ Visiting
    /\ ~ HasEntry
    /\ UNCHANGED vars

Pop ==
    /\ Visiting
    /\ ~ HasEntry
    /\ to_visit' = SubSeq(to_visit, 1, Len(to_visit) - 1)
    /\ UNCHANGED <<tree, is_done, error, yielded>>

YieldExtent ==
    /\ Visiting
    /\ HasEntry
    /\ Top.node.depth = 0
    /\ to_visit' = Advanced
    /\ yielded' = Append(yielded, Top.node.entries[entry])
    /\ UNCHANGED <<tree, is_done, error>>

(* The child's header and then all of it are read from its block: eh_max   *)
(* entries must fit in the block, the checksum after them must be right,   *)
(* and they must hold the number of entries.                               *)
ChildOK(block) ==
    /\ block \in DOMAIN tree.disk
    /\ LET n == tree.disk[block]
       IN  /\ n.max <= BlockEntries
           /\ HasChecksums => n.checksum
           /\ NodeOK(n, n.max)

Descend ==
    /\ Visiting
    /\ HasEntry
    /\ Top.node.depth > 0
    /\ LET child == Top.node.entries[entry]
       IN  IF ChildOK(child)
           THEN /\ to_visit' = Append(Advanced, ToVisitItem(tree.disk[child]))
                /\ UNCHANGED <<is_done, error>>
           ELSE /\ to_visit' = Advanced
                /\ is_done' = TRUE
                /\ error' = TRUE
    /\ UNCHANGED <<tree, yielded>>

Step == Finish \/ Pop \/ YieldExtent \/ Descend

Done == is_done /\ UNCHANGED vars
Next == Step \/ Done

Spec == Init /\ [][Next]_vars

(* One call of next runs until it has an item, and the caller goes on. *)
FairSpec == Spec /\ WF_vars(Step)

-----------------------------------------------------------------------------
TypeOK ==
    /\ \A i \in 1 .. Len(to_visit) :
          /\ IsNode(to_visit[i].node)
          /\ to_visit[i].entry \in 0 .. Len(to_visit[i].node.entries)
    /\ yielded \in Seq(Nat)
    /\ is_done \in BOOLEAN
    /\ error \in BOOLEAN

(* The tree is one: every child is one level lower than its parent. *)
Descending ==
    LET Lower(n) == \A i \in 1 .. Len(n.entries) :
            n.depth > 0 /\ n.entries[i] \in DOMAIN tree.disk
              => tree.disk[n.entries[i]].depth = n.depth - 1
    IN  Lower(tree.root) /\ \A b \in DOMAIN tree.disk : Lower(tree.disk[b])

(* The stack never holds more nodes than the tree has levels: each is one  *)
(* level lower than the one below it.                                      *)
StackFollowsDepth ==
    Descending => \A i \in 1 .. Len(to_visit) :
                      to_visit[i].node.depth = tree.root.depth - (i - 1)

(* "The maximum depth is five" (NodeHeader::depth): six levels of nodes,   *)
(* for any tree on the disk.                                               *)
AtMostMaxDepth == Len(to_visit) <= MaxDepth + 1

(* The walk of a tree ends, also one with nodes that are used twice. *)
IterationEnds == Descending ~> is_done

-----------------------------------------------------------------------------
(* What the walk of an extent tree yields: its leaf entries from left to   *)
(* right.                                                                  *)

RECURSIVE Leaves(_)
Leaves(n) ==
    IF n.depth = 0 THEN n.entries
    ELSE FlattenSeq([i \in 1 .. Len(n.entries) |->
             IF n.entries[i] \in DOMAIN tree.disk
             THEN Leaves(tree.disk[n.entries[i]]) ELSE <<>>])

(* Extents come in the order of the tree, none left out and none twice;    *)
(* before an error, too, they are the first ones of the file.              *)
YieldsLeavesInOrder ==
    Descending =>
        /\ IsPrefix(yielded, Leaves(tree.root))
        /\ is_done /\ ~ error => yielded = Leaves(tree.root)
=============================================================================

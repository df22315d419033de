----------------------------- MODULE MCExtents ------------------------------
(***************************************************************************)
(* Trees of up to three levels, nodes with no to two entries, and one      *)
(* damaged node in each way the code checks for.                           *)
(***************************************************************************)
EXTENDS Extents, TLC

Node(depth, entries) ==
    [depth |-> depth, max |-> 2, entries |-> entries, magic |-> TRUE,
     checksum |-> TRUE]

(* Leaves 1 .. 3, inner nodes 4 and 5 *)
LeafEntries == {<<>>, <<10>>, <<10, 11>>}
InnerEntries == {<<>>, <<1>>, <<1, 2>>, <<2, 3>>, <<3, 3>>}
RootEntrySets == {<<>>, <<4>>, <<4, 5>>, <<5, 5, 4>>}

Disk(l, p, q) == (1 :> Node(0, l)) @@ (2 :> Node(0, <<12, 13>>))
                 @@ (3 :> Node(0, <<14>>)) @@ (4 :> Node(1, p)) @@ (5 :> Node(1, q))

GoodTrees ==
    {[root |-> Node(2, r), disk |-> Disk(l, p, q)] :
        r \in RootEntrySets, l \in LeafEntries, p \in InnerEntries, q \in InnerEntries}
    \cup {[root |-> Node(0, l), disk |-> <<>>] : l \in LeafEntries}

Whole == [root |-> Node(2, <<4, 5>>), disk |-> Disk(<<10>>, <<1, 2>>, <<2, 3>>)]

(* The node in block b is damaged, or cannot be read. *)
Damaged(b) ==
    {[Whole EXCEPT !.disk[b].magic = FALSE],
     [Whole EXCEPT !.disk[b].checksum = FALSE],
     [Whole EXCEPT !.disk[b].max = 9],
     [Whole EXCEPT !.disk[b].max = 0],
     [Whole EXCEPT !.disk[b].depth = 6],
     [Whole EXCEPT !.disk = [c \in DOMAIN @ \ {b} |-> @[c]]]}

DamagedTrees == UNION {Damaged(b) : b \in 1 .. 5}
                \cup {[Whole EXCEPT !.root.magic = FALSE],
                      [Whole EXCEPT !.root.entries = <<4, 4, 4, 4, 4>>]}

MCTrees == GoodTrees \cup DamagedTrees

(* An inner node that is its own child *)
CyclicTrees == {[Whole EXCEPT !.disk[4].entries = <<4>>]}
=============================================================================

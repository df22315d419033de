----------------------------- MODULE MCBlockMap -----------------------------
(***************************************************************************)
(* One direct entry and two entries per block: 15 blocks in a full map.    *)
(* Indirect blocks are 1 .. 11, data blocks are larger.  Up to two         *)
(* pointers are zero, or one indirect block cannot be read.                *)
(***************************************************************************)
EXTENDS BlockMap, TLC

MCRoot == <<20, 1, 2, 5>>
MCTree == (1 :> <<21, 22>>) @@ (2 :> <<3, 4>>) @@ (3 :> <<23, 24>>)
          @@ (4 :> <<25, 26>>) @@ (5 :> <<6, 9>>) @@ (6 :> <<7, 8>>)
          @@ (7 :> <<27, 28>>) @@ (8 :> <<29, 30>>) @@ (9 :> <<10, 11>>)
          @@ (10 :> <<31, 32>>) @@ (11 :> <<33, 34>>)

Punch(s, zeros) == [i \in DOMAIN s |-> IF s[i] \in zeros THEN 0 ELSE s[i]]

File(zeros, unreadable, total) ==
    [level_0 |-> Punch(MCRoot, zeros),
     disk |-> [b \in DOMAIN MCTree \ unreadable |-> Punch(MCTree[b], zeros)],
     num_blocks_total |-> total]

MCMaps ==
    {File({a, b}, {}, t) : a \in 1 .. 34, b \in {3, 20, 24, 33}, t \in {14, 15}}
    \cup {File({}, {u}, 15) : u \in 1 .. 11}
    \cup {File({}, {}, t) : t \in 0 .. 17}
    \cup {[File({}, {}, t) EXCEPT !.disk[8] = <<8, 7>>, !.disk[2] = <<2, 2>>] : t \in {15, 17}}

(* Files of any size an inode can have, and files with holes *)
LargeMaps == {File({}, {}, t) : t \in 14 .. 17}
SparseMaps == {File({a}, {}, 15) : a \in 1 .. 34}
=============================================================================

------------------------------- MODULE MCFile -------------------------------
(* Files of up to three blocks of three bytes, with holes. *)
EXTENDS File

Ceil(n) == (n + BlockSize - 1) \div BlockSize
Layouts == <<7, 0, 8, 9>>

(* The iterator yields one item for each block of the file. *)
MCFiles == {[size |-> n, items |-> SubSeq(Layouts, 1, Ceil(n)), fails |-> FALSE] :
              n \in {0, 1, 3, 7, 9}}

(* The iterator fails after some items. *)
FailingFiles == {[size |-> 7, items |-> SubSeq(Layouts, 1, k), fails |-> TRUE] :
                   k \in 0 .. 2}

AllFiles == MCFiles \cup FailingFiles

MCOffsets == -4 .. 5
=============================================================================

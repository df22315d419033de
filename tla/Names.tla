------------------------------- MODULE Names --------------------------------
(***************************************************************************)
(* Names on their way from a client's bytes to a directory: a path is made *)
(* and pushed onto, its components are iterated over, and the name of a    *)
(* component is hashed to look it up.                                      *)
(***************************************************************************)
EXTENDS Path, DirEntryHash

CONSTANT Vectors        \* [alg, name, seed, expected]

namesVars == <<pathVars, hashVars>>

NamesInit == PathInit /\ HashInit

PathStep ==
    /\ call = <<>>
    /\ PathNext
    /\ UNCHANGED hashVars

(* The name that the iterator has just returned is hashed. *)
LookUp ==
    /\ call = <<>> /\ status = "ok" /\ items # <<>>
    /\ \E v \in Vectors :
        /\ items[Len(items)] = <<"Normal", v.name>>
        /\ StartHash([alg |-> v.alg, name |-> v.name, seed |-> v.seed])
    /\ UNCHANGED pathVars

HashStep == (NextChunk \/ HashRound \/ ChunkDone \/ FinishHash) /\ UNCHANGED pathVars

LookedUp ==
    /\ hash # <<>>
    /\ call' = <<>> /\ rest' = <<>> /\ state' = <<>>
    /\ data' = <<>> /\ words' = <<>> /\ round' = 0
    /\ hash' = <<>>
    /\ UNCHANGED pathVars

NamesNext == PathStep \/ LookUp \/ HashStep \/ LookedUp

NamesSpec == NamesInit /\ [][NamesNext]_namesVars

-----------------------------------------------------------------------------
(* A lookup hashes the names of the repository's unit tests (a short one,  *)
(* one with bytes above 0x7f, one of the maximum length) to the values     *)
(* that the tests took from debugfs, with either algorithm and each seed.  *)
(* A directory with another hash algorithm is incompatible.                *)
HashesLikeDebugfs ==
    hash # <<>> =>
        \E v \in Vectors :
            /\ call = [alg |-> v.alg, name |-> v.name, seed |-> v.seed]
            /\ hash = v.expected
=============================================================================

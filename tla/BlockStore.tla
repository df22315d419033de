----------------------------- MODULE BlockStore -----------------------------
(***************************************************************************)
(* What a reader of blocks is promised, without the cache and without the  *)
(* journal: every request for a block is answered either with contents     *)
(* that block may have or with an error, and nothing else is visible.      *)
(* BlockCache (src/block_cache.rs) and BlockRead (Ext4::read_from_block,   *)
(* src/lib.rs) both implement it, with different Contents.                 *)
(***************************************************************************)
CONSTANTS Requests,     \* block indices that callers ask for
          Contents,     \* for every block, the set of answers it may get
          NoResult      \* no request has been answered yet

VARIABLE result         \* answer to the latest request

Init == result = NoResult

(* A request for block b answered with contents of b. *)
Answer(b) ==
    \E d \in Contents[b] : result' = [block |-> b, ok |-> TRUE, data |-> d]

(* A request for block b that failed. *)
Fail(b) == result' = [block |-> b, ok |-> FALSE]

(* A new request hides the previous answer until it is answered itself. *)
Ask == result' = NoResult

Next == Ask \/ \E b \in Requests : Answer(b) \/ Fail(b)

Spec == Init /\ [][Next]_result
=============================================================================

------------------------------ MODULE MCJournal -----------------------------
(***************************************************************************)
(* The journal for TLC: what the writer leaves behind and, as damaged      *)
(* journals, a few well-formed beginnings of one, each followed by every   *)
(* sequence of two blocks from a small universe.  Their transactions have  *)
(* the last two sequence numbers.                                          *)
(***************************************************************************)
EXTENDS JournalRecovery

CONSTANTS b1, b2

S == MaxSequence - 1
Empty == Blank

TagOf(b) == [block |-> b, data_ok |-> TRUE, escaped |-> FALSE]
Desc(s, tags) ==
    [Empty EXCEPT !.kind = "descriptor", !.sequence = s, !.tags = tags]
Commit(s) == [Empty EXCEPT !.kind = "commit", !.sequence = s]
Revoke(s, bs) ==
    [Empty EXCEPT !.kind = "revocation", !.sequence = s, !.revoked = bs]
Bad(blk) == [blk EXCEPT !.sum_ok = FALSE]
Other(s) == [Empty EXCEPT !.kind = "other", !.sequence = s]
Failing(kind, e) == [Empty EXCEPT !.kind = kind, !.err = e]

Universe ==
    {Empty, Bad(Desc(S, <<TagOf(b1)>>)), Bad(Commit(S)), Bad(Revoke(S, {b1})),
     [Revoke(S, {b1}) EXCEPT !.table_ok = FALSE], Other(0), Other(S + 1)}
    \cup {Desc(s, t) : s \in {S, S + 1},
            t \in {<<TagOf(b1)>>, <<TagOf(b2)>>, <<TagOf(b1), TagOf(b2)>>,
                   <<[TagOf(b1) EXCEPT !.data_ok = FALSE]>>,
                   <<TagOf(b2), [TagOf(b1) EXCEPT !.escaped = TRUE]>>}}
    \cup {[Desc(S, <<TagOf(b1)>>) EXCEPT !.tags_end = "truncated"]}
    \cup {Commit(s) : s \in S .. S + 1}
    \cup {Revoke(s, {b1}) : s \in S .. S + 1}
    \cup {Failing(k, e) : k \in {"iter_error", "read_error"},
                          e \in {"Corrupt", "Io"}}

(* The superblock's own block, then nothing, one transaction, or the        *)
(* beginning of one or of a second one.                                     *)
Super == <<Other(0)>>
OneTag == <<Desc(S, <<TagOf(b1)>>), Empty>>
TwoTags == <<Desc(S, <<TagOf(b1), TagOf(b2)>>), Empty, Empty>>
Revoking == <<Revoke(S, {b2})>>

Beginnings ==
    {Super, Super \o OneTag, Super \o OneTag \o <<Commit(S)>>,
     Super \o TwoTags \o Revoking, Super \o TwoTags \o Revoking \o <<Commit(S)>>,
     Super \o OneTag \o <<Commit(S), Desc(S + 1, <<TagOf(b1)>>), Empty>>,
     Super \o Revoking \o OneTag \o <<Desc(S, <<TagOf(b2)>>), Empty>>}

Pad(s) == [p \in Positions |-> IF p < Len(s) THEN s[p + 1] ELSE Empty]

MCLogs == {Pad(s \o t) : s \in Beginnings, t \in [1 .. 2 -> Universe]}
(* A journal whose second block cannot be found. *)
SkipLogs == {Pad(Super \o <<Failing("iter_error", e)>> \o OneTag \o <<Commit(S)>>) :
                e \in {"Corrupt", "Io"}}

GoodSuperblock ==
    [present |-> TRUE, io |-> "ok", magic |-> TRUE, v2 |-> TRUE,
     required |-> TRUE, unsupported |-> FALSE, crc32c |-> TRUE,
     sum_ok |-> TRUE, size_ok |-> TRUE, sequence |-> S, start_block |-> 1]

MCSuperblocks ==
    {[GoodSuperblock EXCEPT !.start_block = n] : n \in 0 .. 2}

(* No journal, and one superblock for each check that can refuse it. *)
OddSuperblocks ==
    {[GoodSuperblock EXCEPT !.present = FALSE],
     [GoodSuperblock EXCEPT !.magic = FALSE],
     [GoodSuperblock EXCEPT !.v2 = FALSE],
     [GoodSuperblock EXCEPT !.required = FALSE],
     [GoodSuperblock EXCEPT !.unsupported = TRUE],
     [GoodSuperblock EXCEPT !.crc32c = FALSE],
     [GoodSuperblock EXCEPT !.sum_ok = FALSE],
     [GoodSuperblock EXCEPT !.size_ok = FALSE]}
    \cup {[GoodSuperblock EXCEPT !.io = e] : e \in {"Corrupt", "Io"}}

AllSuperblocks == MCSuperblocks \cup OddSuperblocks \cup {CleanSuperblock}
AllLogs == MCLogs \cup {BlankLog}
NoSuperblocks == {CleanSuperblock}
NoLogs == {BlankLog}
SkipSuperblocks == {[GoodSuperblock EXCEPT !.start_block = 2]}
=============================================================================

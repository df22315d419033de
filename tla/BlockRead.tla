----------------------------- MODULE BlockRead ------------------------------
(***************************************************************************)
(* Ext4::read_from_block of src/lib.rs over the block cache of BlockCache: *)
(* every read goes through the journal's block map, then through the       *)
(* checks of the requested range, then through the cache, which is keyed   *)
(* by the mapped block.                                                    *)
(*                                                                         *)
(* Ext4::load first runs with an empty journal (phase "load"), because     *)
(* finding and reading the journal itself needs read_from_block, and then  *)
(* installs the real one (phase "ready").  The cache is kept across this   *)
(* change.  Answers given while loading are internal to Ext4::load, so     *)
(* answer only shows those that callers get from a loaded filesystem.      *)
(*                                                                         *)
(* Two history variables record the order in which blocks were used, to    *)
(* state what "LRU" means for the cache.                                   *)
(***************************************************************************)
EXTENDS BlockCache, Sequences, FiniteSets

CONSTANTS BlockSize,   \* block size in units
          Reserved,    \* the first 1024 bytes of the filesystem, in units
          MaxByte,     \* u64::MAX, in units
          Journal,     \* the block map that Journal::load returns
          Reads        \* possible (original_block_index, offset, dst.len())

OriginalBlocks == {r.block : r \in Reads}

ASSUME BlockReadAssumption ==
    /\ BlockSize \in Nat \ {0} /\ Reserved \in Nat /\ MaxByte \in Nat
    /\ Reads \subseteq [block : Nat, offset : Nat, len : Nat]
    /\ Journal \in [DOMAIN Journal -> Nat]
    /\ Requests = FsBlocks

VARIABLES used,       \* blocks by last insertion or access, latest first
          requested   \* blocks by last successful request, latest first

histVars == <<vars, used, requested>>

(* s with b moved, or added, to the front *)
PlaceIn(s, b) ==
    IF \E i \in 1 .. Len(s) : s[i] = b
    THEN CHOOSE i \in 1 .. Len(s) : s[i] = b ELSE Len(s) + 1
Touch(s, b) ==
    LET p == PlaceIn(s, b)
    IN  [i \in 1 .. (IF p <= Len(s) THEN Len(s) ELSE p) |->
            IF i = 1 THEN b ELSE IF i <= p THEN s[i - 1] ELSE s[i]]

(* The deque is filled with entries for block 0. *)
HistInit == Init /\ used = <<0>> /\ requested = <<>>

HistHit(b) ==
    /\ Hit(b)
    /\ used' = Touch(used, b)
    /\ requested' = Touch(requested, b)

HistRead(b) == (Read(b) \/ ReadError(b)) /\ UNCHANGED <<used, requested>>

HistInsertBlock ==
    /\ InsertBlock
    /\ used' = Touch(used, block_index + todo - 1)
    /\ UNCHANGED requested

HistReturn ==
    /\ Return
    /\ requested' = Touch(requested, block_index)
    /\ UNCHANGED used

-----------------------------------------------------------------------------
VARIABLES phase,    \* "load" or "ready"
          call,     \* the read in progress while pc = "insert"
          answer    \* what the last read of a loaded filesystem returned

readVars == <<histVars, phase, call, answer>>

(* Journal::map_block_index with the journal that Ext4::load installs. *)
Recovered(b) == IF b \in DOMAIN Journal THEN Journal[b] ELSE b

(* Journal::map_block_index; the journal is empty during Ext4::load. *)
map_block_index(b) == IF phase = "ready" THEN Recovered(b) ELSE b

(* The four checks of read_from_block, on the mapped block b. *)
in_bounds(b, r) ==
    /\ ~ (b = 0 /\ r.offset < Reserved)
    /\ b < NumFsBlocks
    /\ r.offset < BlockSize
    /\ r.offset + r.len <= BlockSize

(* block_index.checked_mul(block_size), in the closure that reads. *)
start_byte_overflows(b) == b * BlockSize > MaxByte

(* dst.copy_from_slice(&cached_block[offset..read_end]) *)
Slice(d, r) == [block |-> d, from |-> r.offset, to |-> r.offset + r.len]

(* Callers see an answer only once the filesystem is loaded. *)
Visible(a) == IF phase = "ready" THEN a ELSE NoResult

-----------------------------------------------------------------------------
ReadInit ==
    /\ HistInit
    /\ phase = "load"
    /\ call = NoResult
    /\ answer = NoResult

(* CorruptKind::BlockRead: the cache is not even asked. *)
Reject(r) ==
    /\ pc = "idle"
    /\ ~ in_bounds(map_block_index(r.block), r)
    /\ answer' = Visible(Err(r.block))
    /\ UNCHANGED <<histVars, phase, call>>

(* Mistake: the cache is keyed by the block before the journal's mapping,  *)
(* while the closure reads the mapped one.                                 *)
LookupUnmapped(r) ==
    /\ in_bounds(r.block, r)
    /\ HistHit(r.block)
    /\ answer' = Visible(Ok(r.block, Slice(result'.data, r)))
    /\ UNCHANGED <<phase, call>>

(* The block is cached. *)
Lookup(r) ==
    LET b == map_block_index(r.block)
    IN  /\ in_bounds(b, r)
        /\ HistHit(b)
        /\ answer' = Visible(Ok(r.block, Slice(result'.data, r)))
        /\ UNCHANGED <<phase, call>>

(* The block is not cached: a group of blocks is read, or the reader fails, *)
(* or the start of the read does not fit a u64 and the reader is not asked. *)
Fetch(r) ==
    LET b == map_block_index(r.block)
    IN  /\ in_bounds(b, r)
        /\ HistRead(b)
        /\ start_byte_overflows(b) => read_buf' = read_buf /\ pc' = "idle"
        /\ IF pc' = "insert"
           THEN call' = r /\ answer' = NoResult
           ELSE answer' = Visible(Err(r.block)) /\ UNCHANGED call
        /\ UNCHANGED phase

Insert == HistInsertBlock /\ UNCHANGED <<phase, call, answer>>

(* The end of a group read: the slice of the front entry is copied out. *)
Finish ==
    /\ HistReturn
    /\ answer' = Visible(Ok(call.block, Slice(result'.data, call)))
    /\ call' = NoResult
    /\ UNCHANGED phase

(* Ext4::load replaces the empty journal; the cache is left as it is. *)
InstallJournal ==
    /\ phase = "load"
    /\ pc = "idle"
    /\ phase' = "ready"
    /\ UNCHANGED <<histVars, call, answer>>

ReadNext ==
    \/ \E r \in Reads : Reject(r) \/ Lookup(r) \/ Fetch(r)
    \/ Insert
    \/ Finish
    \/ InstallJournal

ReadSpec == ReadInit /\ [][ReadNext]_readVars

-----------------------------------------------------------------------------
(* What a read of block b of a loaded filesystem may return. *)
Slices(b) ==
    LET reads == {r \in Reads : r.block = b /\ in_bounds(Recovered(b), r)}
    IN  IF Recovered(b) \in FsBlocks
        THEN {Slice(d, r) : d \in Contents[Recovered(b)], r \in reads}
        ELSE {}

(* A loaded filesystem implements BlockStore over the recovered disk: each   *)
(* read of a block gets the journal's latest copy of it, and never the copy  *)
(* on disk, although blocks that Ext4::load read before it knew the journal  *)
(* are still cached; a read that leaves its block or the filesystem, or      *)
(* touches the reserved bytes, only ever gets an error.                      *)
Fs == INSTANCE BlockStore WITH
          Requests <- OriginalBlocks,
          Contents <- [b \in OriginalBlocks |-> Slices(b)],
          NoResult <- NoResult,
          result   <- answer
ReadsRecoveredBlocks == Fs!Spec

CachedBlocks == {entries[i].block_index : i \in Slots}

(* "Cache entries, sorted from most-recently-used to least": although a      *)
(* group read can insert second copies of blocks that are already cached,    *)
(* the cached blocks are always exactly the most recently used ones, and     *)
(* their first copies are in order of use.                                   *)
SortedByRecency ==
    LET n == Cardinality(CachedBlocks)
    IN  /\ {used[k] : k \in 1 .. n} = CachedBlocks
        /\ \A k \in 1 .. n - 1 : position(used[k]) < position(used[k + 1])

(* However the requests interleave with group reads, duplicates and read     *)
(* errors, the last NumEntries / MaxBlocksPerRead different blocks that were *)
(* requested are still cached when the next call starts.                     *)
RetainsRecentRequests ==
    pc = "idle" =>
        \A k \in 1 .. Len(requested) :
            k <= NumEntries \div MaxBlocksPerRead => cached(requested[k])
=============================================================================

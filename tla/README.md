# Verification of ext4-view

TLA+ models, TLC runs and TLAPS proofs for `ext4-view`, a read-only library for
ext2/ext3/ext4 filesystems. The library has one thread of control per call and
never writes; what makes it hard is the state carried between calls (a cache,
iterators, file positions), errors that arrive in the middle of a step, and
on-disk data that may be incomplete or inconsistent.

## The system

| Part | Source | Model |
| --- | --- | --- |
| Loading, superblock, group descriptors, inodes | `src/lib.rs`, `src/superblock.rs`, `src/block_group.rs`, `src/inode.rs` | `Ext4Load` |
| Block reads | `src/lib.rs` | `BlockRead`, over `BlockCache` |
| Block cache | `src/block_cache.rs` | `BlockCache`, `BlockStore` |
| Journal loading | `src/journal.rs`, `src/journal/` | `JournalLoader`, `JournalRecovery` |
| Extent tree | `src/iters/extents.rs` | `Extents` |
| Blocks of a file | `src/iters/file_blocks.rs`, `src/iters/file_blocks/` | `FileBlocks`, over `ExtentsBlocks` and `BlockMap` |
| Open files | `src/file.rs` | `File` |
| Paths, names and their hashes | `src/path.rs`, `src/dir_entry.rs`, `src/dir_entry_hash.rs` | `Path`, `DirEntryHash`, `Names` |
| Path resolution, methods of `Ext4` | `src/resolve.rs`, `src/lib.rs` | `Resolve`, `PathWalk`, `Api` |
| Directories, hash trees | `src/dir*.rs`, `src/iters/read_dir.rs` | `Directory` |
| Test disks, comparison with Linux | `xtask/src/` | `Xtask` |

`Ext4::load` reads the superblock and group descriptors with an empty journal,
then loads the journal. From then on every block read maps its index through the
journal and goes through the cache. Iterators walk an inode's blocks, `File`
turns them into bytes, and path resolution walks directories. The `xtask` tool
makes the disks for the tests and compares the library with a mounted filesystem.

Each module is named for its part, keeps the source's names for state and
helpers, and has one action per step of the code. `MC*` modules hold the
instances for TLC, `*Proofs` modules the proofs. An operator under a comment
that begins "Mistake" is a wrong variant of the definition after it; for every
property of a passing run one of them is known to break it.

## What is modelled and checked

### Loading: runs `load`, `load_panic`

`Ext4Load` has the checks of `Superblock::from_bytes` in their order, one step per
group descriptor, the journal's inode, and `Inode::read` on the loaded
filesystem. An image is what mkfs wrote, whole, damaged in a few fields (with
checksums that no longer match, or that were made to match) or cut short, and any
read may fail. Fields are named values; a checksum is a value that determines its
seed and its data, so collisions are left out. Two groups of six inodes, the
second group partial, with and without 64-bit descriptors, checksums and a
journal; some inodes are not in use, and zero or as their last user left them.
Descriptors never overlap each other, the superblock or a block boundary. A
descriptor is the one of its group and an inode the one asked for, if the image
has metadata checksums or is whole: a damaged superblock moves the descriptors
that are read, a damaged descriptor the inodes, and only a checksum seeded with the
number tells. On a whole image every inode in use can be read. `MaxU32` and
`MaxU64` are scaled down, so that the limits are reached.

`load_panic` shows a disagreement with the repository's README, that invalid data
should never cause panics: the size of group descriptors is not checked, and
64-bit ones declared shorter than 44 bytes make `from_bytes` panic.

### Block reads and the cache: run `reads`

`BlockCache` follows `get_or_insert_blocks`: `Hit`, or `Read`, then one
`InsertBlock` per round of the loop, then `Return`; `ReadError` is a failing
reader that leaves anything in the part of `read_buf` it was given. A failed
assert or unwrap is `pc = "panic"`. The deque is a function on `1 .. NumEntries`,
front first.

`BlockRead` is `read_from_block` over that cache: the journal's mapping, the
checks of the range, the cache under the mapped index, and the copied slice. The
cache is filled while `Ext4::load` runs with an empty journal and is kept when the
journal is installed. Two history variables record the order in which blocks were
used and requested. The run checks that nothing panics, that what was asked for
last stays cached, and that a loaded filesystem implements `BlockStore` over
the recovered disk: no read sees a block that the journal replaces. Five blocks,
six entries and groups of three give eviction, duplicates, a group cut short that
is read (from block 3), and a start that overflows (block 4; `MaxByte`).
A first request for block 0 is answered with the zeros of a placeholder entry, so
`BlockStore` lets it read as either; `File` never asks for it, 0 being a hole there.

### Journal: run `journal`

`JournalLoader` follows `Journal::load` and `BlockMapLoader`, with one action per
kind of block and one per outcome of a tag. Blocks are named by their position
in the journal; a checksum, a magic number or a table size is a flag that says
what the code's check finds.

`JournalRecovery` puts a journal before the loader: either a damaged one (every
pair of final blocks after seven beginnings, under every way a superblock can be
refused), or one that a writer produced until it crashed. The writer is not in
this repository: it is modelled as jbd2 is understood to behave (commit block
last, older log contents left in place, revocation before in-place reuse, a
circular log), and nothing here checks that understanding. Only committed data
is mapped, I/O errors from the start block on are returned, and `load` returns;
after a crash at any point every block reads as of the last commit and the load
does not fail, if the live log does not wrap and no logged block is revoked. An
I/O error before the start block is lost: the blocks are passed over by an
iterator adapter that drops what it skips. Two
blocks, seven log blocks, and three block writes spread over at most three commits
(`MaxWrites`, `MaxSequence`) allow two live transactions, a torn third, and stale
blocks of an earlier pass. A checkpoint empties the whole
log; partial tail updates, escaped data blocks (refused by the loader) and
asynchronous commits are left out.

### Iterators: runs `file_blocks`, `extents`, `block_map_sparse`

`FileBlocks` chooses one of two iterators and passes the calls on to it; the run
checks the properties of both in their composition.
`ExtentsBlocks` has every branch of its `next_impl`, over all lists of up to two
extents, also unordered, overlapping or empty ones, that may end in an error:
one item per block of the file, the right one if the list is valid, and an end.
`Extents` is the depth-first walk with its stack `to_visit` over trees of three
levels with at most one damaged node; `Leaves` says what it should yield.
`BlockMap` has direct to triply indirect blocks, the nested iterators being a
stack, over a map of 15 blocks with up to two holes, an unreadable block, or
blocks that are their own entry. One direct entry and two per block keep all
four levels. Item k is the location of block k, computed from k alone (`FileBlock`:
quotients and remainders), and without an error there is one item per block.

`block_map_sparse` shows a disagreement with what the repository says: a zero in
place of an indirect block is read as block 0, which fails, although zero stands
for a hole.

### Files: run `file`

`File` has `read_bytes` by its outcomes and `seek_to` with its loop over the
iterator as one action. Block size three, files of up to nine bytes with holes,
reads of up to five bytes and seeks from -4 to 5 around the position (bound:
`MaxPosition`) reach every remainder, the end of the file and positions beyond
it. Bytes returned are those at the position, and a file whose iterator has an
item for each block never panics. Positions beyond `i64::MAX` are
left out.

### Paths, names and hashes: run `names`

`Path` has the ways to make a `PathBuf`, `push`, and the iterator over components,
on strings of bytes. A path is checked when it is made and trusted afterwards:
`Components::next` makes names without a check. `DirEntryHash` is half-MD4 and TEA,
a round per step, on words of 32 bits (pairs of 16-bit halves, since TLC's
integers are too small). `Names` composes them: a name that the iterator returned
is hashed. Inputs are all strings of up to two of "/", "." and "a", longer ones,
null bytes, components of 254 to 256 bytes, and the three names in the tests of
`dir_entry_hash.rs`, one of them with bytes above 0x7f, one of 255 bytes. Every
component is a valid name, the components are those of a direct definition, a
push appends components and joins none, and the hashes of those three names are
the ones that the tests took from debugfs. One push (`MaxPushes`) after a construction is enough for the
properties, which relate a path to the one before it; the proofs have no bound.

### Path resolution and the methods of Ext4: run `api`

A path is a sequence of separators and components that the code edits in place.
`PathWalk` is a walk that edits nothing: it keeps the inode it has come to, the names
that lead there and the components ahead. It is deterministic: in which step it
fails, and how, follows from the tree, the path and the limits. `Resolve` implements it, an iteration
being a step of the walk; `Walked` maps the one to the other: the names are the
components before `index`, those ahead the ones after it. At every step the part of
the path before `index` leads to the current inode. The limits are small (3
symlinks, 12 bytes, 8 iterations), so that each is reached. A symlink's target may
be empty or no path at all (a null byte), which is an error when it is followed. With
`ExcludeFinalComponent`, a separator after a final symlink does not make it be
followed, unlike in Linux; a test in `resolve.rs` expects this, and the walk does the
same. Failing reads of inodes are left out.

`Api` has the nine methods that take a path. A client makes a call, and then one
more on the path that `canonicalize` returned or on the path of an entry that
`read_dir` listed. Canonical paths are fixed points and no symlinks, and the path
of an entry leads to that entry, through whatever symlinks, ".." and trailing
separators the directory was named; that call may fail with `PathTooLong` or at the
limit on iterations where the first did not, since the name makes the path longer.
There are 48 trees. Contents of files are classes (text, binary,
not addressable); the bytes are the subject of `File`.

### Directories: run `directory`

`Directory` has the iterator `ReadDir`, the linear lookup, and the lookup through
a hash tree down to the rounds of the binary search. A block has the records and
the node that its bytes are read as, and the set of block types for which its
checksum is right, since the code infers the type from the contents. What lies
at byte 12 of the first block, where ".." is expected, is separate from its
second record. Trees of one and two levels of nodes, plain directories, and a
tree damaged in one place, also one with cycles or with the first block as a
child: entries come from blocks with a right checksum, the list is complete, a
lookup agrees with the list, and both end. In the trees that a lookup must agree on
(`WellFormed`) names of equal hash are in one leaf: ext4 lets them go on in the next
leaf, where the code does not look, so that such a name is listed but not found.
A child block beyond the directory's size is an error; the hash of a name is a
constant; reading the inode that an entry names is left out.

### The xtask tool: run `xtask`

`Xtask` runs `create-test-data` or `diff-walk` step by step. Each external command
may fail. A failing step drops the live guards (`Mount`, `DmDevice`, `LoopDevice`,
a temporary directory), last one first, and drops ignore errors. A resource can
be released only when nothing is stacked on it, and a umount waits while its
device is suspended; these are facts of Linux, marked external. The listings
that the two walks of `diff-walk` yield are any of a small set; an entry is printed
as its path, mode and owner, and content, joined by spaces, and a text is split at
newlines. What remains in the system after a run is there because its release was
refused. Compressed disks are unmounted and complete, but for two: writes to the
one with a journal are dropped from `resume` on, so it may lack files, but its log
has the blocks that are wanted; and the ext3 disk's unmount is left to a drop, and
may have been refused. `diff-walk` reports success only on equal texts, which are
equal listings if no path or target has a space in it. A run ends, with at
most ten attempts at a journal, unless `dmsetup load` or `resume` fails and
leaves the device suspended. A second run (`MaxRuns`) meets the files of the first.

### Fairness

The liveness properties (`RecoveryEnds`, `IterationEnds`, `LookupReturns`, `Finishes`)
assume weak fairness of the step as a whole. Inside a
call this is the program running: it waits for nothing but its reader. Between
the calls of an iterator it is the caller going on to the end. In `RecoveryEnds`
it is the loader's steps only: nothing makes the writer go on or crash. In
`Finishes` it is that commands return, all but the umount of a suspended device.
`IterationEnds` of `Extents` is about trees in which a child is one level below its
parent; `MCExtentsCycle.cfg` shows why.

### Further invariants

The modules define some invariants that no run lists, because they follow from
the shape of the model or explain a property that a run does list: `TypeOK` of
`Extents`, `BlockMap`, `File`, `Resolve` and `Directory`, `Coherent`, `SortedByRecency`,
`StackFollowsDepth`, `InSync` and `SearchInv`. TLC
confirms them on the same instances when they are added to the configuration.

## Configurations outside the regular runs

These configurations are not among the runs of `PROJECT.json`. Each is expected to
end in a violation of its one invariant; for example
`tlc -config MCFileRetry.cfg MCFile`.

| Configuration | Module | Invariant | What it shows |
| --- | --- | --- | --- |
| `MCExtentsCycle` | `MCExtents` | `AtMostMaxDepth` | The depth of a child is not compared with its parent's, so an inner node that is its own child is pushed without end. |
| `MCResolveLong` | `MCApi` | `NoPanic` | With the limits of the code, 1001 components `.` are 2002 bytes and fail the assertion that a comment calls unreachable. TLC needs a larger stack for it: `JAVA_TOOL_OPTIONS=-Xss256m`. |
| `MCXtaskRaw` | `MCXtask` | `RawIsSuperblock` | If a run fails while it makes `raw_superblock.bin`, the next run keeps the file as it is. |
| `MCJournalRevoke` | `MCJournal` | `RecoversCommitted` | With a revoked block in the log, its old copy is read. Depends on the external writer. |
| `MCJournalWrap` | `MCJournal` | `RecoversCommitted` | With a log that wraps, a committed transaction is lost. Depends on the external writer. |
| `MCBlockMapLarge` | `MCBlockMap` | `AlwaysOneMoreBlock` | For a file larger than its map can hold the iterator ends early without an error; an unwrap in `File::read_bytes` relies on one more block. |
| `MCFileRetry` | `MCFile` | `NoPanic` | Reading on after the block iterator failed hits an unwrap. |
| `MCDirectoryCount` | `MCDirectory` | `NoPanic` | The count of a node is used to slice the block for its checksum before it is checked. |

## What is proved

* `BlockReadProofs`. The cache, for all sizes `with_opts` accepts: types, no
  panic, coherence, and, if block 0 is not requested, that answers come from the
  disk and the cache implements `BlockStore`. The inductive invariant adds the loop
  invariant `GroupInv` to types and coherence: without it nothing relates
  `read_buf` to the disk between the read and the last insertion. Block reads, for
  all journals, cache sizes and block sizes: no panic, and reads of a loaded
  filesystem implement `BlockStore` over the recovered disk. Every step of
  `BlockRead` is a step of `BlockCache` or leaves it alone, so the cache's invariant
  carries over; what is added relates the read in progress to the block being
  inserted (`CallInv`). And recency: the blocks requested last, as many different
  ones as whole groups fit the deque, are cached when a call begins. The invariant
  (`RecencyInv`) bounds how far back in the deque a requested block can be by the
  number of groups read since, the blocks of a group in progress included, and
  says that a group is read only for a block that is already far back.
* `JournalProofs`. The loader, for every journal of any length: types, `CollectInv`,
  `OnlyCommitted`, and that a load that succeeds has met no I/O error from the start
  block on. `OnlyCommitted` alone is not inductive: at a commit block it needs what
  the transaction collected (`CollectInv`), which needs the iterator to be aligned
  with the tags and not before the start block (`PhaseInv`). For the I/O errors,
  `IoInv` says that the blocks between the start and the iterator hold none. Then
  the loader on what the writer left, for any number of blocks, transactions,
  checkpoints and remounts, log blocks and moments of a crash, if the log does not
  wrap and no logged block is revoked (`~ WrapLog`, `~ RevokeLoggedBlocks`, which the
  theorems assume; `MCJournalWrap` and `MCJournalRevoke` show the other cases): every
  block reads as of the last commit, and the load does not fail. The invariant has
  a part for the writer (`WriterInv`): where the live log is (`Placed`), that all
  blocks are whole and stale commit blocks older than the next transaction
  (`Written`), that the live log is a chain of transactions with consecutive
  sequence numbers (`Chained`), and that the newest copy in the log, or else the
  home block, is the committed contents (`UpToDate`). The part for the loader
  (`LoaderInv`) says that what it has mapped is the newest copy before the place it
  has come to, or that it is past the live log and maps nothing more.
* `Ext4LoadProofs`, for every image, with any block size, groups, descriptor and
  inode sizes: descriptors
  do not overlap each other, a block boundary, the boot sector or the superblock;
  a descriptor is the one of its group and an inode the one asked for; and on an image as mkfs writes it (`Intact`, which
  says what that is field by field) `load` accepts the superblock, finds every
  descriptor, and reads every inode in use. The invariant says that the
  superblock is the image's and was accepted (`SbInv`), and that the descriptors
  read so far are the image's, in order (`DescriptorsInv`); the rest is arithmetic
  about places.
* `DirectoryProofs`, for every directory, damaged or not: entries come from blocks
  with a right checksum, and `ReadDir` lists all entries in order. For every plain
  directory and every well-formed hash tree of any depth and width, a lookup agrees
  with the list. That a lookup which finds nothing is right needs the bisection's
  invariant in each node (`SearchInv`: what is left of the range is not above the
  hash, what is right of it is), and that the lookup is on every way through the
  tree that leads to an entry of the name (`WayInv`).
* `ApiProofs`, for all trees, paths and limits: `resolve_path` implements `PathWalk`,
  which leaves no choice, the part of the path before `index` leads to the current
  inode, only the limit on
  iterations makes it panic, and a canonical path is a fixed point of every
  method, within the limits, and no symlink. The first half is about text: a path
  without repeated separators alternates between separators and components, and
  each edit (a cut, a splice, deduplication) is an edit of the list of components.
  `ResolveInv` adds to the types where the loop stands (`Running`) and what it came
  to (`Settled`); each step keeps it and is a step of the walk. A call on a
  canonical path enters one directory after the other (`Goes`): nothing else is
  enabled. Trees are any with entries that lead to inodes, the root as its own
  parent, and ".." entries that lead to the directory a directory is in (`IsTree`);
  without the last one "path" and "inode" do part at "..".
* `ExtentsBlocksProofs`, for every list of extents: types, one item per
  block or an error, and on valid lists the right block. The invariant relates the
  current extent and the block within it to the number of items yielded.
* `BlockMapProofs`, for every number of direct entries and of entries in a block and
  every map, also with unreadable blocks or cycles: types, and `YieldsMappedBlocks`. The
  invariant (`MapInv`) says that the stack of open blocks is the way down to the
  place of the iterator (`StackInv`), and that the number of items is the number of
  file blocks before that place (`CountInv`, a sum of products); that the entry taken
  next is the one `FileBlock` finds then rests on a lemma about quotients and
  remainders (`DivMod`).
* `FileProofs`, for every block size, every file and every list of items its
  iterator may yield: reads return the bytes of the file at their position, and
  `read_bytes` does not panic if there is an item for each block. Neither is
  inductive: what a read returns depends on the iterator being at the block of the
  position after any mixture of reads, failed reads and seeks (`Sync`), and that
  the iterator is not used up before the end of the file (`NotPastEnd`).
  The second half of the module is about `Path` (`PathSpec`), for every limit on
  components and all inputs. Paths stay valid however they are made and extended,
  and every component that the iterator returns is a valid name; this needs that
  the iterator's offset is always at a boundary of components (`AtBoundary`), so
  that a component is a whole one of the path that was checked. The iterator
  returns the components of the definition `Split`: its invariant (`IterInv`) says
  that the number of items is that of the components that start up to the offset,
  with the root of an absolute path, so that the item returned next is the one of
  the next rank. A push appends: a separator at the end starts no component
  (`SeparatorSplitsNothing`), and behind one the components of the argument start
  at the same places, moved by the length of the path (`StartsOfJoin`).
  The run `names` checks these properties in `Names`, each step of which is a step of
  `Path` or leaves the variables of `Path` alone.

The assumptions are the named `ASSUME`s of the modules. Where a proof is by
induction over a sequence (recency, paths, hash trees), it goes through a fact
about sets, the least-number principle (`LeastNat`, `LeastElement`) or `Induction` in
`ApiProofs`, since the library's induction rules take operators that the provers
cannot instantiate; a recursive function is shown to exist by the same means
(`Recursion` in `ApiProofs`) before its equations are used.

Only model-checked: liveness, which is out of the prover's reach; what is compared
with a RECURSIVE reference (`Leaves` in `Extents`) or built on bitwise operators
(`DirEntryHash`, and with it the hashes in `Names`); `Xtask`; and `EntryPathsLeadToEntries`, which
relates the whole of one resolution to the whole of another.

## Not modelled

* Messages and conversions of errors, labels, UUIDs, metadata accessors and other
  formatting: data without state.
* Byte layouts and CRC32C: fields are named values. A wrong offset in a parser
  would not be found here; the repository's tests on real images cover them.
* Memory, such as a buffer sized by a field of the superblock.
* In `xtask`: the files written to the test disks, the recursion of the two walks,
  `download-big-filesystems` and `bench`.
* Several threads: `Ext4` is an `Rc` over a `RefCell` and cannot be shared.

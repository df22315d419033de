------------------------------ MODULE Ext4Load ------------------------------
(***************************************************************************)
(* Loading a filesystem and finding inodes in it: Ext4::load (src/lib.rs), *)
(* Superblock::from_bytes (src/superblock.rs), the block group descriptors *)
(* (src/block_group.rs) and Inode::read (src/inode.rs).                    *)
(*                                                                         *)
(* An image is what mkfs once wrote, possibly damaged since.  It holds the *)
(* raw superblock, one descriptor per group and the inodes, at the places  *)
(* where the ext4 layout puts them; every other byte is zero.  Sizes and   *)
(* positions are in bytes, as in the code.  A checksum is a value that     *)
(* determines its seed and its data (a CRC without collisions).            *)
(***************************************************************************)
EXTENDS Integers, Sequences, FiniteSets

CONSTANTS Images,     \* possible images, see IsImage below
          Inodes,     \* inode numbers that are read from a loaded filesystem
          MaxU32,     \* u32::MAX and u64::MAX, scaled
          MaxU64,
          None

ASSUME LoadAssumption ==
    /\ Inodes \subseteq Nat \ {0}
    /\ MaxU32 \in Nat /\ MaxU64 \in Nat /\ 2 < MaxU32 /\ MaxU32 <= MaxU64
    /\ None \notin Nat

VARIABLES image,        \* the image behind the reader
          pc,           \* "superblock", "descriptors", "journal", "ready",
                        \* "error" or "panic"
          error,        \* the error that Ext4::load returned
          sb,           \* Superblock
          descriptors,  \* block_group_descriptors
          asked,        \* the inode last asked for
          inode         \* what Inode::read returned for it

vars == <<image, pc, error, sb, descriptors, asked, inode>>

-----------------------------------------------------------------------------
(* Checksum::with_seed, update and finalize. *)
Checksum(seed, data) == <<seed, data>>

(* The checksum field of bytes that are all zero. *)
Zeros == Checksum("0", <<>>)

DivCeil(a, b) == (a + b - 1) \div b

(* The first of a sequence of checks that fails, in the order in which the *)
(* code makes them; a check is only evaluated if those before it passed.   *)
FirstFailure(checks, Fails(_)) ==
    LET First(i) == /\ \A j \in 1 .. i - 1 : ~ Fails(checks[j])
                    /\ Fails(checks[i])
    IN  IF \E i \in DOMAIN checks : First(i)
        THEN checks[CHOOSE i \in DOMAIN checks : First(i)] ELSE None

(* Ext4Read::read gets exactly the bytes asked for, or fails; a read that  *)
(* the storage could serve may fail all the same.                          *)
Readable(start, len) == start + len <= image.len

-----------------------------------------------------------------------------
(* features.rs *)
Required == {"FILE_TYPE_IN_DIR_ENTRY"}
Disallowed == {"COMPRESSION", "SEPARATE_JOURNAL_DEVICE", "META_BLOCK_GROUPS",
               "MULTIPLE_MOUNT_PROTECTION", "DATA_IN_DIR_ENTRY",
               "LARGE_EXTENDED_ATTRIBUTES_IN_INODES", "LARGE_DIRECTORIES",
               "DATA_IN_INODE"}
IncompatibleFeatures ==
    Required \cup Disallowed \cup
    {"RECOVERY", "EXTENTS", "IS_64BIT", "FLEXIBLE_BLOCK_GROUPS",
     "CHECKSUM_SEED_IN_SUPERBLOCK", "ENCRYPTED_INODES"}

SUPERBLOCK_START == 1024
SIZE_IN_BYTES_ON_DISK == 1024

(* BlockSize::from_superblock_value, where it is Some *)
block_size(f) == 2 ^ (f.log_block_size + 10)

(* Mistake: division that rounds down. *)
num_block_groups_floor(f) ==
    (f.blocks_count - f.first_data_block) \div f.blocks_per_group

num_block_groups(f) ==
    DivCeil(f.blocks_count - f.first_data_block, f.blocks_per_group)

NeedsRecovery(f) == "HAS_JOURNAL" \in f.compat /\ "RECOVERY" \in f.incompat

superblockChecks ==
    <<"InvalidBlockSize", "SuperblockMagic", "UnknownFeatures",
      "MissingRequiredFeatures", "DisallowedFeatures", "FirstDataBlock",
      "BlocksPerGroup", "TooManyBlockGroups", "InodesPerBlockGroup",
      "InodeSize", "JournalInode", "SuperblockChecksum">>

(* The early returns of Superblock::from_bytes and check_incompat_features. *)
SuperblockFails(raw, check) ==
    LET f == raw.fields IN
    CASE check = "InvalidBlockSize"        -> f.log_block_size + 10 >= 32
      [] check = "SuperblockMagic"         -> f.magic # "0xef53"
      [] check = "UnknownFeatures"         -> ~ f.incompat \subseteq
                                                 IncompatibleFeatures
      [] check = "MissingRequiredFeatures" -> ~ Required \subseteq f.incompat
      [] check = "DisallowedFeatures"      -> f.incompat \cap Disallowed # {}
      [] check = "FirstDataBlock"          -> f.blocks_count < f.first_data_block
      [] check = "BlocksPerGroup"          -> f.blocks_per_group = 0
      [] check = "TooManyBlockGroups"      -> num_block_groups(f) > MaxU32
      [] check = "InodesPerBlockGroup"     -> f.inodes_per_group = 0
      [] check = "InodeSize"               -> f.inode_size > block_size(f)
      [] check = "JournalInode"            -> NeedsRecovery(f) /\ f.journal_inum = 0
      [] check = "SuperblockChecksum"      -> /\ "METADATA_CHECKSUMS" \in f.ro_compat
                                              /\ raw.checksum # Checksum("~0", f)

(* CacheOpts::new: the number of entries and of blocks per group read. *)
cache_opts(bs) ==
    LET n == IF 8 * 4096 < bs THEN 1 ELSE (8 * 4096) \div bs
    IN  [max_blocks_per_read |-> n, num_entries |-> 8 * n]

(* The Superblock of a raw superblock that passes every check. *)
superblock(f) ==
    [block_size   |-> block_size(f),
     blocks_count |-> f.blocks_count,
     inode_size   |-> f.inode_size,
     inodes_per_block_group |-> f.inodes_per_group,
     block_group_descriptor_size |->
        IF "IS_64BIT" \in f.incompat THEN f.desc_size ELSE 32,
     num_block_groups   |-> num_block_groups(f),
     is_64bit           |-> "IS_64BIT" \in f.incompat,
     metadata_checksums |-> "METADATA_CHECKSUMS" \in f.ro_compat,
     checksum_seed |-> IF "CHECKSUM_SEED_IN_SUPERBLOCK" \in f.incompat
                       THEN f.checksum_seed ELSE f.uuid,
     journal_inode |-> IF NeedsRecovery(f) THEN f.journal_inum ELSE None]

-----------------------------------------------------------------------------
(* The ext4 layout, as mkfs wrote it: the descriptors follow the block that *)
(* holds the superblock, and every group has its table of inodes.           *)
DescriptorPlace(m, i) ==
    LET l == m.layout
    IN  (SUPERBLOCK_START \div l.block_size + 1) * l.block_size
        + i * l.desc_size

InodePlace(m, n) ==
    LET l == m.layout
        group == (n - 1) \div l.inodes_per_group
    IN  l.tables[group + 1] * l.block_size
        + ((n - 1) % l.inodes_per_group) * l.inode_size

StoredInodes(m) == 1 .. Len(m.layout.tables) * m.layout.inodes_per_group

(* The descriptor, and the inode of a given size, found at a byte. *)
DescriptorAt(start) ==
    LET here == {i \in 1 .. Len(image.descriptors) :
                    DescriptorPlace(image, i - 1) = start}
    IN  IF here = {} THEN [inode_table |-> 0, checksum |-> Zeros]
        ELSE image.descriptors[CHOOSE i \in here : TRUE]

ZeroInode == [number |-> 0, mode |-> "0", size |-> 0, checksum |-> Zeros]

InodeAt(start) ==
    LET here == {n \in StoredInodes(image) : InodePlace(image, n) = start}
    IN  IF here = {} THEN ZeroInode ELSE image.inodes[CHOOSE n \in here : TRUE]

(* Any image: its numbers are numbers, and the checksum of a descriptor or *)
(* of a stored inode is the one that was once computed for it, if any.     *)
IsImage(m) ==
    LET f == m.raw.fields IN
    /\ {f.log_block_size, f.first_data_block, f.blocks_count, f.blocks_per_group,
        f.inodes_per_group, f.desc_size, f.inode_size, f.journal_inum, m.len,
        Len(m.layout.tables), Len(m.descriptors), m.layout.inodes_per_group}
           \subseteq Nat
    /\ \A g \in 1 .. Len(m.descriptors) :
          \/ m.descriptors[g].checksum = Zeros
          \/ /\ g <= Len(m.layout.tables)
             /\ m.descriptors[g].checksum[2] =
                   <<g - 1, m.layout.tables[g], m.layout.desc_size>>
    /\ \A n \in StoredInodes(m) :
          /\ m.inodes[n].number \in Nat /\ m.inodes[n].size \in Nat
          /\ \/ m.inodes[n].checksum = Zeros
             \/ m.inodes[n].checksum[2][1] = m.inodes[n].number

(* An image as mkfs wrote it and nothing damaged it. *)
FieldsFit(f) ==
    /\ f.magic = "0xef53"
    /\ Required \subseteq f.incompat
    /\ f.incompat \subseteq IncompatibleFeatures \ Disallowed
    /\ f.log_block_size <= 21

GroupsFit(m) ==
    LET f == m.raw.fields
        groups == Len(m.layout.tables)
        blocks == f.blocks_count - f.first_data_block
    IN  /\ 0 < blocks /\ 0 < f.blocks_per_group
        /\ groups \in 1 .. MaxU32
        /\ (groups - 1) * f.blocks_per_group < blocks
        /\ blocks <= groups * f.blocks_per_group

LayoutFits(m) ==
    LET f == m.raw.fields
        l == m.layout
        sums == "METADATA_CHECKSUMS" \in f.ro_compat
    IN  /\ l.block_size = 1024 * 2 ^ f.log_block_size
        /\ l.desc_size = IF "IS_64BIT" \in f.incompat THEN f.desc_size ELSE 32
        /\ "IS_64BIT" \in f.incompat => l.desc_size = 64
        /\ l.inode_size = f.inode_size /\ l.inodes_per_group = f.inodes_per_group
        /\ 128 <= l.inode_size /\ (sums => 132 <= l.inode_size)
        /\ l.inode_size <= l.block_size /\ l.block_size % l.inode_size = 0
        /\ 0 < l.inodes_per_group
        /\ m.len = f.blocks_count * l.block_size /\ m.len <= MaxU64

(* The tables of inodes lie in the filesystem and do not overlap. *)
TablesFit(m) ==
    LET l == m.layout IN
    /\ \A g \in 1 .. Len(l.tables) :
          /\ l.tables[g] \in Nat \ {0}
          /\ l.tables[g] * l.block_size + l.inodes_per_group * l.inode_size <= m.len
    /\ \A n, k \in StoredInodes(m) : InodePlace(m, n) = InodePlace(m, k) => n = k

(* Inodes that are not in use are zero or as their last user left them. *)
ContentsFit(m) ==
    LET f == m.raw.fields
        l == m.layout
        Sum(seed, checksum, data) ==
            "METADATA_CHECKSUMS" \in f.ro_compat => checksum = Checksum(seed, data)
        seed == IF "CHECKSUM_SEED_IN_SUPERBLOCK" \in f.incompat
                THEN f.checksum_seed ELSE f.uuid
    IN  /\ Sum("~0", m.raw.checksum, f)
        /\ Len(m.descriptors) = Len(l.tables)
        /\ \A g \in 1 .. Len(l.tables) :
              LET d == m.descriptors[g]
              IN  /\ d.inode_table = l.tables[g]
                  /\ Sum(seed, d.checksum, <<g - 1, l.tables[g], l.desc_size>>)
        /\ \A n \in StoredInodes(m) :
              m.inodes[n].number = n \/ m.inodes[n] = ZeroInode
        /\ m.used \subseteq StoredInodes(m)
        /\ \A n \in m.used :
              LET i == m.inodes[n]
              IN  /\ i.mode \in {"Fifo", "CharacterDevice", "Directory", "BlockDevice",
                                 "Regular", "Symlink", "Socket"}
                  /\ i.size <= MaxU32 * l.block_size
                  /\ Sum(seed, i.checksum, <<n, i.mode, i.size, l.inode_size>>)
        /\ "HAS_JOURNAL" \in f.compat /\ "RECOVERY" \in f.incompat
              => f.journal_inum \in m.used

Intact(m) ==
    /\ FieldsFit(m.raw.fields)
    /\ GroupsFit(m) /\ LayoutFits(m) /\ TablesFit(m) /\ ContentsFit(m)

ASSUME ImagesAssumption == \A m \in Images : IsImage(m)

-----------------------------------------------------------------------------
(* Mistake: the descriptors are always looked for in block 1. *)
get_start_byte_block_1(i) ==
    LET size == sb.block_group_descriptor_size
        per_block == IF size = 0 THEN 0 ELSE sb.block_size \div size
    IN  IF per_block = 0 THEN None
        ELSE (1 + i \div per_block) * sb.block_size + (i % per_block) * size

(* BlockGroupDescriptor::get_start_byte.  A u32 block times a u32 block    *)
(* size always fits a u64.                                                 *)
get_start_byte(i) ==
    LET size == sb.block_group_descriptor_size
        start_block == IF sb.block_size = 1024 THEN 2 ELSE 1
        per_block == IF size = 0 THEN 0 ELSE sb.block_size \div size
    IN  IF per_block = 0 \/ start_block + i \div per_block > MaxU32 THEN None
        ELSE (start_block + i \div per_block) * sb.block_size
             + (i % per_block) * size

(* BlockGroupDescriptor::from_bytes reads a u32 at 0x8, a u16 at 0x1e and,  *)
(* with 64-bit descriptors, a u32 at 0x28; each read panics past the end.   *)
descriptor_too_short ==
    \/ sb.block_group_descriptor_size < 32
    \/ sb.is_64bit /\ sb.block_group_descriptor_size < 44

descriptor_checksum(i, d) ==
    Checksum(sb.checksum_seed,
             <<i, d.inode_table, sb.block_group_descriptor_size>>)

-----------------------------------------------------------------------------
(* get_inode_location *)
group_of(n) == (n - 1) \div sb.inodes_per_block_group
offset_of_group(n) == sb.block_size * descriptors[group_of(n) + 1].inode_table
offset_within_group(n) ==
    ((n - 1) % sb.inodes_per_block_group) * sb.inode_size
start_byte(n) == offset_of_group(n) + offset_within_group(n)

(* The checks of read_from_block for the bytes of an inode. *)
inode_in_bounds(start) ==
    LET block_index == start \div sb.block_size
        offset_within_block == start % sb.block_size
    IN  /\ ~ (block_index = 0 /\ offset_within_block < 1024)
        /\ block_index < sb.blocks_count
        /\ offset_within_block + sb.inode_size <= sb.block_size

(* FileType::try_from: S_IFIFO, S_IFCHR, ... without the permission bits *)
FileTypes == {"Fifo", "CharacterDevice", "Directory", "BlockDevice",
              "Regular", "Symlink", "Socket"}

file_size_in_blocks(i) == DivCeil(i.size, sb.block_size)

inode_checksum(n, i) ==
    Checksum(sb.checksum_seed, <<n, i.mode, i.size, sb.inode_size>>)

inodeChecks ==
    <<"InodeBlockGroup", "InodeLocation", "BlockRead", "Io",
      "InodeTruncated", "TooManyBlocksInFile", "InodeFileType",
      "InodeChecksum">>

(* Mistake: the checksum of the inode is computed but not compared. *)
InodeFailsUnchecked(n, check) ==
    LET i == InodeAt(start_byte(n)) IN
    CASE check = "InodeBlockGroup" -> group_of(n) >= Len(descriptors)
      [] check = "InodeLocation"   -> start_byte(n) > MaxU64
      [] check = "BlockRead"       -> ~ inode_in_bounds(start_byte(n))
      [] check = "Io"              -> ~ Readable(start_byte(n), sb.inode_size)
      [] check = "InodeTruncated"  -> sb.inode_size < 128
      [] check = "TooManyBlocksInFile" -> file_size_in_blocks(i) > MaxU32
      [] check = "InodeFileType"   -> i.mode \notin FileTypes
      [] check = "InodeChecksum"   -> FALSE

(* The early returns of Inode::read, get_inode_location and from_bytes. *)
InodeFails(n, check) ==
    LET i == InodeAt(start_byte(n)) IN
    CASE check = "InodeBlockGroup" -> group_of(n) >= Len(descriptors)
      [] check = "InodeLocation"   -> start_byte(n) > MaxU64
      [] check = "BlockRead"       -> ~ inode_in_bounds(start_byte(n))
      [] check = "Io"              -> ~ Readable(start_byte(n), sb.inode_size)
      [] check = "InodeTruncated"  -> \/ sb.inode_size < 128
                                      \/ /\ sb.metadata_checksums
                                         /\ sb.inode_size < 132
      [] check = "TooManyBlocksInFile" -> file_size_in_blocks(i) > MaxU32
      [] check = "InodeFileType"   -> i.mode \notin FileTypes
      [] check = "InodeChecksum"   -> /\ sb.metadata_checksums
                                      /\ i.checksum # inode_checksum(n, i)

(* None is no error. *)
ASSUME NoneAssumption ==
    /\ \A k \in DOMAIN superblockChecks : superblockChecks[k] # None
    /\ \A k \in DOMAIN inodeChecks : inodeChecks[k] # None

InodeFailure(n) == FirstFailure(inodeChecks, LAMBDA c : InodeFails(n, c))

(* What Inode::read may return: the reader may also fail on its own, once  *)
(* it is asked.                                                            *)
InodeRead(n) ==
    LET e == InodeFailure(n)
        asksReader == e \notin {"InodeBlockGroup", "InodeLocation", "BlockRead"}
    IN  {IF e = None THEN [ok |-> TRUE, inode |-> InodeAt(start_byte(n))]
         ELSE [ok |-> FALSE, error |-> e]}
        \cup (IF asksReader THEN {[ok |-> FALSE, error |-> "Io"]} ELSE {})

-----------------------------------------------------------------------------
Init ==
    /\ image \in Images
    /\ pc = "superblock"
    /\ error = None /\ sb = None /\ asked = None /\ inode = None
    /\ descriptors = <<>>

Fail(e) ==
    /\ pc' = "error" /\ error' = e
    /\ UNCHANGED <<image, sb, descriptors, asked, inode>>

Ready ==
    /\ pc' = "ready"
    /\ UNCHANGED <<image, error, sb, descriptors, asked, inode>>

Panic ==
    /\ pc' = "panic"
    /\ UNCHANGED <<image, error, sb, descriptors, asked, inode>>

SuperblockFailure ==
    FirstFailure(superblockChecks, LAMBDA c : SuperblockFails(image.raw, c))

(* The superblock cannot be read, or from_bytes rejects it. *)
LoadSuperblockFails ==
    /\ pc = "superblock"
    /\ \/ Fail("Io")
       \/ /\ Readable(SUPERBLOCK_START, SIZE_IN_BYTES_ON_DISK)
          /\ SuperblockFailure # None
          /\ Fail(SuperblockFailure)

(* The superblock is accepted; the cache is created with options that pass *)
(* the assert of BlockCache::with_opts.                                    *)
LoadSuperblock ==
    /\ pc = "superblock"
    /\ Readable(SUPERBLOCK_START, SIZE_IN_BYTES_ON_DISK)
    /\ SuperblockFailure = None
    /\ sb' = superblock(image.raw.fields)
    /\ LET opts == cache_opts(sb'.block_size)
       IN  pc' = IF opts.max_blocks_per_read <= opts.num_entries
                 THEN "descriptors" ELSE "panic"
    /\ UNCHANGED <<image, error, descriptors, asked, inode>>

(* Mistake: the checksum of a descriptor is not compared. *)
ReadDescriptorUnchecked ==
    /\ pc = "descriptors"
    /\ Len(descriptors) < sb.num_block_groups
    /\ LET start == get_start_byte(Len(descriptors))
       IN  /\ start # None
           /\ Readable(start, sb.block_group_descriptor_size)
           /\ ~ descriptor_too_short
           /\ descriptors' = Append(descriptors, DescriptorAt(start))
    /\ UNCHANGED <<image, pc, error, sb, asked, inode>>

(* One round of the loop of BlockGroupDescriptor::read_all. *)
ReadDescriptor ==
    /\ pc = "descriptors"
    /\ Len(descriptors) < sb.num_block_groups
    /\ LET i == Len(descriptors)
           start == get_start_byte(i)
           d == DescriptorAt(start)
       IN  \/ start = None /\ Fail("BlockGroupDescriptor")
           \/ start # None /\ Fail("Io")
           \/ /\ start # None
              /\ Readable(start, sb.block_group_descriptor_size)
              /\ \/ descriptor_too_short /\ Panic
                 \/ /\ ~ descriptor_too_short
                    /\ sb.metadata_checksums
                    /\ d.checksum # descriptor_checksum(i, d)
                    /\ Fail("BlockGroupDescriptorChecksum")
                 \/ /\ ~ descriptor_too_short
                    /\ sb.metadata_checksums =>
                          d.checksum = descriptor_checksum(i, d)
                    /\ descriptors' = Append(descriptors, d)
                    /\ UNCHANGED <<image, pc, error, sb, asked, inode>>

(* Every descriptor is read: the filesystem exists, with an empty journal. *)
DescriptorsRead ==
    /\ pc = "descriptors"
    /\ Len(descriptors) = sb.num_block_groups
    /\ pc' = "journal"
    /\ UNCHANGED <<image, error, sb, descriptors, asked, inode>>

(* Journal::load.  Reading the journal once its inode is found is the      *)
(* subject of JournalLoader; here it succeeds or fails.                    *)
LoadJournal ==
    /\ pc = "journal"
    /\ \/ sb.journal_inode = None /\ Ready
       \/ /\ sb.journal_inode # None
          /\ \E r \in InodeRead(sb.journal_inode) :
                IF r.ok THEN Ready \/ Fail("Journal") ELSE Fail(r.error)

(* Inode::read on the loaded filesystem. *)
ReadInode(n) ==
    /\ pc = "ready"
    /\ asked' = n
    /\ inode' \in InodeRead(n)
    /\ UNCHANGED <<image, pc, error, sb, descriptors>>

Load == \/ LoadSuperblockFails \/ LoadSuperblock
        \/ ReadDescriptor \/ DescriptorsRead
        \/ LoadJournal

Next == Load \/ \E n \in Inodes : ReadInode(n)

Spec == Init /\ [][Next]_vars

-----------------------------------------------------------------------------
(* Descriptors as the code reads them never overlap each other, never cross  *)
(* a block boundary, and never overlap the boot sector or the superblock,    *)
(* whatever block and descriptor sizes the superblock declares.              *)
DescriptorsApart ==
    pc = "descriptors" =>
        \A i \in 0 .. sb.num_block_groups - 1 :
            LET size == sb.block_group_descriptor_size
                start == get_start_byte(i)
            IN  start # None =>
                /\ start >= SUPERBLOCK_START + SIZE_IN_BYTES_ON_DISK
                /\ (start % sb.block_size) + size <= sb.block_size
                /\ i > 0 => get_start_byte(i - 1) + size <= start

(* An inode that Inode::read returns is the one that was asked for: on an    *)
(* undamaged image always, and on a damaged one whenever it has metadata     *)
(* checksums, wherever a damaged superblock or descriptor made the code look *)
(* for it.                                                                   *)
InodeIsOwn ==
    /\ inode # None
    /\ inode.ok
    /\ Intact(image) \/ sb.metadata_checksums
    => inode.inode.number = asked

(* "All valid ext2/ext3/ext4 filesystems should be readable" (README.md):    *)
(* neither Ext4::load nor reading any inode in use fails on an undamaged     *)
(* image, in whatever group the inode is, unless the reader or the journal's *)
(* contents make it; and it never panics.                                    *)
IntactIsReadable ==
    Intact(image) =>
        /\ pc # "panic"
        /\ pc = "error" => error \in {"Io", "Journal"}
        /\ inode # None /\ asked \in image.used /\ ~ inode.ok
              => inode.error = "Io"

(* With metadata checksums the descriptor kept for a group is the one that   *)
(* mkfs wrote for it, however a damaged superblock changes the number of     *)
(* groups, their size or the places where descriptors are read.              *)
DescriptorsAreOwn ==
    descriptors # <<>> /\ sb.metadata_checksums =>
        \A i \in 1 .. Len(descriptors) :
            /\ i <= Len(image.layout.tables)
            /\ descriptors[i].inode_table = image.layout.tables[i]

(* "Invalid data should never cause crashes, panics, or non-terminating      *)
(* loops" (README.md): Ext4::load never panics.                              *)
NoPanic == pc # "panic"
=============================================================================

---------------------------- MODULE MCExt4Load ------------------------------
(* Images for TLC: four filesystems as mkfs makes them (1 KiB and 2 KiB    *)
(* blocks, with and without 64-bit descriptors, checksums and a journal to *)
(* recover), each intact, or with one or two fields of the superblock      *)
(* changed and its checksum left alone or made to match, or with a damaged *)
(* descriptor or inode, or cut short.                                      *)
EXTENDS Ext4Load

Plain == {"FILE_TYPE_IN_DIR_ENTRY", "EXTENTS"}

(* Blocks 3-4 and 5-6 hold the inode tables; the second group is partial. *)
MkfsFields(log, is64, sums, journal) ==
    [log_block_size |-> log, magic |-> "0xef53",
     incompat |-> Plain \cup (IF is64 THEN {"IS_64BIT"} ELSE {})
                        \cup (IF sums THEN {"CHECKSUM_SEED_IN_SUPERBLOCK"} ELSE {})
                        \cup (IF journal THEN {"RECOVERY"} ELSE {}),
     ro_compat |-> IF sums THEN {"METADATA_CHECKSUMS"} ELSE {},
     compat |-> IF journal THEN {"HAS_JOURNAL"} ELSE {},
     first_data_block |-> IF log = 0 THEN 1 ELSE 0,
     blocks_count |-> 8, blocks_per_group |-> 5, inodes_per_group |-> 6,
     desc_size |-> IF is64 THEN 64 ELSE 0, inode_size |-> 256,
     journal_inum |-> IF journal THEN 8 ELSE 0,
     checksum_seed |-> "seed", uuid |-> "uuid"]

Mkfs == {MkfsFields(0, FALSE, FALSE, FALSE), MkfsFields(0, TRUE, TRUE, TRUE),
         MkfsFields(1, TRUE, FALSE, TRUE), MkfsFields(1, FALSE, TRUE, FALSE)}

Layout(f) ==
    [block_size |-> block_size(f), tables |-> <<3, 5>>,
     desc_size |-> superblock(f).block_group_descriptor_size,
     inodes_per_group |-> f.inodes_per_group, inode_size |-> f.inode_size]

MkfsChecksum(f, data) ==
    IF superblock(f).metadata_checksums
    THEN Checksum(superblock(f).checksum_seed, data) ELSE Zeros
Descriptor(f, i, table) ==
    [inode_table |-> table, checksum |-> MkfsChecksum(f,
        <<i, table, superblock(f).block_group_descriptor_size>>)]

(* Inodes 3 and 9 were never in use, inode 10 is no longer. *)
Used == 1 .. 12 \ {3, 9, 10}
StoredInode(f, n) ==
    LET mode == IF n = 2 THEN "Directory" ELSE "Regular"
    IN  IF n \in {3, 9} THEN ZeroInode ELSE
        [number |-> n, mode |-> mode, size |-> n * 1000,
         checksum |-> MkfsChecksum(f, <<n, mode, n * 1000, f.inode_size>>)]

Image(f) ==
    [raw |-> [fields |-> f, checksum |-> Checksum("~0", f)],
     layout |-> Layout(f),
     descriptors |-> <<Descriptor(f, 0, 3), Descriptor(f, 1, 5)>>,
     inodes |-> [n \in 1 .. 12 |-> StoredInode(f, n)],
     used |-> Used,
     len |-> 8 * block_size(f)]

Made == [f \in Mkfs |-> Image(f)]

(* Values that a damaged or unusual field of the superblock may have. *)
Values ==
    [log_block_size |-> {0, 1, 22}, magic |-> {"0"},
     incompat |-> {{}, Plain \cup {"IS_64BIT"}, Plain \cup {"0x20000"},
                   Plain \cup {"DATA_IN_INODE"}, Plain \cup {"RECOVERY"}},
     ro_compat |-> {{}, {"METADATA_CHECKSUMS"}}, compat |-> {{}, {"HAS_JOURNAL"}},
     first_data_block |-> {0, 1, 9}, blocks_count |-> {0, 4, 40000},
     blocks_per_group |-> {0, 1, 2}, inodes_per_group |-> {0, 1, 5},
     desc_size |-> {0, 16, 32, 43, 44, 96, 4096},
     inode_size |-> {0, 128, 130, 192, 2048, 4096}, journal_inum |-> {0, 3, 13},
     checksum_seed |-> {"other"}, uuid |-> {"other"}]

(* One field, and possibly also the block size or one of the feature sets. *)
DamagedFields(f) ==
    UNION {{[[f EXCEPT ![a] = v] EXCEPT ![b] = w] :
                v \in Values[a], w \in Values[b]} :
           a \in {"log_block_size", "incompat", "ro_compat"}, b \in DOMAIN Values}

DamagedSuperblock(f) ==
    LET m == Made[f]
    IN  UNION {{[m EXCEPT !.raw = [fields |-> g, checksum |-> c]] :
                   c \in {m.raw.checksum, Checksum("~0", g)}} :
               g \in DamagedFields(f)}

DamagedContents(f) ==
    LET m == Made[f]
    IN  {[m EXCEPT !.descriptors[i].inode_table = t] :
             i \in 1 .. 2, t \in {0, 3, 4, 5, 7, 30}}
        \cup {[m EXCEPT !.inodes[n].mode = "0"] : n \in {2, 8}}
        \cup {[m EXCEPT !.inodes[n].size = 6000 * m.layout.block_size] : n \in {2, 8}}
        \cup {[m EXCEPT !.inodes[4] = m.inodes[5]]}
        \cup {[m EXCEPT !.len = k * m.layout.block_size] : k \in {1, 2, 3, 6}}

MCImages ==
    UNION {{Made[f]} \cup DamagedSuperblock(f) \cup DamagedContents(f) : f \in Mkfs}
=============================================================================

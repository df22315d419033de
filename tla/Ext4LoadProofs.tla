--------------------------- MODULE Ext4LoadProofs ---------------------------
(***************************************************************************)
(* Proofs about loading a filesystem (Ext4Load), for every image: the      *)
(* places of the descriptors, that a descriptor and an inode that are read *)
(* are the ones asked for, and that an image as mkfs wrote it can be read, *)
(* whatever its block size, its groups and its tables of inodes.           *)
(***************************************************************************)
EXTENDS Ext4Load, TLAPS

(* A block size is a multiple of 1024; the provers know a power of two     *)
(* only where the exponent is a number.                                    *)
LEMMA BlockSizeFacts ==
  ASSUME NEW f, f.log_block_size \in 0 .. 21
  PROVE  \E m \in Nat \ {0} : /\ block_size(f) = 1024 * m
                              /\ 1024 * 2 ^ f.log_block_size = 1024 * m
<1>1. PICK k \in 0 .. 21 : k = f.log_block_size
  OBVIOUS
<1>2. SUFFICES \E m \in Nat \ {0} : 2 ^ (k + 10) = 1024 * m /\ 1024 * 2 ^ k = 1024 * m
  BY <1>1 DEF block_size
<1>3. CASE k = 0
  BY <1>3, 2 ^ (k + 10) = 1024 * 1
<1>4. CASE k = 1
  BY <1>4, 2 ^ (k + 10) = 1024 * 2
<1>5. CASE k = 2
  BY <1>5, 2 ^ (k + 10) = 1024 * 4
<1>6. CASE k = 3
  BY <1>6, 2 ^ (k + 10) = 1024 * 8
<1>7. CASE k = 4
  BY <1>7, 2 ^ (k + 10) = 1024 * 16
<1>8. CASE k = 5
  BY <1>8, 2 ^ (k + 10) = 1024 * 32
<1>9. CASE k = 6
  BY <1>9, 2 ^ (k + 10) = 1024 * 64
<1>10. CASE k = 7
  BY <1>10, 2 ^ (k + 10) = 1024 * 128
<1>11. CASE k = 8
  BY <1>11, 2 ^ (k + 10) = 1024 * 256
<1>12. CASE k = 9
  BY <1>12, 2 ^ (k + 10) = 1024 * 512
<1>13. CASE k = 10
  BY <1>13, 2 ^ (k + 10) = 1024 * 1024
<1>14. CASE k = 11
  BY <1>14, 2 ^ (k + 10) = 1024 * 2048
<1>15. CASE k = 12
  BY <1>15, 2 ^ (k + 10) = 1024 * 4096
<1>16. CASE k = 13
  BY <1>16, 2 ^ (k + 10) = 1024 * 8192
<1>17. CASE k = 14
  BY <1>17, 2 ^ (k + 10) = 1024 * 16384
<1>18. CASE k = 15
  BY <1>18, 2 ^ (k + 10) = 1024 * 32768
<1>19. CASE k = 16
  BY <1>19, 2 ^ (k + 10) = 1024 * 65536
<1>20. CASE k = 17
  BY <1>20, 2 ^ (k + 10) = 1024 * 131072
<1>21. CASE k = 18
  BY <1>21, 2 ^ (k + 10) = 1024 * 262144
<1>22. CASE k = 19
  BY <1>22, 2 ^ (k + 10) = 1024 * 524288
<1>23. CASE k = 20
  BY <1>23, 2 ^ (k + 10) = 1024 * 1048576
<1>24. CASE k = 21
  BY <1>24, 2 ^ (k + 10) = 1024 * 2097152
<1> QED
  BY <1>3, <1>4, <1>5, <1>6, <1>7, <1>8, <1>9, <1>10, <1>11, <1>12, <1>13, <1>14, <1>15, <1>16, <1>17, <1>18, <1>19, <1>20, <1>21, <1>22, <1>23, <1>24

LEMMA BlockSizeIs ==
  ASSUME NEW f, f.log_block_size \in 0 .. 21
  PROVE  /\ block_size(f) \in Nat
         /\ block_size(f) = 1024 \/ block_size(f) >= 2048
         /\ block_size(f) % 64 = 0 /\ block_size(f) % 32 = 0
<1>1. PICK m \in Nat \ {0} : block_size(f) = 1024 * m
  BY BlockSizeFacts
<1> QED
  BY <1>1

-----------------------------------------------------------------------------
(* Arithmetic *)
LEMMA DivMod ==
  ASSUME NEW a \in Nat, NEW b \in Nat \ {0}
  PROVE  /\ a \div b \in Nat /\ a % b \in 0 .. b - 1
         /\ a = b * (a \div b) + (a % b)
  OBVIOUS

LEMMA IndexInRange ==
  ASSUME NEW i \in Nat, NEW g \in Nat, i < g
  PROVE  i \in 0 .. g - 1 /\ i + 1 \in 1 .. g
OBVIOUS

LEMMA DivModUnique ==
  ASSUME NEW a \in Nat, NEW b \in Nat \ {0}, NEW q \in Nat, NEW r \in 0 .. b - 1,
         a = b * q + r
  PROVE  a \div b = q /\ a % b = r
  OBVIOUS

LEMMA DivLeq ==
  ASSUME NEW a \in Nat, NEW c \in Nat, NEW b \in Nat \ {0}, a <= c
  PROVE  a \div b <= c \div b
<1>1. PICK q \in Nat, r \in 0 .. b - 1 : a = b * q + r /\ q = a \div b
  BY DivMod
<1>2. PICK s \in Nat, t \in 0 .. b - 1 : c = b * s + t /\ s = c \div b
  BY DivMod
<1>3. CASE s + 1 <= q
  <2>1. b * (s + 1) <= b * q
    BY <1>1, <1>2, <1>3
  <2>2. b * (s + 1) = b * s + b /\ b * s \in Nat /\ b * q \in Nat
    BY <1>1, <1>2
  <2> QED
    BY <1>1, <1>2, <2>1, <2>2
<1> QED
  BY <1>1, <1>2, <1>3

(* Places of things of one size, laid out in blocks that hold `per` each *)
Slot(bs, size, per, i) == (i \div per) * bs + (i % per) * size

(* Something of this size at this place ends within its block. *)
EndsInBlock(bs, size, place) == (place % bs) + size <= bs

LEMMA SlotIsNat ==
  ASSUME NEW bs \in Nat, NEW size \in Nat, NEW per \in Nat \ {0}, NEW i \in Nat
  PROVE  Slot(bs, size, per, i) \in Nat
<1>1. PICK q \in Nat, r \in 0 .. per - 1 : q = i \div per /\ r = i % per
  BY Zenon, DivMod
<1>2. q * bs \in Nat /\ r * size \in Nat
  BY <1>1
<1> QED
  BY <1>1, <1>2 DEF Slot

LEMMA SlotInBlock ==
  ASSUME NEW bs \in Nat \ {0}, NEW size \in Nat \ {0}, NEW per \in Nat \ {0},
         per * size <= bs, NEW i \in Nat, NEW k \in Nat,
         NEW place, place = k * bs + Slot(bs, size, per, i)
  PROVE  EndsInBlock(bs, size, place)
<1>1. PICK q \in Nat, r \in 0 .. per - 1 : q = i \div per /\ r = i % per
  BY Zenon, DivMod
<1>2. Slot(bs, size, per, i) = q * bs + r * size
  BY <1>1 DEF Slot
<1>3. q * bs \in Nat /\ r * size \in Nat /\ k * bs \in Nat /\ per * size \in Nat
  BY <1>1
<1>4. (r + 1) * size <= per * size
  BY <1>1
<1>5. r * size + size <= bs
  BY <1>1, <1>3, <1>4
<1>6. k * bs + (q * bs + r * size) = bs * (k + q) + r * size
  BY <1>1, <1>3
<1>7. r * size \in 0 .. bs - 1
  BY <1>3, <1>5
<1>8. (k * bs + (q * bs + r * size)) % bs = r * size
  <2> DEFINE x == r * size
             y == k + q
             z == k * bs + (q * bs + r * size)
  <2>1. x \in 0 .. bs - 1 /\ y \in Nat /\ z = bs * y + x /\ z \in Nat
    BY <1>1, <1>3, <1>6, <1>7
  <2> HIDE DEF x, y, z
  <2>2. z % bs = x
    BY Zenon, <2>1, DivModUnique
  <2> QED
    BY <2>2 DEF x, z
<1> QED
  BY <1>2, <1>3, <1>5, <1>8 DEF EndsInBlock

(* They do not overlap. *)
LEMMA SlotsApart ==
  ASSUME NEW bs \in Nat \ {0}, NEW size \in Nat \ {0}, NEW per \in Nat \ {0},
         per * size <= bs, NEW i \in Nat \ {0}
  PROVE  Slot(bs, size, per, i - 1) + size <= Slot(bs, size, per, i)
<1>1. PICK q \in Nat, r \in 0 .. per - 1 : q = i \div per /\ r = i % per /\ i = per * q + r
  BY DivMod
<1>2. q * bs \in Nat /\ r * size \in Nat /\ per * size \in Nat /\ per * q \in Nat
  BY <1>1
<1>3. CASE r # 0
  <2>1. i - 1 = per * q + (r - 1) /\ r - 1 \in 0 .. per - 1 /\ i - 1 \in Nat
    BY <1>1, <1>2, <1>3
  <2>2. (i - 1) \div per = q /\ (i - 1) % per = r - 1
    <3> DEFINE j == i - 1
    <3>1. j \in Nat /\ r - 1 \in 0 .. per - 1 /\ j = per * q + (r - 1)
      BY <2>1
    <3> HIDE DEF j
    <3>2. j \div per = q /\ j % per = r - 1
      BY <3>1, DivModUnique
    <3> QED
      BY <3>2 DEF j
  <2>3. (r - 1) * size + size = r * size /\ (r - 1) * size \in Nat
    BY <1>1, <1>3
  <2> QED
    BY <1>1, <1>2, <2>2, <2>3 DEF Slot
<1>4. CASE r = 0
  <2>1. q # 0
    BY <1>1, <1>2, <1>4
  <2>2. i - 1 = per * (q - 1) + (per - 1) /\ q - 1 \in Nat /\ per - 1 \in 0 .. per - 1
        /\ i - 1 \in Nat
    BY <1>1, <1>2, <1>4, <2>1
  <2>3. (i - 1) \div per = q - 1 /\ (i - 1) % per = per - 1
    BY SMTT(60), <2>2, DivModUnique
  <2>4. (per - 1) * size + size = per * size /\ (per - 1) * size \in Nat
        /\ (q - 1) * bs + bs = q * bs /\ (q - 1) * bs \in Nat
    BY <1>1, <2>1
  <2>5. r * size = 0
    BY <1>4
  <2> QED
    BY <1>1, <1>2, <2>3, <2>4, <2>5 DEF Slot
<1> QED
  BY <1>3, <1>4

(* If they fill the blocks, they lie one after the other. *)
LEMMA SlotsFill ==
  ASSUME NEW bs \in Nat \ {0}, NEW size \in Nat \ {0}, NEW per \in Nat \ {0},
         per * size = bs, NEW i \in Nat
  PROVE  Slot(bs, size, per, i) = i * size
<1>1. PICK q \in Nat, r \in 0 .. per - 1 : q = i \div per /\ r = i % per /\ i = per * q + r
  BY DivMod
<1>2. q * bs = (per * q) * size
  BY <1>1
<1>3. (per * q + r) * size = (per * q) * size + r * size
  BY <1>1
<1> QED
  BY <1>1, <1>2, <1>3 DEF Slot

-----------------------------------------------------------------------------
(* Of the positions that are in a set, one is the first. *)
LEMMA NoFirst ==
  ASSUME NEW n \in 0 .. 12, NEW B \in SUBSET (1 .. n),
         \A i \in 1 .. n : ~ (i \in B /\ \A j \in 1 .. i - 1 : j \notin B)
  PROVE  B = {}
<1>1. \A i \in 1 .. n : (\A j \in 1 .. i - 1 : j \notin B) => i \notin B
  OBVIOUS
<1>2. 1 \notin B
  BY <1>1
<1>3. 2 \notin B
  BY <1>1, <1>2
<1>4. 3 \notin B
  BY <1>1, <1>2, <1>3
<1>5. 4 \notin B
  BY <1>1, <1>2, <1>3, <1>4
<1>6. 5 \notin B
  BY <1>1, <1>2, <1>3, <1>4, <1>5
<1>7. 6 \notin B
  BY <1>1, <1>2, <1>3, <1>4, <1>5, <1>6
<1>8. 7 \notin B
  BY <1>1, <1>2, <1>3, <1>4, <1>5, <1>6, <1>7
<1>9. 8 \notin B
  BY <1>1, <1>2, <1>3, <1>4, <1>5, <1>6, <1>7, <1>8
<1>10. 9 \notin B
  BY <1>1, <1>2, <1>3, <1>4, <1>5, <1>6, <1>7, <1>8, <1>9
<1>11. 10 \notin B
  BY <1>1, <1>2, <1>3, <1>4, <1>5, <1>6, <1>7, <1>8, <1>9, <1>10
<1>12. 11 \notin B
  BY <1>1, <1>2, <1>3, <1>4, <1>5, <1>6, <1>7, <1>8, <1>9, <1>10, <1>11
<1>13. 12 \notin B
  BY <1>1, <1>2, <1>3, <1>4, <1>5, <1>6, <1>7, <1>8, <1>9, <1>10, <1>11, <1>12
<1> QED
  BY <1>2, <1>3, <1>4, <1>5, <1>6, <1>7, <1>8, <1>9, <1>10, <1>11, <1>12, <1>13

-----------------------------------------------------------------------------
(* The checks of a superblock *)
LEMMA SuperblockPasses ==
  ASSUME SuperblockFailure = None
  PROVE  \A i \in 1 .. 12 : ~ SuperblockFails(image.raw, superblockChecks[i])
<1> DEFINE B == {i \in 1 .. 12 : SuperblockFails(image.raw, superblockChecks[i])}
           First(i) == /\ \A j \in 1 .. i - 1 : ~ SuperblockFails(image.raw, superblockChecks[j])
                       /\ SuperblockFails(image.raw, superblockChecks[i])
<1>1. DOMAIN superblockChecks = 1 .. 12
  BY DEF superblockChecks
<1>2. \A i \in 1 .. 12 : superblockChecks[i] # None
  BY <1>1, NoneAssumption
<1>3. \A i \in 1 .. 12 : ~ First(i)
  BY <1>1, <1>2 DEF SuperblockFailure, FirstFailure
<1>4. B = {}
  BY <1>3, NoFirst
<1> QED
  BY <1>4

(* What a superblock that passes the checks says. *)
Accepted(f) ==
    /\ f.log_block_size \in 0 .. 21
    /\ f.first_data_block <= f.blocks_count
    /\ 0 < f.blocks_per_group /\ 0 < f.inodes_per_group
    /\ f.inode_size <= block_size(f)

LEMMA PassesAccepted ==
  ASSUME image \in Images, SuperblockFailure = None
  PROVE  Accepted(image.raw.fields)
<1> DEFINE f == image.raw.fields
<1>1. /\ ~ SuperblockFails(image.raw, "InvalidBlockSize")
      /\ ~ SuperblockFails(image.raw, "FirstDataBlock")
      /\ ~ SuperblockFails(image.raw, "BlocksPerGroup")
      /\ ~ SuperblockFails(image.raw, "InodesPerBlockGroup")
      /\ ~ SuperblockFails(image.raw, "InodeSize")
  BY SuperblockPasses DEF superblockChecks
<1>2. /\ f.log_block_size \in Nat /\ f.first_data_block \in Nat /\ f.blocks_count \in Nat
      /\ f.blocks_per_group \in Nat /\ f.inodes_per_group \in Nat /\ f.inode_size \in Nat
  BY ImagesAssumption DEF IsImage
<1>3. block_size(f) \in Nat
  <2>1. f.log_block_size \in 0 .. 21
    BY <1>1, <1>2 DEF SuperblockFails
  <2> QED
    BY <2>1, BlockSizeIs
<1>4. /\ ~ (f.log_block_size + 10 >= 32) /\ ~ (f.blocks_count < f.first_data_block)
      /\ ~ (f.blocks_per_group = 0) /\ ~ (f.inodes_per_group = 0)
      /\ ~ (f.inode_size > block_size(f))
  BY <1>1 DEF SuperblockFails
<1> HIDE DEF f
<1> QED
  BY <1>2, <1>3, <1>4 DEF Accepted, f

-----------------------------------------------------------------------------
(* Once the superblock is accepted it is the one of the image. *)
Loaded == pc \in {"descriptors", "journal", "ready", "panic"}

(* A panic comes from 64-bit descriptors too short for what is read. *)
PanicIsShort == pc = "panic" => sb.is_64bit /\ sb.block_group_descriptor_size < 44

SbInv ==
    /\ image \in Images
    /\ pc \in {"superblock", "descriptors", "journal", "ready", "error", "panic"}
    /\ Loaded => sb = superblock(image.raw.fields) /\ Accepted(image.raw.fields)
    /\ pc # "ready" => inode = None
    /\ PanicIsShort

LEMMA SbInvInit == Init => SbInv
  BY DEF Init, SbInv, Loaded, PanicIsShort

(* The assert of BlockCache::with_opts holds for every block size. *)
LEMMA CacheOptsFit ==
  ASSUME NEW bs \in Nat \ {0}
  PROVE  cache_opts(bs).max_blocks_per_read <= cache_opts(bs).num_entries
<1> DEFINE n == IF 8 * 4096 < bs THEN 1 ELSE (8 * 4096) \div bs
<1>1. n \in Nat
  BY DivMod
<1>2. cache_opts(bs) = [max_blocks_per_read |-> n, num_entries |-> 8 * n]
  BY DEF cache_opts
<1> HIDE DEF n
<1> QED
  BY <1>1, <1>2

LEMMA SbInvStep == SbInv /\ [Next]_vars => SbInv'
<1> SUFFICES ASSUME SbInv, [Next]_vars PROVE SbInv'
  OBVIOUS
<1>1. CASE LoadSuperblockFails
  BY <1>1 DEF LoadSuperblockFails, Fail, SbInv, Loaded, PanicIsShort
<1>2. CASE LoadSuperblock
  <2>1. /\ image' = image /\ inode' = inode /\ pc = "superblock"
        /\ sb' = superblock(image.raw.fields)
    BY <1>2 DEF LoadSuperblock
  <2>2. Accepted(image.raw.fields)
    BY <1>2, PassesAccepted DEF LoadSuperblock, SbInv
  <2>3. sb'.block_size \in Nat \ {0}
    BY <2>1, <2>2, BlockSizeIs DEF superblock, Accepted
  <2>4. pc' = "descriptors"
    BY <1>2, <2>3, CacheOptsFit DEF LoadSuperblock
  <2> QED
    BY <2>1, <2>2, <2>4 DEF SbInv, Loaded, PanicIsShort
<1>3. CASE ReadDescriptor
  <2>1. /\ pc = "descriptors" /\ UNCHANGED <<image, sb, inode>>
        /\ pc' = "error" \/ pc' = "descriptors" \/ (pc' = "panic" /\ descriptor_too_short)
    BY <1>3 DEF ReadDescriptor, Fail, Panic
  <2>2. sb = superblock(image.raw.fields)
    BY <2>1 DEF SbInv, Loaded
  <2>3. descriptor_too_short => sb.is_64bit /\ sb.block_group_descriptor_size < 44
    <3>1. CASE "IS_64BIT" \in image.raw.fields.incompat
      <4>1. image.raw.fields.desc_size \in Nat
        BY ImagesAssumption DEF SbInv, IsImage
      <4>2. /\ sb.is_64bit = TRUE
            /\ sb.block_group_descriptor_size = image.raw.fields.desc_size
        BY Zenon, <2>2, <3>1 DEF superblock
      <4> QED
        BY <4>1, <4>2 DEF descriptor_too_short
    <3>2. CASE "IS_64BIT" \notin image.raw.fields.incompat
      BY <2>2, <3>2 DEF superblock, descriptor_too_short
    <3> QED
      BY <3>1, <3>2
  <2> QED
    BY <2>1, <2>3 DEF SbInv, Loaded, PanicIsShort
<1>4. CASE DescriptorsRead
  BY <1>4 DEF DescriptorsRead, SbInv, Loaded, PanicIsShort
<1>5. CASE LoadJournal
  BY <1>5 DEF LoadJournal, Fail, Ready, SbInv, Loaded, PanicIsShort
<1>6. ASSUME NEW n \in Inodes, ReadInode(n) PROVE SbInv'
  BY <1>6 DEF ReadInode, SbInv, Loaded, PanicIsShort
<1>7. CASE UNCHANGED vars
  BY <1>7 DEF vars, SbInv, Loaded, PanicIsShort
<1> QED
  BY <1>1, <1>2, <1>3, <1>4, <1>5, <1>6, <1>7 DEF Next, Load

-----------------------------------------------------------------------------
(* The places of the descriptors *)
StartBlock == IF sb.block_size = 1024 THEN 2 ELSE 1

LEMMA GetStartByte ==
  ASSUME sb.block_size \in Nat \ {0}, sb.block_group_descriptor_size \in Nat,
         NEW i \in Nat, get_start_byte(i) # None
  PROVE  LET bs == sb.block_size
             size == sb.block_group_descriptor_size
             per == bs \div size
         IN  /\ size # 0 /\ per \in Nat \ {0} /\ per * size <= bs
             /\ get_start_byte(i) = StartBlock * bs + Slot(bs, size, per, i)
             /\ StartBlock + i \div per <= MaxU32
             /\ i \div per \in Nat
<1> DEFINE bs == sb.block_size
           size == sb.block_group_descriptor_size
           per == bs \div size
<1>1. size # 0 /\ per # 0 /\ ~ (StartBlock + i \div per > MaxU32)
  BY DEF get_start_byte, StartBlock
<1>2. get_start_byte(i) = (StartBlock + i \div per) * bs + (i % per) * size
  BY <1>1 DEF get_start_byte, StartBlock
<1>3. StartBlock \in Nat /\ bs \in Nat \ {0} /\ size \in Nat \ {0} /\ per = bs \div size
  BY <1>1 DEF StartBlock
<1> HIDE DEF bs, size, per
<1>4. per \in Nat /\ bs = size * per + (bs % size) /\ bs % size \in Nat
  BY <1>3
<1>5. per * size = size * per /\ size * per \in Nat
  BY <1>3, <1>4
<1>6. i \div per \in Nat /\ i % per \in Nat
  BY <1>1, <1>4
<1>7. (StartBlock + i \div per) * bs = StartBlock * bs + (i \div per) * bs
  BY <1>3, <1>6
<1>8. (StartBlock * bs) \in Nat /\ ((i \div per) * bs) \in Nat /\ ((i % per) * size) \in Nat
  BY <1>3, <1>6
<1>9. get_start_byte(i) = StartBlock * bs + Slot(bs, size, per, i)
  BY <1>2, <1>7, <1>8 DEF Slot
<1>10. StartBlock + i \div per <= MaxU32
  BY <1>1, <1>3, <1>6, LoadAssumption
<1>11. per * size <= bs
  BY <1>3, <1>4, <1>5
<1> QED
  BY <1>1, <1>4, <1>6, <1>9, <1>10, <1>11 DEF bs, size, per

LEMMA SbFacts ==
  ASSUME SbInv, Loaded
  PROVE  /\ sb.block_size \in Nat \ {0}
         /\ sb.block_size = 1024 \/ sb.block_size >= 2048
         /\ sb.block_group_descriptor_size \in Nat
<1>1. sb = superblock(image.raw.fields) /\ Accepted(image.raw.fields)
  BY DEF SbInv
<1>2. image.raw.fields.desc_size \in Nat
  BY ImagesAssumption DEF SbInv, IsImage
<1>3. sb.block_size = block_size(image.raw.fields)
  BY <1>1 DEF superblock
<1>4. sb.block_group_descriptor_size \in Nat
  BY <1>1, <1>2 DEF superblock
<1> QED
  BY <1>1, <1>3, <1>4, BlockSizeIs DEF Accepted

LEMMA DescriptorsAreApart == SbInv => DescriptorsApart
<1> SUFFICES ASSUME SbInv, pc = "descriptors", NEW i \in 0 .. sb.num_block_groups - 1,
                    get_start_byte(i) # None
             PROVE  LET size == sb.block_group_descriptor_size
                        start == get_start_byte(i)
                    IN  /\ start >= SUPERBLOCK_START + SIZE_IN_BYTES_ON_DISK
                        /\ (start % sb.block_size) + size <= sb.block_size
                        /\ i > 0 => get_start_byte(i - 1) + size <= start
  BY DEF DescriptorsApart
<1>1. i \in Nat
  OBVIOUS
<1> DEFINE bs == sb.block_size
           size == sb.block_group_descriptor_size
           per == bs \div size
           start == get_start_byte(i)
<1>2. /\ bs \in Nat \ {0} /\ size \in Nat
      /\ bs = 1024 \/ bs >= 2048
  BY SbFacts DEF Loaded
<1>3. /\ size # 0 /\ per \in Nat \ {0} /\ per * size <= bs
      /\ start = StartBlock * bs + Slot(bs, size, per, i)
      /\ StartBlock + i \div per <= MaxU32
      /\ i \div per \in Nat
  BY <1>1, <1>2, GetStartByte
<1>4. StartBlock \in Nat /\ StartBlock = IF bs = 1024 THEN 2 ELSE 1
  BY DEF StartBlock
<1>5. i > 0 => /\ i - 1 \in Nat
               /\ get_start_byte(i - 1) = StartBlock * bs + Slot(bs, size, per, i - 1)
  <2> SUFFICES ASSUME i > 0
               PROVE  get_start_byte(i - 1) = StartBlock * bs + Slot(bs, size, per, i - 1)
    BY <1>1
  <2>1. i - 1 \in Nat
    BY <1>1
  <2>2. (i - 1) \div per <= i \div per
    BY <1>1, <1>3, <2>1, DivLeq
  <2>3. (i - 1) \div per \in Nat
    BY Zenon, <1>3, <2>1, DivMod
  <2>4. ~ (StartBlock + (i - 1) \div per > MaxU32)
    BY <1>3, <1>4, <2>2, <2>3, LoadAssumption
  <2>5. get_start_byte(i - 1) = (StartBlock + (i - 1) \div per) * bs + ((i - 1) % per) * size
    BY <1>3, <2>4 DEF get_start_byte, StartBlock
  <2>6. (StartBlock + (i - 1) \div per) * bs + ((i - 1) % per) * size \in Nat
    <3>1. (i - 1) % per \in Nat
      BY <1>3, <2>1
    <3> HIDE DEF per, bs, size
    <3> QED
      BY <1>2, <1>4, <2>3, <3>1
  <2>7. get_start_byte(i - 1) # None
    BY <2>5, <2>6, LoadAssumption
  <2> QED
    BY <1>2, <2>1, <2>7, GetStartByte
<1> HIDE DEF bs, size, per, start
<1>6. /\ Slot(bs, size, per, i) \in Nat
      /\ EndsInBlock(bs, size, StartBlock * bs + Slot(bs, size, per, i))
  <2>1. PICK k \in Nat : k = StartBlock
    BY <1>4
  <2>2. PICK place : place = k * bs + Slot(bs, size, per, i)
    OBVIOUS
  <2>3. /\ bs \in Nat \ {0} /\ size \in Nat \ {0} /\ per \in Nat \ {0}
        /\ per * size <= bs
    BY <1>2, <1>3
  <2>4. EndsInBlock(bs, size, place)
    BY Zenon, <1>1, <2>2, <2>3, SlotInBlock
  <2>5. Slot(bs, size, per, i) \in Nat
    BY Zenon, <1>1, <2>3, SlotIsNat
  <2> QED
    BY <2>1, <2>2, <2>4, <2>5
<1>7. i > 0 => Slot(bs, size, per, i - 1) + size <= Slot(bs, size, per, i)
  BY <1>1, <1>2, <1>3, SlotsApart
<1>8. i > 0 => Slot(bs, size, per, i - 1) \in Nat
  BY <1>2, <1>3, <1>5, SlotIsNat
<1>9. StartBlock * bs >= 2048 /\ StartBlock * bs \in Nat
  BY <1>2, <1>4
<1>10. start >= 2048
  BY <1>3, <1>6, <1>9
<1>11. (start % bs) + size <= bs
  BY <1>3, <1>6 DEF EndsInBlock
<1>12. i > 0 => get_start_byte(i - 1) + size <= start
  BY <1>2, <1>3, <1>5, <1>6, <1>7, <1>8, <1>9
<1> QED
  BY <1>10, <1>11, <1>12 DEF bs, size, start, SUPERBLOCK_START, SIZE_IN_BYTES_ON_DISK

(* For every superblock that is accepted, with any descriptor size: the    *)
(* descriptors that are read do not overlap each other, a block boundary,  *)
(* the boot sector or the superblock.                                      *)
THEOREM LoadDescriptorsApart == Spec => []DescriptorsApart
  BY DescriptorsAreApart, SbInvInit, SbInvStep, PTL DEF Spec

-----------------------------------------------------------------------------
(* Inodes that are returned *)
LEMMA InodePasses ==
  ASSUME NEW n, InodeFailure(n) = None
  PROVE  \A i \in 1 .. 8 : ~ InodeFails(n, inodeChecks[i])
<1> DEFINE B == {i \in 1 .. 8 : InodeFails(n, inodeChecks[i])}
           First(i) == /\ \A j \in 1 .. i - 1 : ~ InodeFails(n, inodeChecks[j])
                       /\ InodeFails(n, inodeChecks[i])
<1>1. DOMAIN inodeChecks = 1 .. 8
  BY DEF inodeChecks
<1>2. \A i \in 1 .. 8 : inodeChecks[i] # None
  BY <1>1, NoneAssumption
<1>3. \A i \in 1 .. 8 : ~ First(i)
  BY <1>1, <1>2 DEF InodeFailure, FirstFailure
<1>4. B = {}
  BY <1>3, NoFirst
<1> QED
  BY <1>4

(* The checksum of an inode that is returned is over the number asked for; *)
(* it was computed over the inode's own.                                   *)
LEMMA ChecksumTellsNumber ==
  ASSUME image \in Images, sb.metadata_checksums, NEW n \in Nat \ {0},
         InodeFailure(n) = None
  PROVE  InodeAt(start_byte(n)).number = n
<1> DEFINE start == start_byte(n)
           i == InodeAt(start)
           here == {k \in StoredInodes(image) : InodePlace(image, k) = start}
<1>1. i.checksum = <<sb.checksum_seed, <<n, i.mode, i.size, sb.inode_size>>>>
  <2>1. ~ InodeFails(n, "InodeChecksum")
    BY InodePasses DEF inodeChecks
  <2> QED
    BY <2>1 DEF InodeFails, inode_checksum, Checksum
<1>2. CASE here = {}
  <2>1. i.checksum = <<"0", <<>>>>
    BY <1>2 DEF InodeAt, ZeroInode, Zeros, Checksum
  <2>2. <<>> = <<n, i.mode, i.size, sb.inode_size>>
    BY <1>1, <2>1
  <2>3. Len(<<>>) = Len(<<n, i.mode, i.size, sb.inode_size>>)
    BY <2>2
  <2> QED
    BY <2>3
<1>3. CASE here # {}
  <2>1. PICK k \in StoredInodes(image) : i = image.inodes[k]
    BY Zenon, <1>3 DEF InodeAt
  <2>2. i.checksum = Zeros \/ i.checksum[2][1] = i.number
    BY <2>1, ImagesAssumption DEF IsImage
  <2>3. i.checksum[2][1] = n /\ i.checksum[2] = <<n, i.mode, i.size, sb.inode_size>>
    BY <1>1
  <2>4. i.checksum # Zeros
    <3>1. Zeros[2] = <<>>
      BY DEF Zeros, Checksum
    <3>2. Len(<<>>) # Len(<<n, i.mode, i.size, sb.inode_size>>)
      OBVIOUS
    <3> QED
      BY Zenon, <2>3, <3>1, <3>2
  <2> QED
    BY <2>2, <2>3, <2>4
<1> QED
  BY <1>2, <1>3

-----------------------------------------------------------------------------
(* An image as mkfs wrote it *)
LEMMA GroupsCounted ==
  ASSUME NEW b \in Nat, NEW p \in Nat \ {0}, NEW g \in Nat \ {0},
         (g - 1) * p < b, b <= g * p
  PROVE  DivCeil(b, p) = g
<1>1. (g - 1) * p = g * p - p /\ g * p \in Nat /\ p * g = g * p
  OBVIOUS
<1> DEFINE r == b - 1 - (g * p - p)
<1>2. r \in 0 .. p - 1 /\ b + p - 1 = p * g + r /\ b + p - 1 \in Nat
  BY <1>1
<1> HIDE DEF r
<1>3. PICK a \in Nat : a = b + p - 1
  BY <1>2
<1>4. a \div p = g
  BY <1>2, <1>3, DivModUnique
<1> QED
  BY <1>3, <1>4 DEF DivCeil

LEMMA IntactFields ==
  ASSUME NEW m \in Images, Intact(m), NEW f, f = m.raw.fields, NEW l, l = m.layout
  PROVE  /\ block_size(f) = l.block_size /\ l.block_size \in Nat \ {0}
         /\ l.block_size = 1024 \/ l.block_size >= 2048
         /\ l.block_size % 64 = 0 /\ l.block_size % 32 = 0
         /\ l.desc_size \in {32, 64}
         /\ l.inode_size \in Nat \ {0} /\ l.inodes_per_group \in Nat \ {0}
         /\ Len(l.tables) \in 1 .. MaxU32
         /\ num_block_groups(f) = Len(l.tables)
         /\ f.first_data_block <= f.blocks_count /\ f.blocks_count \in Nat
         /\ f.blocks_per_group \in Nat \ {0}
<1>1. /\ f.log_block_size \in Nat /\ f.first_data_block \in Nat /\ f.blocks_count \in Nat
      /\ f.blocks_per_group \in Nat /\ f.inodes_per_group \in Nat /\ f.inode_size \in Nat
      /\ Len(l.tables) \in Nat
  BY ImagesAssumption DEF IsImage
<1>2. f.log_block_size \in 0 .. 21
  <2>1. f.log_block_size <= 21
    BY DEF Intact, FieldsFit
  <2>2. PICK k \in Nat : k = f.log_block_size
    BY <1>1
  <2>3. k <= 21
    BY <2>1, <2>2
  <2> QED
    BY <2>2, <2>3
<1>3. l.block_size = block_size(f)
  BY <1>2, BlockSizeFacts DEF Intact, LayoutFits
<1>4. /\ l.desc_size \in {32, 64} /\ l.inode_size \in Nat \ {0}
      /\ l.inodes_per_group \in Nat \ {0}
  <2>1. /\ l.inode_size = f.inode_size /\ 128 <= l.inode_size
        /\ l.inodes_per_group = f.inodes_per_group /\ 0 < l.inodes_per_group
    BY DEF Intact, LayoutFits
  <2>2. l.desc_size \in {32, 64}
    BY DEF Intact, LayoutFits
  <2> QED
    BY <1>1, <2>1, <2>2
<1> DEFINE b == f.blocks_count - f.first_data_block
           g == Len(l.tables)
<1>5. /\ 0 < b /\ 0 < f.blocks_per_group /\ g \in 1 .. MaxU32
      /\ (g - 1) * f.blocks_per_group < b /\ b <= g * f.blocks_per_group
  BY DEF Intact, GroupsFit
<1>6. b \in Nat /\ f.first_data_block <= f.blocks_count /\ f.blocks_per_group \in Nat \ {0}
  <2>1. PICK c \in Nat, d \in Nat, e \in Nat :
           c = f.blocks_count /\ d = f.first_data_block /\ e = f.blocks_per_group
    BY <1>1
  <2>2. 0 < c - d /\ 0 < e
    BY <1>5, <2>1
  <2> QED
    BY <2>1, <2>2
<1>7. num_block_groups(f) = g
  <2>1. num_block_groups(f) = DivCeil(b, f.blocks_per_group)
    BY DEF num_block_groups
  <2> HIDE DEF b, g
  <2>2. PICK p \in Nat \ {0} : p = f.blocks_per_group
    BY <1>6
  <2>3. g \in Nat \ {0}
    BY <1>5, LoadAssumption
  <2>4. DivCeil(b, p) = g
    BY <1>5, <1>6, <2>2, <2>3, GroupsCounted
  <2> QED
    BY <2>1, <2>2, <2>4
<1>8. /\ block_size(f) \in Nat
      /\ block_size(f) = 1024 \/ block_size(f) >= 2048
      /\ block_size(f) % 64 = 0 /\ block_size(f) % 32 = 0
  BY <1>2, BlockSizeIs
<1> HIDE DEF b
<1> QED
  BY <1>1, <1>3, <1>4, <1>5, <1>6, <1>7, <1>8

LEMMA IntactSuperblock ==
  ASSUME image \in Images, Intact(image)
  PROVE  SuperblockFailure = None
<1> DEFINE f == image.raw.fields
<1>1. PICK l : l = image.layout
  OBVIOUS
<1>2. /\ block_size(f) = l.block_size /\ l.block_size \in Nat \ {0}
      /\ Len(l.tables) \in 1 .. MaxU32
      /\ num_block_groups(f) = Len(l.tables)
      /\ f.first_data_block <= f.blocks_count /\ f.blocks_count \in Nat
      /\ f.blocks_per_group \in Nat \ {0}
  BY <1>1, IntactFields
<1>3. /\ f.first_data_block \in Nat /\ f.log_block_size \in Nat /\ f.inode_size \in Nat
  BY ImagesAssumption DEF IsImage
<1>4. ~ SuperblockFails(image.raw, "InvalidBlockSize")
  BY <1>3 DEF SuperblockFails, Intact, FieldsFit
<1>5. /\ ~ SuperblockFails(image.raw, "SuperblockMagic")
      /\ ~ SuperblockFails(image.raw, "UnknownFeatures")
      /\ ~ SuperblockFails(image.raw, "MissingRequiredFeatures")
      /\ ~ SuperblockFails(image.raw, "DisallowedFeatures")
  BY DEF SuperblockFails, Intact, FieldsFit
<1>6. ~ SuperblockFails(image.raw, "FirstDataBlock")
  BY <1>2, <1>3 DEF SuperblockFails
<1>7. ~ SuperblockFails(image.raw, "BlocksPerGroup")
  BY <1>2 DEF SuperblockFails
<1>8. ~ SuperblockFails(image.raw, "TooManyBlockGroups")
  BY <1>2, LoadAssumption DEF SuperblockFails
<1>9. ~ SuperblockFails(image.raw, "InodesPerBlockGroup")
  BY DEF SuperblockFails, Intact, LayoutFits
<1>10. ~ SuperblockFails(image.raw, "InodeSize")
  <2>1. f.inode_size <= block_size(f)
    BY <1>1, <1>2 DEF Intact, LayoutFits
  <2> QED
    BY <1>2, <1>3, <2>1 DEF SuperblockFails
<1>11. ~ SuperblockFails(image.raw, "JournalInode")
  <2>1. NeedsRecovery(f) => f.journal_inum \in StoredInodes(image)
    BY Zenon DEF Intact, ContentsFit, NeedsRecovery
  <2>2. 0 \notin StoredInodes(image)
    BY DEF StoredInodes
  <2> QED
    BY <2>1, <2>2 DEF SuperblockFails
<1>12. ~ SuperblockFails(image.raw, "SuperblockChecksum")
  BY DEF SuperblockFails, Intact, ContentsFit
<1>13. \A i \in DOMAIN superblockChecks : ~ SuperblockFails(image.raw, superblockChecks[i])
  BY <1>4, <1>5, <1>6, <1>7, <1>8, <1>9, <1>10, <1>11, <1>12 DEF superblockChecks
<1> QED
  BY <1>13 DEF SuperblockFailure, FirstFailure

(* The superblock of such an image *)
LEMMA IntactSb ==
  ASSUME SbInv, Loaded, Intact(image), NEW l, l = image.layout
  PROVE  /\ sb.block_size = l.block_size
         /\ sb.inode_size = l.inode_size /\ sb.inodes_per_block_group = l.inodes_per_group
         /\ sb.block_group_descriptor_size = l.desc_size
         /\ sb.num_block_groups = Len(l.tables)
         /\ sb.blocks_count = image.raw.fields.blocks_count
         /\ ~ descriptor_too_short
         /\ sb.metadata_checksums => "METADATA_CHECKSUMS" \in image.raw.fields.ro_compat
         /\ sb.checksum_seed = IF "CHECKSUM_SEED_IN_SUPERBLOCK" \in image.raw.fields.incompat
                               THEN image.raw.fields.checksum_seed ELSE image.raw.fields.uuid
<1> DEFINE f == image.raw.fields
<1>1. sb = superblock(f) /\ image \in Images
  BY DEF SbInv
<1>2. /\ block_size(f) = l.block_size
      /\ num_block_groups(f) = Len(l.tables)
  BY <1>1, IntactFields
<1>3. /\ sb.block_size = block_size(f) /\ sb.num_block_groups = num_block_groups(f)
      /\ sb.inode_size = f.inode_size /\ sb.inodes_per_block_group = f.inodes_per_group
      /\ sb.blocks_count = f.blocks_count
      /\ sb.block_group_descriptor_size = IF "IS_64BIT" \in f.incompat THEN f.desc_size ELSE 32
      /\ sb.is_64bit = ("IS_64BIT" \in f.incompat)
      /\ sb.metadata_checksums = ("METADATA_CHECKSUMS" \in f.ro_compat)
      /\ sb.checksum_seed = IF "CHECKSUM_SEED_IN_SUPERBLOCK" \in f.incompat
                            THEN f.checksum_seed ELSE f.uuid
  BY <1>1 DEF superblock
<1>4. /\ l.desc_size = (IF "IS_64BIT" \in f.incompat THEN f.desc_size ELSE 32)
      /\ "IS_64BIT" \in f.incompat => l.desc_size = 64
      /\ l.inode_size = f.inode_size /\ l.inodes_per_group = f.inodes_per_group
  BY DEF Intact, LayoutFits
<1>5. ~ descriptor_too_short
  <2>1. CASE "IS_64BIT" \in f.incompat
    <3>1. sb.block_group_descriptor_size = 64
      BY <1>3, <1>4, <2>1
    <3> QED
      BY <3>1 DEF descriptor_too_short
  <2>2. CASE "IS_64BIT" \notin f.incompat
    <3>1. sb.block_group_descriptor_size = 32
      BY <1>3, <2>2
    <3>2. ~ sb.is_64bit
      BY <1>3, <2>2, Zenon
    <3> QED
      BY <3>1, <3>2 DEF descriptor_too_short
  <2> QED
    BY <2>1, <2>2
<1> QED
  BY Zenon, <1>2, <1>3, <1>4, <1>5

(* The descriptors are where the code looks for them. *)
LEMMA IntactDescriptor ==
  ASSUME SbInv, Loaded, Intact(image), NEW i \in 0 .. sb.num_block_groups - 1
  PROVE  /\ get_start_byte(i) # None
         /\ DescriptorAt(get_start_byte(i)) = image.descriptors[i + 1]
         /\ sb.metadata_checksums =>
               image.descriptors[i + 1].checksum
                  = descriptor_checksum(i, image.descriptors[i + 1])
<1>1. PICK l : l = image.layout
  OBVIOUS
<1>2. PICK bs \in Nat \ {0}, size \in {32, 64}, g \in 1 .. MaxU32 :
         bs = l.block_size /\ size = l.desc_size /\ g = Len(l.tables)
  BY <1>1, IntactFields DEF SbInv
<1>3. /\ bs = 1024 \/ bs >= 2048
      /\ bs % 64 = 0 /\ bs % 32 = 0
  BY <1>1, <1>2, IntactFields DEF SbInv
<1>4. /\ sb.block_size = bs /\ sb.block_group_descriptor_size = size
      /\ sb.num_block_groups = g
  BY <1>1, <1>2, IntactSb
<1>5. i \in Nat /\ i < g /\ MaxU32 \in Nat /\ 2 < MaxU32 /\ g <= MaxU32
  BY <1>2, <1>4, LoadAssumption
<1> DEFINE per == bs \div size
<1>6. per \in Nat \ {0} /\ per >= 16 /\ per * size = bs
  <2>1. CASE size = 32
    <3>1. bs \div 32 \in Nat /\ bs \div 32 >= 16 /\ (bs \div 32) * 32 = bs
      BY <1>2, <1>3
    <3> QED
      BY <2>1, <3>1
  <2>2. CASE size = 64
    <3>1. bs \div 64 \in Nat /\ bs \div 64 >= 16 /\ (bs \div 64) * 64 = bs
      BY <1>2, <1>3
    <3> QED
      BY <2>2, <3>1
  <2> QED
    BY <1>2, <2>1, <2>2
<1>7. i \div per \in Nat /\ i \div per <= i \div 16 /\ i \div 16 \in Nat
  <2> HIDE DEF per
  <2>1. i \div per \in Nat /\ i \div 16 \in Nat
    BY <1>5, <1>6
  <2>2. PICK q \in Nat, r \in 0 .. per - 1 : q = i \div per /\ i = per * q + r
    BY <1>5, <1>6
  <2>3. 16 * q <= per * q /\ per * q \in Nat
    BY <1>6
  <2>4. 16 * q <= i
    BY <2>2, <2>3
  <2>5. q <= i \div 16
    BY <1>5, <2>4
  <2> QED
    BY <2>1, <2>2, <2>5
<1>8. StartBlock \in 1 .. 2 /\ StartBlock = IF bs = 1024 THEN 2 ELSE 1
  BY <1>4 DEF StartBlock
<1>9. ~ (StartBlock + i \div per > MaxU32)
  <2> HIDE DEF per
  <2>1. i \div 16 + 2 <= MaxU32
    BY <1>5
  <2> QED
    BY <1>5, <1>7, <1>8, <2>1
<1>10. get_start_byte(i) = (StartBlock + i \div per) * bs + (i % per) * size
  <2>1. (IF size = 0 THEN 0 ELSE bs \div size) = per
    BY <1>2
  <2> HIDE DEF per
  <2>2. ~ (per = 0 \/ StartBlock + i \div per > MaxU32)
    BY <1>6, <1>9
  <2>3. get_start_byte(i) = IF per = 0 \/ StartBlock + i \div per > MaxU32 THEN None
                            ELSE (StartBlock + i \div per) * bs + (i % per) * size
    <3>1. (IF sb.block_group_descriptor_size = 0 THEN 0
           ELSE sb.block_size \div sb.block_group_descriptor_size) = per
      BY <1>4, <2>1
    <3> QED
      BY <1>4, <3>1 DEF get_start_byte, StartBlock
  <2> QED
    BY <2>2, <2>3, Zenon
<1>11. get_start_byte(i) = StartBlock * bs + i * size
  <2> HIDE DEF per
  <2>0. bs \in Nat \ {0} /\ size \in Nat \ {0} /\ per \in Nat \ {0} /\ per * size = bs
        /\ i \in Nat
    BY <1>2, <1>5, <1>6
  <2>1. (i \div per) * bs + (i % per) * size = i * size
    <3>1. Slot(bs, size, per, i) = i * size
      BY <2>0, SlotsFill
    <3> QED
      BY <3>1 DEF Slot
  <2>2. (StartBlock + i \div per) * bs = StartBlock * bs + (i \div per) * bs
    BY <1>7, <1>8
  <2>3. i % per \in Nat
    BY <1>5, <1>6
  <2>4. (StartBlock * bs) \in Nat /\ ((i \div per) * bs) \in Nat /\ ((i % per) * size) \in Nat
    <3> DEFINE x == i \div per
               y == i % per
    <3>1. x \in Nat /\ y \in Nat /\ bs \in Nat /\ size \in Nat /\ StartBlock \in Nat
      BY <1>2, <1>7, <1>8, <2>3
    <3> HIDE DEF x, y
    <3>2. StartBlock * bs \in Nat /\ x * bs \in Nat /\ y * size \in Nat
      BY <3>1
    <3> QED
      BY <3>2 DEF x, y
  <2> QED
    BY <1>10, <2>1, <2>2, <2>4
<1> HIDE DEF per
<1>12. \A k \in Nat : DescriptorPlace(image, k) = StartBlock * bs + k * size
  <2>1. SUPERBLOCK_START \div bs + 1 = StartBlock
    BY <1>3, <1>8 DEF SUPERBLOCK_START
  <2> QED
    BY <1>1, <1>2, <2>1 DEF DescriptorPlace
<1>13. StartBlock * bs \in Nat
  BY <1>8
<1>14. get_start_byte(i) # None
  <2>1. i * size \in Nat
    BY <1>5
  <2> QED
    BY <1>11, <1>13, <2>1, LoadAssumption
<1>15. Len(image.descriptors) = g
  BY <1>1, <1>2 DEF Intact, ContentsFit
<1>16. {k \in 1 .. Len(image.descriptors) : DescriptorPlace(image, k - 1) = get_start_byte(i)}
         = {i + 1}
  <2>1. i + 1 \in 1 .. Len(image.descriptors) /\ (i + 1) - 1 = i
    BY <1>2, <1>5, <1>15
  <2>2. ASSUME NEW k \in 1 .. Len(image.descriptors)
        PROVE  DescriptorPlace(image, k - 1) = get_start_byte(i) <=> k = i + 1
    <3>1. DescriptorPlace(image, k - 1) = StartBlock * bs + (k - 1) * size
      BY <1>2, <1>12, <1>15, LoadAssumption
    <3>2. (k - 1) * size = i * size <=> k - 1 = i
      BY <1>2, <1>5, <1>15
    <3>3. (k - 1) * size \in Int /\ i * size \in Int
      BY <1>2, <1>5, <1>15
    <3> QED
      BY <1>5, <1>11, <1>13, <1>15, <3>1, <3>2, <3>3
  <2> QED
    BY <2>1, <2>2
<1>17. DescriptorAt(get_start_byte(i)) = image.descriptors[i + 1]
  BY <1>16 DEF DescriptorAt
<1>18. ASSUME sb.metadata_checksums
       PROVE  image.descriptors[i + 1].checksum
                 = descriptor_checksum(i, image.descriptors[i + 1])
  <2>1. i + 1 \in 1 .. Len(l.tables) /\ (i + 1) - 1 = i
    BY SMTT(60), <1>2, <1>5
  <2>2. /\ image.descriptors[i + 1].inode_table = l.tables[i + 1]
        /\ image.descriptors[i + 1].checksum
             = Checksum(sb.checksum_seed, <<i, l.tables[i + 1], l.desc_size>>)
    BY <1>1, <1>18, <2>1, IntactSb DEF Intact, ContentsFit
  <2> QED
    BY <1>2, <1>4, <2>2 DEF descriptor_checksum
<1> QED
  BY <1>14, <1>17, <1>18

(* The inodes of a table that lies within the filesystem, and not in its   *)
(* first block *)
IsTable(bs, size, per, table, blocks) ==
    bs % size = 0 /\ table * bs + per * size <= blocks * bs

InBounds(bs, size, blocks, place) ==
    /\ place \in Nat /\ place + size <= blocks * bs
    /\ place \div bs # 0 /\ place \div bs < blocks
    /\ EndsInBlock(bs, size, place)

LEMMA TableInBounds ==
  ASSUME NEW bs \in Nat \ {0}, NEW size \in Nat \ {0}, NEW per \in Nat \ {0},
         NEW table \in Nat \ {0}, NEW blocks \in Nat, IsTable(bs, size, per, table, blocks),
         NEW r \in 0 .. per - 1, NEW place, place = table * bs + r * size
  PROVE  InBounds(bs, size, blocks, place)
<1> USE DEF IsTable
<1>1. /\ table * bs \in Nat /\ r * size \in Nat /\ per * size \in Nat /\ blocks * bs \in Nat
      /\ place \in Nat
  OBVIOUS
<1>2. r * size + size <= per * size
  <2>1. (r + 1) * size <= per * size
    OBVIOUS
  <2> QED
    BY <1>1, <2>1
<1>3. place + size <= blocks * bs
  BY <1>1, <1>2
<1>4. bs <= table * bs
  OBVIOUS
<1>5. PICK q \in Nat, e \in 0 .. bs - 1 :
         q = place \div bs /\ e = place % bs /\ place = bs * q + e
  BY <1>1, DivMod
<1>6. q # 0
  <2>1. CASE q = 0
    <3>1. place = e
      BY <1>5, <2>1
    <3> QED
      BY <1>1, <1>4, <1>5, <3>1
  <2> QED
    BY <2>1
<1>7. q < blocks
  <2>1. CASE blocks <= q
    <3>1. blocks * bs <= bs * q /\ bs * q \in Nat
      BY <1>5, <2>1
    <3> QED
      BY <1>1, <1>3, <1>5, <3>1
  <2> QED
    BY <1>5, <2>1
<1>8. EndsInBlock(bs, size, place)
  <2>1. PICK c \in Nat : bs = size * c
    <3>1. bs = size * (bs \div size) + (bs % size) /\ bs \div size \in Nat
      BY DivMod
    <3>2. size * (bs \div size) \in Nat
      BY <3>1
    <3> QED
      BY <3>1, <3>2
  <2>2. c # 0 /\ c * size = bs
    BY <2>1
  <2>3. c \in Nat \ {0} /\ c * size = bs /\ c * size <= bs /\ r \in Nat
    BY <2>1, <2>2
  <2>4. Slot(bs, size, c, r) = r * size
    BY <2>3, SlotsFill
  <2>5. place = table * bs + Slot(bs, size, c, r) /\ table \in Nat
    BY <2>4
  <2> QED
    BY Zenon, <2>3, <2>5, SlotInBlock
<1> QED
  BY <1>1, <1>3, <1>5, <1>6, <1>7, <1>8 DEF InBounds

(* The inodes are where the code looks for them, once the descriptors are  *)
(* read.                                                                   *)
TablesKnown ==
    /\ Len(descriptors) = sb.num_block_groups
    /\ \A g \in 1 .. Len(image.layout.tables) :
          descriptors[g].inode_table = image.layout.tables[g]

(* Its group and its index in the group *)
LEMMA IntactGroup ==
  ASSUME SbInv, Loaded, Intact(image), TablesKnown, NEW n \in StoredInodes(image),
         NEW l, l = image.layout
  PROVE  \E q \in Nat, r \in 0 .. l.inodes_per_group - 1 :
            /\ q = group_of(n) /\ q + 1 \in 1 .. Len(l.tables)
            /\ r = (n - 1) % l.inodes_per_group
            /\ start_byte(n) = l.tables[q + 1] * l.block_size + r * l.inode_size
            /\ InodePlace(image, n) = start_byte(n)
<1>1. PICK per \in Nat \ {0}, g \in Nat, bs \in Nat \ {0}, size \in Nat \ {0} :
         /\ per = l.inodes_per_group /\ g = Len(l.tables)
         /\ bs = l.block_size /\ size = l.inode_size
  <2>1. /\ l.inodes_per_group \in Nat \ {0} /\ Len(l.tables) \in 1 .. MaxU32
        /\ l.block_size \in Nat \ {0} /\ l.inode_size \in Nat \ {0}
    BY IntactFields DEF SbInv
  <2>2. Len(l.tables) \in Nat
    BY <2>1, LoadAssumption
  <2> QED
    BY SMTT(60), <2>1, <2>2
<1>2. sb.inodes_per_block_group = per /\ sb.block_size = bs /\ sb.inode_size = size
  BY <1>1, IntactSb
<1>3. n \in 1 .. g * per
  BY <1>1 DEF StoredInodes
<1>4. n - 1 \in Nat /\ n - 1 < g * per /\ g * per \in Nat
  BY <1>3
<1>5. PICK q \in Nat, r \in 0 .. per - 1 :
         q = (n - 1) \div per /\ r = (n - 1) % per /\ n - 1 = per * q + r
  <2>1. PICK a \in Nat : a = n - 1
    BY <1>4
  <2>2. a \div per \in Nat /\ a % per \in 0 .. per - 1 /\ a = per * (a \div per) + (a % per)
    BY Zenon, <2>1, DivMod
  <2> QED
    BY <2>1, <2>2
<1>6. q < g
  <2>1. CASE g <= q
    <3>1. g * per <= per * q /\ per * q \in Nat
      BY <2>1
    <3> QED
      BY <1>4, <1>5, <3>1
  <2> QED
    BY <2>1
<1>7. q + 1 \in 1 .. g
  BY <1>6
<1>8. group_of(n) = q
  BY <1>2, <1>5 DEF group_of
<1>9. start_byte(n) = bs * l.tables[q + 1] + r * size
  <2>1. descriptors[q + 1].inode_table = l.tables[q + 1]
    BY <1>1, <1>7 DEF TablesKnown
  <2>2. offset_of_group(n) = bs * l.tables[q + 1]
    BY <1>2, <1>8, <2>1 DEF offset_of_group
  <2>3. offset_within_group(n) = r * size
    BY <1>2, <1>5 DEF offset_within_group
  <2> QED
    BY <2>2, <2>3 DEF start_byte
<1>10. bs * l.tables[q + 1] = l.tables[q + 1] * bs
  <2>1. l.tables[q + 1] \in Nat
    BY <1>1, <1>7 DEF Intact, TablesFit
  <2> QED
    BY <2>1
<1>11. InodePlace(image, n) = l.tables[q + 1] * bs + r * size
  BY <1>1, <1>5 DEF InodePlace
<1> QED
  BY Zenon, <1>1, <1>5, <1>7, <1>8, <1>9, <1>10, <1>11

LEMMA IntactPlace ==
  ASSUME SbInv, Loaded, Intact(image), TablesKnown, NEW n \in StoredInodes(image)
  PROVE  /\ start_byte(n) \in Nat /\ start_byte(n) <= MaxU64
         /\ Readable(start_byte(n), sb.inode_size)
         /\ inode_in_bounds(start_byte(n))
<1>1. PICK l : l = image.layout
  OBVIOUS
<1>2. PICK per \in Nat \ {0}, bs \in Nat \ {0}, size \in Nat \ {0}, blocks \in Nat :
         /\ per = l.inodes_per_group /\ bs = l.block_size /\ size = l.inode_size
         /\ blocks = image.raw.fields.blocks_count
  <2>1. /\ l.inodes_per_group \in Nat \ {0} /\ image.raw.fields.blocks_count \in Nat
        /\ l.block_size \in Nat \ {0} /\ l.inode_size \in Nat \ {0}
    BY <1>1, IntactFields DEF SbInv
  <2> QED
    BY <2>1
<1>3. /\ sb.block_size = bs /\ sb.inode_size = size /\ sb.blocks_count = blocks
  BY <1>1, <1>2, IntactSb
<1>4. PICK q \in Nat, r \in 0 .. per - 1 :
         /\ q + 1 \in 1 .. Len(l.tables)
         /\ start_byte(n) = l.tables[q + 1] * bs + r * size
  BY Zenon, <1>1, <1>2, IntactGroup
<1>5. PICK table \in Nat \ {0}, len \in Nat :
         /\ table = l.tables[q + 1] /\ len = image.len
         /\ table * bs + per * size <= len
  <2>1. /\ l.tables[q + 1] \in Nat \ {0}
        /\ l.tables[q + 1] * bs + per * size <= image.len
    BY <1>1, <1>2, <1>4 DEF Intact, TablesFit
  <2>2. image.len \in Nat
    BY ImagesAssumption DEF SbInv, IsImage
  <2> QED
    BY <2>1, <2>2
<1>6. len = blocks * bs /\ len <= MaxU64 /\ bs % size = 0
  BY <1>1, <1>2, <1>5 DEF Intact, LayoutFits
<1>7. PICK place : place = start_byte(n)
  OBVIOUS
<1>8. place = table * bs + r * size
  BY <1>4, <1>5, <1>7
<1>9. IsTable(bs, size, per, table, blocks)
  BY <1>5, <1>6 DEF IsTable
<1>10. /\ place \in Nat /\ place + size <= blocks * bs
       /\ place \div bs # 0 /\ place \div bs < blocks
       /\ EndsInBlock(bs, size, place)
  <2>1. InBounds(bs, size, blocks, place)
    BY Zenon, <1>8, <1>9, TableInBounds
  <2> QED
    BY <2>1 DEF InBounds
<1>11. place <= MaxU64 /\ place + size <= len
  <2>1. blocks * bs \in Nat /\ MaxU64 \in Nat
    BY LoadAssumption
  <2> QED
    BY <1>6, <1>10, <2>1
<1>12. inode_in_bounds(place)
  BY <1>3, <1>10 DEF inode_in_bounds, EndsInBlock
<1>13. Readable(place, sb.inode_size)
  BY <1>3, <1>5, <1>11 DEF Readable
<1> QED
  BY <1>7, <1>10, <1>11, <1>12, <1>13

(* What is found there is the inode. *)
LEMMA IntactContents ==
  ASSUME SbInv, Loaded, Intact(image), TablesKnown, NEW n \in StoredInodes(image)
  PROVE  InodeAt(start_byte(n)) = image.inodes[n]
<1>1. start_byte(n) = InodePlace(image, n)
  BY IntactGroup
<1>2. {k \in StoredInodes(image) : InodePlace(image, k) = start_byte(n)} = {n}
  BY <1>1 DEF Intact, TablesFit
<1> QED
  BY <1>2 DEF InodeAt

(* It passes every check of Inode::read, if it is in use. *)
LEMMA IntactInode ==
  ASSUME SbInv, Loaded, Intact(image), TablesKnown, NEW n \in image.used
  PROVE  InodeFailure(n) = None
<1> DEFINE i == image.inodes[n]
<1>0. n \in StoredInodes(image)
  BY Zenon DEF Intact, ContentsFit
<1>1. PICK l : l = image.layout
  OBVIOUS
<1>2. InodeAt(start_byte(n)) = i
  BY <1>0, IntactContents
<1>3. ~ InodeFails(n, "InodeBlockGroup")
  <2>1. PICK q \in Nat : q = group_of(n) /\ q + 1 \in 1 .. Len(l.tables)
    BY <1>0, <1>1, IntactGroup
  <2>2. PICK g \in Nat : g = Len(l.tables)
    BY <1>1, ImagesAssumption DEF SbInv, IsImage
  <2>3. Len(descriptors) = g
    BY <1>1, <2>2, IntactSb DEF TablesKnown
  <2>4. ~ (q >= g)
    BY <2>1, <2>2
  <2> QED
    BY <2>1, <2>3, <2>4 DEF InodeFails
<1>4. /\ ~ InodeFails(n, "BlockRead")
      /\ ~ InodeFails(n, "Io")
  BY <1>0, IntactPlace DEF InodeFails
<1>5. ~ InodeFails(n, "InodeLocation")
  <2>1. ~ (start_byte(n) > MaxU64)
    BY <1>0, IntactPlace, LoadAssumption
  <2> QED
    BY <2>1 DEF InodeFails
<1>6. ~ InodeFails(n, "InodeTruncated")
  <2>1. /\ sb.inode_size = l.inode_size
        /\ sb.metadata_checksums => "METADATA_CHECKSUMS" \in image.raw.fields.ro_compat
    BY <1>1, IntactSb
  <2>2. PICK size \in Nat : size = l.inode_size
    BY <1>1, IntactFields DEF SbInv
  <2>3. 128 <= size /\ (sb.metadata_checksums => 132 <= size)
    BY <1>1, <2>1, <2>2 DEF Intact, LayoutFits
  <2>4. ~ (size < 128) /\ ~ (sb.metadata_checksums /\ size < 132)
    BY <2>3
  <2> QED
    BY <2>1, <2>2, <2>4 DEF InodeFails
<1>7. ~ InodeFails(n, "TooManyBlocksInFile")
  <2>1. PICK bs \in Nat \ {0}, size \in Nat : bs = l.block_size /\ size = i.size
    <3>1. i.size \in Nat
      BY <1>0, ImagesAssumption DEF SbInv, IsImage
    <3>2. l.block_size \in Nat \ {0}
      BY <1>1, IntactFields DEF SbInv
    <3> QED
      BY <3>1, <3>2
  <2>2. size <= MaxU32 * bs
    BY Zenon, <1>1, <2>1 DEF Intact, ContentsFit
  <2>3. PICK q \in Nat, r \in 0 .. bs - 1 :
           q = (size + bs - 1) \div bs /\ size + bs - 1 = bs * q + r
    <3>1. PICK a \in Nat : a = size + bs - 1
      OBVIOUS
    <3>2. a \div bs \in Nat /\ a % bs \in 0 .. bs - 1 /\ a = bs * (a \div bs) + (a % bs)
      BY Zenon, DivMod
    <3> QED
      BY <3>1, <3>2
  <2>4. q <= MaxU32
    <3>1. CASE MaxU32 + 1 <= q
      <4>1. bs * (MaxU32 + 1) <= bs * q /\ bs * q \in Nat
        BY <3>1, LoadAssumption
      <4>2. bs * (MaxU32 + 1) = MaxU32 * bs + bs /\ MaxU32 * bs \in Nat
        BY LoadAssumption
      <4> QED
        BY <2>2, <2>3, <4>1, <4>2
    <3> QED
      BY <3>1, LoadAssumption
  <2>5. file_size_in_blocks(i) = q
    <3>1. sb.block_size = bs
      BY <1>1, <2>1, IntactSb
    <3> QED
      BY <2>1, <2>3, <3>1 DEF file_size_in_blocks, DivCeil
  <2>6. ~ (file_size_in_blocks(i) > MaxU32)
    BY <2>4, <2>5, LoadAssumption
  <2> QED
    BY <1>2, <2>6 DEF InodeFails
<1>8. ~ InodeFails(n, "InodeFileType")
  BY Zenon, <1>2 DEF InodeFails, FileTypes, Intact, ContentsFit
<1>9. ~ InodeFails(n, "InodeChecksum")
  <2>1. ASSUME sb.metadata_checksums PROVE i.checksum = inode_checksum(n, i)
    <3>1. i.checksum = Checksum(sb.checksum_seed, <<n, i.mode, i.size, l.inode_size>>)
      BY <1>1, <2>1, IntactSb DEF Intact, ContentsFit
    <3> QED
      BY Zenon, <1>1, <3>1, IntactSb DEF inode_checksum
  <2> QED
    BY <1>2, <2>1 DEF InodeFails
<1>10. \A k \in DOMAIN inodeChecks : ~ InodeFails(n, inodeChecks[k])
  BY <1>3, <1>4, <1>5, <1>6, <1>7, <1>8, <1>9 DEF inodeChecks
<1> QED
  BY <1>10 DEF InodeFailure, FirstFailure

-----------------------------------------------------------------------------
(* The inductive invariant: on an image as mkfs wrote it, the descriptors  *)
(* that are read are those of the image, in their order.                   *)
OwnDescriptors == {image.descriptors[g] : g \in 1 .. Len(image.descriptors)}

DescriptorsInv ==
    Intact(image) =>
        /\ descriptors \in Seq(OwnDescriptors)
        /\ \A g \in 1 .. Len(descriptors) : descriptors[g] = image.descriptors[g]
        /\ pc = "superblock" => descriptors = <<>>
        /\ Loaded => Len(descriptors) <= sb.num_block_groups
        /\ pc \in {"journal", "ready"} => Len(descriptors) = sb.num_block_groups

(* What may go wrong on such an image *)
FailsAsItMay ==
    Intact(image) =>
        /\ pc = "error" => error \in {"Io", "Journal"}
        /\ inode # None /\ asked \in image.used /\ ~ inode.ok
              => inode.error = "Io"

LoadInv == SbInv /\ DescriptorsInv /\ InodeIsOwn /\ FailsAsItMay

LEMMA DescriptorsInvTables ==
  ASSUME SbInv, DescriptorsInv, Intact(image), pc \in {"journal", "ready"}
  PROVE  TablesKnown
<1>1. Loaded
  BY DEF Loaded
<1>2. PICK l : l = image.layout
  OBVIOUS
<1>3. Len(descriptors) = sb.num_block_groups /\ sb.num_block_groups = Len(l.tables)
  BY Zenon, <1>1, <1>2, IntactSb DEF DescriptorsInv
<1>4. \A g \in 1 .. Len(l.tables) : descriptors[g].inode_table = l.tables[g]
  BY ZenonT(40), <1>2, <1>3 DEF DescriptorsInv, Intact, ContentsFit
<1> QED
  BY <1>2, <1>3, <1>4 DEF TablesKnown

(* What Inode::read returns of an image as mkfs wrote it *)
LEMMA ReadsStored ==
  ASSUME SbInv, DescriptorsInv, Intact(image), pc \in {"journal", "ready"},
         NEW n \in image.used, NEW r \in InodeRead(n), ~ r.ok
  PROVE  r.error = "Io"
<1>1. InodeFailure(n) = None
  BY DescriptorsInvTables, IntactInode DEF Loaded
<1> QED
  BY <1>1 DEF InodeRead

LEMMA ReadsOwn ==
  ASSUME SbInv, DescriptorsInv, pc = "ready", Intact(image) \/ sb.metadata_checksums,
         NEW n \in Inodes, NEW r \in InodeRead(n), r.ok
  PROVE  r.inode.number = n
<1>1. InodeFailure(n) = None /\ r.inode = InodeAt(start_byte(n))
  BY DEF InodeRead
<1>2. n \in Nat \ {0}
  BY LoadAssumption
<1>3. CASE sb.metadata_checksums
  BY <1>1, <1>2, <1>3, ChecksumTellsNumber DEF SbInv
<1>4. CASE Intact(image)
  <2>1. TablesKnown /\ Loaded
    BY <1>4, DescriptorsInvTables DEF Loaded
  <2>2. PICK l : l = image.layout
    OBVIOUS
  <2>3. PICK per \in Nat \ {0}, g \in Nat : per = l.inodes_per_group /\ g = Len(l.tables)
    <3>1. l.inodes_per_group \in Nat \ {0} /\ Len(l.tables) \in 1 .. MaxU32
      BY <1>4, <2>2, IntactFields DEF SbInv
    <3>2. Len(l.tables) \in Nat
      BY <3>1, LoadAssumption
    <3> QED
      BY <3>1, <3>2
  <2>4. sb.inodes_per_block_group = per /\ Len(descriptors) = g
    BY <1>4, <2>1, <2>2, <2>3, IntactSb DEF TablesKnown
  <2>5. ~ ((n - 1) \div per >= g)
    <3>1. ~ InodeFails(n, "InodeBlockGroup")
      BY <1>1, InodePasses DEF inodeChecks
    <3> QED
      BY <2>4, <3>1 DEF InodeFails, group_of
  <2>6. n \in 1 .. g * per
    <3>1. PICK a \in Nat : a = n - 1
      BY <1>2
    <3>2. PICK q \in Nat, e \in 0 .. per - 1 : q = a \div per /\ a = per * q + e
      BY Zenon, DivMod
    <3>3. q + 1 <= g
      BY <2>5, <3>1, <3>2
    <3>4. per * (q + 1) <= g * per
      BY <3>3
    <3>5. per * (q + 1) = per * q + per /\ per * q \in Nat /\ g * per \in Nat
      OBVIOUS
    <3>6. a + 1 <= g * per
      BY <3>2, <3>4, <3>5
    <3> QED
      BY <1>2, <3>1, <3>5, <3>6
  <2>7. n \in StoredInodes(image)
    BY <2>2, <2>3, <2>6 DEF StoredInodes
  <2>8. InodeAt(start_byte(n)) = image.inodes[n]
    BY <1>4, <2>1, <2>7, IntactContents
  <2>9. image.inodes[n].number = n \/ image.inodes[n] = ZeroInode
    BY Zenon, <1>4, <2>7 DEF Intact, ContentsFit
  <2>10. image.inodes[n] # ZeroInode
    <3>1. ~ InodeFails(n, "InodeFileType")
      BY <1>1, InodePasses DEF inodeChecks
    <3>2. InodeAt(start_byte(n)).mode \in FileTypes
      BY <3>1 DEF InodeFails
    <3> QED
      BY <2>8, <3>2 DEF ZeroInode, FileTypes
  <2> QED
    BY <1>1, <2>8, <2>9, <2>10
<1> QED
  BY <1>3, <1>4

-----------------------------------------------------------------------------
LEMMA LoadInvInit == Init => LoadInv
  BY SbInvInit DEF Init, LoadInv, DescriptorsInv, Loaded, InodeIsOwn, FailsAsItMay

(* A step that fails as it should, and one that leaves the descriptors *)
LEMMA FailKeeps ==
  ASSUME LoadInv, SbInv', pc # "ready", NEW e, Fail(e), Intact(image) => e \in {"Io", "Journal"}
  PROVE  LoadInv'
<1>1. /\ UNCHANGED <<image, sb, descriptors, asked, inode>> /\ pc' = "error" /\ error' = e
      /\ inode = None
  BY DEF Fail, LoadInv, SbInv
<1>2. DescriptorsInv'
  BY <1>1 DEF LoadInv, DescriptorsInv, OwnDescriptors, Loaded
<1>3. InodeIsOwn' /\ FailsAsItMay'
  BY <1>1 DEF InodeIsOwn, FailsAsItMay
<1> QED
  BY <1>2, <1>3 DEF LoadInv

LEMMA SuperblockFailsStep == LoadInv /\ SbInv' /\ LoadSuperblockFails => LoadInv'
<1> SUFFICES ASSUME LoadInv, SbInv', LoadSuperblockFails PROVE LoadInv'
  OBVIOUS
<1>1. Intact(image) => SuperblockFailure = None
  BY IntactSuperblock DEF LoadInv, SbInv
<1>2. PICK e : Fail(e) /\ (Intact(image) => e \in {"Io", "Journal"})
  BY <1>1 DEF LoadSuperblockFails
<1>3. pc # "ready"
  BY DEF LoadSuperblockFails
<1> QED
  BY <1>2, <1>3, FailKeeps

LEMMA SuperblockStep == LoadInv /\ SbInv' /\ LoadSuperblock => LoadInv'
<1> SUFFICES ASSUME LoadInv, SbInv', LoadSuperblock PROVE LoadInv'
  OBVIOUS
<1>1. /\ UNCHANGED <<image, error, descriptors, asked, inode>> /\ pc = "superblock"
      /\ pc' \in {"descriptors", "panic"} /\ sb' = superblock(image.raw.fields)
      /\ inode = None
  BY DEF LoadSuperblock, LoadInv, SbInv
<1>2. DescriptorsInv'
  <2> SUFFICES ASSUME Intact(image) PROVE DescriptorsInv'
    BY <1>1 DEF DescriptorsInv
  <2>1. descriptors = <<>>
    BY <1>1 DEF LoadInv, DescriptorsInv
  <2>2. PICK l : l = image.layout
    OBVIOUS
  <2>3. num_block_groups(image.raw.fields) \in 1 .. MaxU32
    BY <2>2, IntactFields DEF LoadInv, SbInv
  <2>4. sb'.num_block_groups \in Nat
    BY <1>1, <2>3, LoadAssumption DEF superblock
  <2>5. Len(descriptors) = 0 /\ Len(descriptors') = 0 /\ descriptors' = <<>>
    BY <1>1, <2>1
  <2>6. Len(descriptors') <= sb'.num_block_groups
    BY <2>4, <2>5
  <2> QED
    BY <1>1, <2>5, <2>6 DEF DescriptorsInv
<1>3. InodeIsOwn' /\ FailsAsItMay'
  BY Zenon, <1>1 DEF InodeIsOwn, FailsAsItMay
<1> QED
  BY <1>2, <1>3 DEF LoadInv

(* One round of the loop that reads the descriptors *)
LEMMA DescriptorStep == LoadInv /\ SbInv' /\ ReadDescriptor => LoadInv'
<1> SUFFICES ASSUME LoadInv, SbInv', ReadDescriptor PROVE LoadInv'
  OBVIOUS
<1> DEFINE i == Len(descriptors)
           d == DescriptorAt(get_start_byte(i))
<1>1. /\ SbInv /\ DescriptorsInv /\ InodeIsOwn /\ FailsAsItMay
      /\ pc = "descriptors" /\ Loaded /\ inode = None
      /\ Len(descriptors) < sb.num_block_groups
  BY DEF ReadDescriptor, LoadInv, SbInv, Loaded
<1>2. ASSUME Intact(image)
      PROVE  /\ i \in 0 .. sb.num_block_groups - 1
             /\ get_start_byte(i) # None
             /\ d = image.descriptors[i + 1] /\ i + 1 \in 1 .. Len(image.descriptors)
             /\ sb.metadata_checksums => d.checksum = descriptor_checksum(i, d)
             /\ ~ descriptor_too_short
  <2>1. PICK l : l = image.layout
    OBVIOUS
  <2>2. /\ sb.num_block_groups = Len(l.tables) /\ Len(l.tables) \in 1 .. MaxU32
        /\ ~ descriptor_too_short
    BY <1>1, <1>2, <2>1, IntactSb, IntactFields DEF SbInv
  <2>3. PICK g \in Nat : g = sb.num_block_groups
    BY <2>2, LoadAssumption
  <2>4. i \in Nat
    BY <1>1, <1>2 DEF DescriptorsInv
  <2>5. i < g
    BY <1>1, <2>3
  <2> HIDE DEF i
  <2>6. i \in 0 .. g - 1 /\ i + 1 \in 1 .. g
    BY Zenon, <2>4, <2>5, IndexInRange
  <2>7. Len(image.descriptors) = g
    BY Zenon, <1>2, <2>1, <2>2, <2>3 DEF Intact, ContentsFit
  <2>8. /\ get_start_byte(i) # None
        /\ DescriptorAt(get_start_byte(i)) = image.descriptors[i + 1]
        /\ sb.metadata_checksums =>
              image.descriptors[i + 1].checksum
                 = descriptor_checksum(i, image.descriptors[i + 1])
    BY <1>1, <1>2, <2>3, <2>6, IntactDescriptor
  <2> QED
    BY <2>2, <2>3, <2>6, <2>7, <2>8
<1>3. CASE \E e : Fail(e) /\ (Intact(image) => e = "Io")
  BY <1>1, <1>3, FailKeeps
<1>4. CASE descriptor_too_short /\ Panic
  <2>1. ~ Intact(image)
    BY <1>2, <1>4
  <2>2. UNCHANGED <<image, inode>>
    BY <1>4 DEF Panic
  <2> QED
    BY <1>1, <2>1, <2>2 DEF LoadInv, DescriptorsInv, InodeIsOwn, FailsAsItMay
<1>5. CASE descriptors' = Append(descriptors, d) /\ UNCHANGED <<image, pc, error, sb, asked, inode>>
  <2>1. InodeIsOwn' /\ FailsAsItMay'
    BY <1>1, <1>5 DEF InodeIsOwn, FailsAsItMay
  <2>2. ASSUME Intact(image) PROVE DescriptorsInv'
    <3>1. descriptors \in Seq(OwnDescriptors) /\ d \in OwnDescriptors
      BY Zenon, <1>1, <1>2, <2>2 DEF DescriptorsInv, OwnDescriptors
    <3>2. PICK g \in Nat : g = sb.num_block_groups
      BY <1>1, <2>2, IntactSb, IntactFields, LoadAssumption DEF SbInv
    <3> HIDE DEF d
    <3>3. /\ descriptors' \in Seq(OwnDescriptors) /\ i \in Nat
          /\ Len(descriptors') = i + 1
          /\ \A k \in 1 .. i : descriptors'[k] = descriptors[k]
          /\ descriptors'[i + 1] = d
      BY <1>5, <3>1
    <3> HIDE DEF i
    <3>4. \A k \in 1 .. Len(descriptors') : descriptors'[k] = image.descriptors[k]
      <4>1. \A k \in 1 .. i : descriptors[k] = image.descriptors[k]
        BY <1>1, <2>2 DEF DescriptorsInv, i
      <4>2. d = image.descriptors[i + 1]
        BY <1>2, <2>2
      <4> QED
        BY <3>3, <4>1, <4>2
    <3>5. Len(descriptors') <= g
      <4>1. i < g
        BY <1>1, <3>2 DEF i
      <4> QED
        BY <3>3, <4>1
    <3> QED
      BY <1>1, <1>5, <3>2, <3>3, <3>4, <3>5 DEF DescriptorsInv, OwnDescriptors
  <2>3. ASSUME ~ Intact(image) PROVE DescriptorsInv'
    BY <1>5, <2>3 DEF DescriptorsInv
  <2> QED
    BY <2>1, <2>2, <2>3 DEF LoadInv
<1> QED
  BY <1>2, <1>3, <1>4, <1>5 DEF ReadDescriptor

(* The journal's inode is found, and what goes wrong after that is the     *)
(* journal's.                                                              *)
LEMMA JournalStep == LoadInv /\ SbInv' /\ LoadJournal => LoadInv'
<1> SUFFICES ASSUME LoadInv, SbInv', LoadJournal PROVE LoadInv'
  OBVIOUS
<1>1. /\ SbInv /\ DescriptorsInv /\ InodeIsOwn /\ FailsAsItMay
      /\ pc = "journal" /\ Loaded /\ inode = None
  BY DEF LoadJournal, LoadInv, SbInv, Loaded
<1>2. CASE Ready
  <2>1. UNCHANGED <<image, error, sb, descriptors, asked, inode>> /\ pc' = "ready"
    BY <1>2 DEF Ready
  <2>2. DescriptorsInv'
    BY <1>1, <2>1 DEF DescriptorsInv, OwnDescriptors, Loaded
  <2>3. InodeIsOwn' /\ FailsAsItMay'
    BY <1>1, <2>1 DEF InodeIsOwn, FailsAsItMay
  <2> QED
    BY <2>2, <2>3 DEF LoadInv
<1>3. ASSUME Intact(image), sb.journal_inode # None
      PROVE  sb.journal_inode \in image.used
  <2> DEFINE f == image.raw.fields
  <2>1. sb.journal_inode = IF NeedsRecovery(f) THEN f.journal_inum ELSE None
    <3>1. sb = superblock(f)
      BY <1>1 DEF SbInv
    <3> QED
      BY Zenon, <3>1 DEF superblock
  <2>2. NeedsRecovery(f) /\ sb.journal_inode = f.journal_inum
    BY <1>3, <2>1
  <2> QED
    BY Zenon, <1>3, <2>2 DEF Intact, ContentsFit, NeedsRecovery
<1>4. ASSUME NEW r \in InodeRead(sb.journal_inode), ~ r.ok, sb.journal_inode # None,
             Intact(image)
      PROVE  r.error = "Io"
  BY <1>1, <1>3, <1>4, ReadsStored
<1>5. CASE \E e : Fail(e) /\ (Intact(image) => e \in {"Io", "Journal"})
  BY <1>1, <1>5, FailKeeps
<1> QED
  BY <1>2, <1>4, <1>5 DEF LoadJournal

LEMMA ReadInodeStep ==
  ASSUME LoadInv, SbInv', NEW n \in Inodes, ReadInode(n)
  PROVE  LoadInv'
<1>1. /\ SbInv /\ DescriptorsInv /\ pc = "ready" /\ asked' = n /\ inode' \in InodeRead(n)
      /\ UNCHANGED <<image, pc, error, sb, descriptors>>
  BY DEF ReadInode, LoadInv
<1>2. DescriptorsInv'
  BY <1>1 DEF DescriptorsInv, OwnDescriptors, Loaded
<1>3. InodeIsOwn'
  <2> SUFFICES ASSUME inode'.ok, Intact(image) \/ sb.metadata_checksums
               PROVE  inode'.inode.number = n
    BY <1>1 DEF InodeIsOwn
  <2> QED
    BY <1>1, ReadsOwn
<1>4. FailsAsItMay'
  <2> SUFFICES ASSUME Intact(image), n \in image.used, ~ inode'.ok
               PROVE  inode'.error = "Io"
    BY <1>1 DEF FailsAsItMay
  <2> QED
    BY <1>1, ReadsStored
<1> QED
  BY <1>2, <1>3, <1>4 DEF LoadInv

LEMMA LoadInvStep == LoadInv /\ [Next]_vars => LoadInv'
<1> SUFFICES ASSUME LoadInv, [Next]_vars PROVE LoadInv'
  OBVIOUS
<1>1. SbInv'
  BY Zenon, SbInvStep DEF LoadInv
<1>2. CASE UNCHANGED vars
  BY <1>1, <1>2 DEF LoadInv, DescriptorsInv, OwnDescriptors, Loaded, InodeIsOwn,
                    FailsAsItMay, vars
<1>3. CASE DescriptorsRead
  <2>1. /\ UNCHANGED <<image, error, sb, descriptors, asked, inode>> /\ pc' = "journal"
        /\ Len(descriptors) = sb.num_block_groups /\ inode = None /\ Loaded
    BY <1>3 DEF DescriptorsRead, LoadInv, SbInv, Loaded
  <2>2. DescriptorsInv'
    BY <2>1 DEF LoadInv, DescriptorsInv, OwnDescriptors, Loaded
  <2>3. InodeIsOwn' /\ FailsAsItMay'
    BY <2>1 DEF InodeIsOwn, FailsAsItMay
  <2> QED
    BY <1>1, <2>2, <2>3 DEF LoadInv
<1>4. CASE Load
  BY <1>1, <1>3, <1>4, SuperblockFailsStep, SuperblockStep, DescriptorStep, JournalStep DEF Load
<1>5. CASE \E n \in Inodes : ReadInode(n)
  BY <1>1, <1>5, ReadInodeStep
<1> QED
  BY <1>2, <1>4, <1>5 DEF Next

(* For every image and every inode number: Inode::read never returns an    *)
(* inode other than the one asked for, on an image as mkfs wrote it, and   *)
(* on any image with metadata checksums.                                   *)
THEOREM LoadInodeIsOwn == Spec => []InodeIsOwn
<1>1. LoadInv => InodeIsOwn
  BY DEF LoadInv
<1> QED
  BY <1>1, LoadInvInit, LoadInvStep, PTL DEF Spec

(* Whatever block size, groups, descriptor size, inode size, features and  *)
(* tables of inodes mkfs chose, Ext4::load accepts the filesystem, finds   *)
(* every descriptor and every inode in use, and rejects none.              *)
THEOREM LoadIntactIsReadable == Spec => []IntactIsReadable
<1>1. SbInv /\ Intact(image) => pc # "panic"
  <2> SUFFICES ASSUME SbInv, Intact(image), pc = "panic" PROVE FALSE
    OBVIOUS
  <2>1. ~ descriptor_too_short
    BY IntactSb DEF Loaded
  <2> QED
    BY <2>1 DEF SbInv, PanicIsShort, descriptor_too_short
<1>2. LoadInv => IntactIsReadable
  BY <1>1 DEF LoadInv, FailsAsItMay, IntactIsReadable
<1> QED
  BY <1>2, LoadInvInit, LoadInvStep, PTL DEF Spec

-----------------------------------------------------------------------------
(* What a place of a descriptor may hold *)
FoundDescriptors == OwnDescriptors \cup {[inode_table |-> 0, checksum |-> Zeros]}

LEMMA DescriptorFound ==
  ASSUME NEW start
  PROVE  DescriptorAt(start) \in FoundDescriptors
<1> DEFINE here == {i \in 1 .. Len(image.descriptors) :
                       DescriptorPlace(image, i - 1) = start}
<1>1. CASE here = {}
  BY Zenon, <1>1 DEF DescriptorAt, FoundDescriptors
<1>2. CASE here # {}
  <2>1. PICK g \in 1 .. Len(image.descriptors) : DescriptorAt(start) = image.descriptors[g]
    BY Zenon, <1>2 DEF DescriptorAt
  <2> QED
    BY Zenon, <2>1 DEF FoundDescriptors, OwnDescriptors
<1> QED
  BY <1>1, <1>2

(* The checksum of a descriptor is over the number of its group: one that  *)
(* passes as descriptor i is the one that mkfs wrote for group i.          *)
LEMMA ChecksumTellsGroup ==
  ASSUME image \in Images, NEW i \in Nat, NEW d \in FoundDescriptors,
         d.checksum = descriptor_checksum(i, d)
  PROVE  /\ i + 1 <= Len(image.layout.tables)
         /\ d.inode_table = image.layout.tables[i + 1]
<1> DEFINE size == sb.block_group_descriptor_size
<1>1. d.checksum = <<sb.checksum_seed, <<i, d.inode_table, size>>>>
  BY DEF descriptor_checksum, Checksum
<1>2. d.checksum[2] = <<i, d.inode_table, size>>
  BY <1>1
<1>3. d.checksum # Zeros
  <2>1. Zeros[2] = <<>>
    BY DEF Zeros, Checksum
  <2>2. Len(<<>>) # Len(<<i, d.inode_table, size>>)
    OBVIOUS
  <2> QED
    BY Zenon, <1>2, <2>1, <2>2
<1>4. PICK g \in 1 .. Len(image.descriptors) : d = image.descriptors[g]
  <2>1. d # [inode_table |-> 0, checksum |-> Zeros]
    BY <1>3
  <2> QED
    BY Zenon, <2>1 DEF FoundDescriptors, OwnDescriptors
<1>5. PICK n \in Nat : n = Len(image.descriptors)
  BY ImagesAssumption DEF IsImage
<1>6. /\ g <= Len(image.layout.tables)
      /\ d.checksum[2] = <<g - 1, image.layout.tables[g], image.layout.desc_size>>
  BY Zenon, <1>3, <1>4, ImagesAssumption DEF IsImage
<1>7. <<i, d.inode_table, size>> =
         <<g - 1, image.layout.tables[g], image.layout.desc_size>>
  BY Zenon, <1>2, <1>6
<1>8. i = g - 1 /\ d.inode_table = image.layout.tables[g]
  BY Zenon, <1>7
<1>9. i + 1 = g
  BY <1>4, <1>5, <1>8
<1> QED
  BY <1>6, <1>8, <1>9

DescriptorsOwnInv ==
    /\ descriptors \in Seq(FoundDescriptors)
    /\ pc = "superblock" => descriptors = <<>>
    /\ DescriptorsAreOwn

LEMMA DescriptorsOwnInit == Init => DescriptorsOwnInv
  BY DEF Init, DescriptorsOwnInv, DescriptorsAreOwn

(* A descriptor that passed its checks is added. *)
LEMMA DescriptorsOwnAppend ==
  ASSUME image \in Images, DescriptorsOwnInv, NEW d \in FoundDescriptors,
         sb.metadata_checksums => d.checksum = descriptor_checksum(Len(descriptors), d),
         descriptors' = Append(descriptors, d), UNCHANGED <<image, sb, pc>>,
         pc = "descriptors"
  PROVE  DescriptorsOwnInv'
<1>1. PICK i \in Nat : i = Len(descriptors)
  BY DEF DescriptorsOwnInv
<1>2. /\ descriptors' \in Seq(FoundDescriptors) /\ Len(descriptors') = i + 1
      /\ \A k \in 1 .. i : descriptors'[k] = descriptors[k]
      /\ descriptors'[i + 1] = d
  BY <1>1 DEF DescriptorsOwnInv
<1>3. FoundDescriptors' = FoundDescriptors
  BY Zenon DEF FoundDescriptors, OwnDescriptors
<1>4. ASSUME sb.metadata_checksums, NEW k \in 1 .. i + 1
      PROVE  /\ k <= Len(image.layout.tables)
             /\ descriptors'[k].inode_table = image.layout.tables[k]
  <2>1. CASE k = i + 1
    BY <1>1, <1>2, <1>4, <2>1, ChecksumTellsGroup
  <2>2. CASE k \in 1 .. i
    <3>1. descriptors # <<>>
      BY <1>1, <2>2
    <3> QED
      BY <1>1, <1>2, <1>4, <2>2, <3>1 DEF DescriptorsOwnInv, DescriptorsAreOwn
  <2> QED
    BY <1>1, <1>4, <2>1, <2>2
<1>5. DescriptorsAreOwn'
  BY <1>2, <1>4 DEF DescriptorsAreOwn
<1> QED
  BY <1>2, <1>3, <1>5 DEF DescriptorsOwnInv

LEMMA DescriptorsOwnStep ==
  ASSUME SbInv, DescriptorsOwnInv, [Next]_vars
  PROVE  DescriptorsOwnInv'
<1>1. CASE UNCHANGED <<image, sb, descriptors>> /\ (pc' = "superblock" => pc = "superblock")
  <2>1. FoundDescriptors' = FoundDescriptors
    BY Zenon, <1>1 DEF FoundDescriptors, OwnDescriptors
  <2> QED
    BY <1>1, <2>1 DEF DescriptorsOwnInv, DescriptorsAreOwn
<1>2. CASE LoadSuperblock
  <2>1. image' = image /\ descriptors' = descriptors /\ descriptors = <<>>
    BY <1>2 DEF LoadSuperblock, DescriptorsOwnInv
  <2> QED
    BY <2>1 DEF DescriptorsOwnInv, DescriptorsAreOwn
<1>3. CASE ReadDescriptor
  <2> DEFINE d == DescriptorAt(get_start_byte(Len(descriptors)))
  <2>1. CASE /\ sb.metadata_checksums =>
                   d.checksum = descriptor_checksum(Len(descriptors), d)
             /\ descriptors' = Append(descriptors, d)
             /\ UNCHANGED <<image, pc, error, sb, asked, inode>>
    <3>1. d \in FoundDescriptors
      BY DescriptorFound
    <3>2. pc = "descriptors" /\ image \in Images
      BY <1>3 DEF ReadDescriptor, SbInv
    <3> HIDE DEF d
    <3> QED
      BY <2>1, <3>1, <3>2, DescriptorsOwnAppend
  <2>2. CASE Panic \/ \E e : Fail(e)
    BY <1>1, <2>2 DEF Panic, Fail
  <2> QED
    BY <1>3, <2>1, <2>2 DEF ReadDescriptor
<1>4. CASE LoadSuperblockFails
  BY <1>1, <1>4 DEF LoadSuperblockFails, Fail
<1>5. CASE DescriptorsRead
  BY <1>1, <1>5 DEF DescriptorsRead
<1>6. CASE LoadJournal
  BY <1>1, <1>6 DEF LoadJournal, Fail, Ready
<1>7. CASE \E n \in Inodes : ReadInode(n)
  BY <1>1, <1>7 DEF ReadInode
<1>8. CASE UNCHANGED vars
  BY <1>1, <1>8 DEF vars
<1> QED
  BY <1>2, <1>3, <1>4, <1>5, <1>6, <1>7, <1>8 DEF Next, Load

(* For every image with metadata checksums, however damaged: the           *)
(* descriptors that Ext4::load keeps are those that mkfs wrote, each for   *)
(* its own group.                                                          *)
THEOREM LoadDescriptorsAreOwn == Spec => []DescriptorsAreOwn
<1>1. SbInv /\ DescriptorsOwnInv /\ [Next]_vars => SbInv' /\ DescriptorsOwnInv'
  BY SbInvStep, DescriptorsOwnStep
<1>2. DescriptorsOwnInv => DescriptorsAreOwn
  BY DEF DescriptorsOwnInv
<1> QED
  BY <1>1, <1>2, SbInvInit, DescriptorsOwnInit, PTL DEF Spec
=============================================================================

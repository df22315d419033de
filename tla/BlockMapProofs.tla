--------------------------- MODULE BlockMapProofs ---------------------------
(***************************************************************************)
(* Proofs about BlockMap for every number of entries in a block and every  *)
(* block map: the number of items and their values.                        *)
(***************************************************************************)
EXTENDS BlockMap, TLAPS

(* Number of entries taken at depth i below the current entry of level_0,  *)
(* over all the blocks at that depth, when the open blocks are ls.         *)
Taken(ls, i) ==
    LET t1 == ls[1].index
        t2 == (t1 - 1) * EntriesPerBlock + ls[2].index
        t3 == (t2 - 1) * EntriesPerBlock + ls[3].index
    IN  CASE i = 1 -> t1 [] i = 2 -> t2 [] i = 3 -> t3

(* Each open block is the entry of the one around it that was taken last.  *)
StackInv ==
    levels # <<>> =>
        /\ Depth \in 1 .. 3 /\ Len(levels) <= Depth
        /\ levels[1].block = Root(Depth)
        /\ \A i \in 1 .. Len(levels) - 1 :
              /\ levels[i].index > 0
              /\ levels[i + 1].block = map.disk[levels[i].block][levels[i].index]

(* The number of items is the number of file blocks before the place where *)
(* the iterator is.                                                        *)
CountInv ==
    /\ Len(map_yielded) = num_blocks_yielded
    /\ num_blocks_yielded =
          IF level_0_index < NumDirect THEN level_0_index
          ELSE IF levels = <<>> THEN Before(Depth)
          ELSE Before(Depth)
                 + Taken(levels, Len(levels)) * Span(Depth - Len(levels))

MapInv == MapTypeOK /\ StackInv /\ CountInv /\ YieldsMappedBlocks

(* A product grows by at least n from one multiple of n to the next. *)
LEMMA Multiples ==
  ASSUME NEW n \in Nat, NEW a \in Nat, NEW b \in Nat, a < b
  PROVE  a * n + n <= b * n
<1>1. PICK d \in Nat : b = a + 1 + d
  <2>1. b - a - 1 \in Nat /\ b = a + 1 + (b - a - 1)
    OBVIOUS
  <2> QED
    BY <2>1
<1>2. b * n = a * n + n + d * n
  BY <1>1
<1>3. d * n \in Nat /\ a * n \in Nat
  OBVIOUS
<1> QED
  BY <1>2, <1>3

LEMMA DivFacts ==
  ASSUME NEW n \in Nat \ {0}, NEW x \in Nat
  PROVE  x \div n \in Nat /\ x % n \in 0 .. n - 1 /\ x = (x \div n) * n + (x % n)
OBVIOUS

(* The quotient and the remainder of a number written with them *)
LEMMA DivMod ==
  ASSUME NEW n \in Nat \ {0}, NEW a \in Nat, NEW b \in 0 .. n - 1
  PROVE  (a * n + b) \div n = a /\ (a * n + b) % n = b
<1> DEFINE x == a * n + b
           q == x \div n
           r == x % n
<1>1. x \in Nat /\ a * n \in Nat
  OBVIOUS
<1>2. q \in Nat /\ r \in 0 .. n - 1 /\ x = q * n + r
  BY <1>1, DivFacts
<1>3. q * n \in Nat
  BY <1>2
<1> HIDE DEF q, r
<1>4. ~ q < a
  BY <1>1, <1>2, <1>3, Multiples
<1>5. ~ a < q
  BY <1>1, <1>2, <1>3, Multiples
<1>6. q = a
  BY <1>2, <1>4, <1>5
<1> QED
  BY <1>2, <1>6 DEF q, r

LEMMA Spans ==
  ASSUME AreMaps
  PROVE  /\ NumDirect \in Nat /\ EntriesPerBlock \in Nat /\ EntriesPerBlock > 0
         /\ Span(0) = 1 /\ Span(1) = EntriesPerBlock
         /\ \A n \in 0 .. 3 : Span(n) \in Nat
         /\ \A n \in 0 .. 2 : Span(n + 1) = EntriesPerBlock * Span(n)
         /\ Before(1) = NumDirect
         /\ \A n \in 1 .. 4 : Before(n) \in Nat
         /\ \A n \in 1 .. 3 : Before(n + 1) = Before(n) + Span(n)
         /\ Capacity = Before(4)
<1>1. /\ NumDirect \in Nat /\ EntriesPerBlock \in Nat /\ EntriesPerBlock > 0
  BY DEF AreMaps
<1>2. PICK s2 \in Nat : s2 = EntriesPerBlock * EntriesPerBlock
  BY <1>1
<1>3. PICK s3 \in Nat : s3 = EntriesPerBlock * EntriesPerBlock * EntriesPerBlock
  BY <1>1
<1>4. s3 = EntriesPerBlock * s2
  BY <1>1, <1>2, <1>3
<1>5. /\ Span(0) = 1 /\ Span(1) = EntriesPerBlock /\ Span(2) = s2
      /\ Span(3) = s3
  BY <1>2, <1>3 DEF Span
<1>6. /\ Before(1) = NumDirect /\ Before(2) = NumDirect + EntriesPerBlock
      /\ Before(3) = NumDirect + EntriesPerBlock + s2
      /\ Before(4) = NumDirect + EntriesPerBlock + s2 + s3
  BY <1>5 DEF Before
<1>7. \A n \in 0 .. 3 : Span(n) \in Nat
  BY <1>1, <1>5
<1>8. \A n \in 0 .. 2 : Span(n + 1) = EntriesPerBlock * Span(n)
  <2> SUFFICES ASSUME NEW n \in 0 .. 2
               PROVE  Span(n + 1) = EntriesPerBlock * Span(n)
    OBVIOUS
  <2>1. n = 0 \/ n = 1 \/ n = 2
    OBVIOUS
  <2> QED
    BY <1>1, <1>2, <1>4, <1>5, <2>1
<1>9. \A n \in 1 .. 4 : Before(n) \in Nat
  BY <1>1, <1>6
<1>10. \A n \in 1 .. 3 : Before(n + 1) = Before(n) + Span(n)
  BY <1>1, <1>5, <1>6
<1> QED
  BY <1>1, <1>5, <1>6, <1>7, <1>8, <1>9, <1>10 DEF Capacity

LEMMA Lengths ==
  ASSUME NEW S, NEW s \in Seq(S)
  PROVE  Len(s) \in Nat /\ (s = <<>> <=> Len(s) = 0) /\ (s # <<>> => Len(s) \in 1 .. Len(s))
OBVIOUS

(* What the type invariant says of the file and of the stack *)
LEMMA MapTypes ==
  ASSUME AreMaps, MapTypeOK
  PROVE  /\ level_0_index \in 0 .. NumDirect + 3 /\ Depth = level_0_index - NumDirect + 1
         /\ Depth \in Int
         /\ levels \in Seq(Level) /\ Len(levels) \in 0 .. 3
         /\ num_blocks_yielded \in Nat /\ map.num_blocks_total \in Nat
         /\ num_blocks_yielded <= map.num_blocks_total
         /\ map_yielded \in Seq(Nat)
<1>1. NumDirect \in Nat
  BY Zenon, Spans
<1>2. level_0_index \in 0 .. NumDirect + 3
  BY <1>1 DEF MapTypeOK, NumEntries
<1>3. map.num_blocks_total \in Nat
  BY Zenon DEF AreMaps, MapTypeOK, IsMap
<1>4. levels \in Seq(Level) /\ Len(levels) <= 3 /\ map_yielded \in Seq(Nat)
      /\ num_blocks_yielded \in 0 .. map.num_blocks_total
  BY Zenon DEF MapTypeOK
<1>5. Len(levels) \in 0 .. 3
  <2>1. PICK n : n = Len(levels)
    BY Zenon
  <2>2. n \in Nat /\ n <= 3
    BY Zenon, <1>4, <2>1, Lengths
  <2>3. n \in 0 .. 3
    BY <2>2
  <2> QED
    BY Zenon, <2>1, <2>3
<1>6. Depth = level_0_index - NumDirect + 1
  BY Zenon DEF Depth
<1>7. /\ num_blocks_yielded \in Nat /\ num_blocks_yielded <= map.num_blocks_total
      /\ level_0_index - NumDirect + 1 \in Int
  BY <1>1, <1>2, <1>3, <1>4
<1> QED
  BY Zenon, <1>2, <1>3, <1>4, <1>5, <1>6, <1>7

LEMMA MapFile ==
  ASSUME AreMaps, MapTypeOK
  PROVE  /\ 0 \notin DOMAIN map.disk
         /\ \A b \in DOMAIN map.disk : \A i \in 1 .. EntriesPerBlock : map.disk[b][i] \in Nat
         /\ \A i \in 1 .. NumDirect + 3 : map.level_0[i] \in Nat
<1>1. IsMap(map)
  BY Zenon DEF AreMaps, MapTypeOK
<1>2. 0 \notin DOMAIN map.disk
  BY Zenon, <1>1 DEF IsMap
<1>3. \A b \in DOMAIN map.disk : map.disk[b] \in [1 .. EntriesPerBlock -> Nat]
  BY Zenon, <1>1 DEF IsMap
<1>4. \A i \in 1 .. NumDirect + 3 : map.level_0[i] \in Nat
  BY Zenon, <1>1 DEF IsMap, NumEntries
<1> QED
  BY Zenon, <1>2, <1>3, <1>4

LEMMA LevelTypes ==
  ASSUME NEW ls \in Seq(Level), NEW i \in 1 .. Len(ls)
  PROVE  /\ ls[i] \in Level /\ ls[i].block \in DOMAIN map.disk
         /\ ls[i].index \in 0 .. EntriesPerBlock
<1>1. ls[i] \in Level
  OBVIOUS
<1> QED
  BY <1>1 DEF Level

LEMMA TakenStep ==
  ASSUME NEW ls
  PROVE  /\ Taken(ls, 1) = ls[1].index
         /\ Taken(ls, 2) = (Taken(ls, 1) - 1) * EntriesPerBlock + ls[2].index
         /\ Taken(ls, 3) = (Taken(ls, 2) - 1) * EntriesPerBlock + ls[3].index
BY DEF Taken

(* Two stacks with the same indices *)
LEMMA TakenSame ==
  ASSUME NEW ls, NEW ms, NEW n \in 1 .. 3, \A i \in 1 .. n : ls[i].index = ms[i].index
  PROVE  Taken(ls, n) = Taken(ms, n)
<1>1. n = 1 \/ n = 2 \/ n = 3
  OBVIOUS
<1>2. ls[1].index = ms[1].index
  OBVIOUS
<1>3. n > 1 => ls[2].index = ms[2].index
  OBVIOUS
<1>4. n = 3 => ls[3].index = ms[3].index
  OBVIOUS
<1> QED
  BY <1>1, <1>2, <1>3, <1>4, TakenStep

(* A stack of which each block but the last has a taken entry *)
LEMMA TakenType ==
  ASSUME AreMaps, NEW ls \in Seq(Level), NEW n \in 1 .. Len(ls), n <= 3,
         \A i \in 1 .. n - 1 : ls[i].index > 0
  PROVE  /\ Taken(ls, n) \in Nat
         /\ ls[n].index > 0 => Taken(ls, n) > 0
<1>1. EntriesPerBlock \in Nat /\ EntriesPerBlock > 0
  BY Zenon, Spans
<1>2. \A i \in 1 .. n : ls[i].index \in Nat
  BY <1>1, LevelTypes
<1>3. PICK x \in Nat : x = ls[1].index /\ Taken(ls, 1) = x /\ (n > 1 => x > 0)
  BY <1>2, TakenStep
<1>4. CASE n = 1
  BY <1>3, <1>4
<1>5. ASSUME n > 1 PROVE Taken(ls, 2) \in Nat /\ (ls[2].index > 0 => Taken(ls, 2) > 0)
  <2>1. (x - 1) * EntriesPerBlock \in Nat
    BY <1>1, <1>3, <1>5
  <2>2. ls[2].index \in Nat
    BY <1>2, <1>5
  <2>3. Taken(ls, 2) = (x - 1) * EntriesPerBlock + ls[2].index
    BY <1>3, TakenStep
  <2> QED
    BY <2>1, <2>2, <2>3
<1>6. CASE n = 2
  BY <1>5, <1>6
<1>7. CASE n = 3
  <2>1. ls[2].index > 0
    BY <1>7
  <2>2. PICK y \in Nat : y = Taken(ls, 2) /\ y > 0
    BY <1>5, <1>7, <2>1
  <2>3. (y - 1) * EntriesPerBlock \in Nat
    BY <1>1, <2>2
  <2>4. ls[3].index \in Nat
    BY <1>2, <1>7
  <2>5. Taken(ls, 3) = (y - 1) * EntriesPerBlock + ls[3].index
    BY <2>2, TakenStep
  <2> QED
    BY <1>7, <2>3, <2>4, <2>5
<1>8. n = 1 \/ n = 2 \/ n = 3
  OBVIOUS
<1> QED
  BY <1>4, <1>6, <1>7, <1>8

(* The stack after an entry of the innermost block was taken *)
LEMMA AdvancedStack ==
  ASSUME AreMaps, MapTypeOK, StackInv, levels # <<>>, NEW n, n = Len(levels),
         levels[n].index < EntriesPerBlock, NEW ls, ls = Advanced
  PROVE  /\ ls \in Seq(Level) /\ Len(ls) = n /\ n \in 1 .. 3
         /\ \A i \in 1 .. n : ls[i].block = levels[i].block
         /\ \A i \in 1 .. n - 1 : ls[i].index = levels[i].index
         /\ ls[n].index = levels[n].index + 1
         /\ Taken(levels, n) \in Nat
         /\ Taken(ls, n) = Taken(levels, n) + 1
<1>1. n \in 1 .. 3 /\ levels \in Seq(Level) /\ EntriesPerBlock \in Nat
  <2>1. Len(levels) \in 0 .. 3 /\ levels \in Seq(Level) /\ EntriesPerBlock \in Nat
    BY Zenon, MapTypes, Spans
  <2>2. Len(levels) # 0
    BY Zenon, <2>1, Lengths
  <2> QED
    BY <2>1, <2>2
<1>2. levels[n] \in Level /\ levels[n].index \in 0 .. EntriesPerBlock
  BY <1>1, LevelTypes
<1> DEFINE r == [levels[n] EXCEPT !.index = levels[n].index + 1]
<1>3. ls = [levels EXCEPT ![n] = r]
  BY Zenon DEF Advanced
<1>4. r \in Level /\ r.block = levels[n].block /\ r.index = levels[n].index + 1
  BY <1>1, <1>2 DEF Level
<1> HIDE DEF r
<1>5. /\ ls \in Seq(Level) /\ Len(ls) = n /\ ls[n] = r
      /\ \A i \in 1 .. n : i # n => ls[i] = levels[i]
  BY <1>1, <1>3, <1>4
<1>6. \A i \in 1 .. n : ls[i].block = levels[i].block
  BY Zenon, <1>4, <1>5
<1>7. \A i \in 1 .. n - 1 : ls[i].index = levels[i].index
  BY <1>1, <1>5
<1>8. ls[n].index = levels[n].index + 1
  BY Zenon, <1>4, <1>5
<1>9. Taken(levels, n) \in Nat
  BY <1>1, TakenType DEF StackInv
<1>10. Taken(ls, n) = Taken(levels, n) + 1
  <2>1. CASE n = 1
    BY <1>2, <1>8, <2>1, TakenStep
  <2>2. CASE n = 2
    <3>1. Taken(ls, 1) = Taken(levels, 1)
      BY <1>7, <2>2, TakenStep
    <3>2. PICK x : x = (Taken(levels, 1) - 1) * EntriesPerBlock
      OBVIOUS
    <3>3. Taken(levels, 2) = x + levels[2].index /\ Taken(ls, 2) = x + ls[2].index
      BY Zenon, <3>1, <3>2, TakenStep
    <3>4. x \in Int
      <4>1. Taken(levels, 1) \in Int
        BY <1>1, <2>2, LevelTypes, TakenStep
      <4> QED
        BY <1>1, <3>2, <4>1
    <3> QED
      BY <1>2, <1>8, <2>2, <3>3, <3>4
  <2>3. CASE n = 3
    <3>1. Taken(ls, 2) = Taken(levels, 2)
      <4>1. \A i \in 1 .. 2 : ls[i].index = levels[i].index
        BY <1>7, <2>3
      <4> QED
        BY <4>1, TakenSame
    <3>2. PICK x : x = (Taken(levels, 2) - 1) * EntriesPerBlock
      OBVIOUS
    <3>3. Taken(levels, 3) = x + levels[3].index /\ Taken(ls, 3) = x + ls[3].index
      BY Zenon, <3>1, <3>2, TakenStep
    <3>4. x \in Int
      <4>1. \A i \in 1 .. 1 : levels[i].index > 0
        BY <1>1, <2>3 DEF StackInv
      <4>2. Taken(levels, 2) \in Nat
        <5>1. 2 \in 1 .. Len(levels) /\ 2 <= 3 /\ 2 - 1 = 1
          BY <2>3
        <5> QED
          BY Zenon, <1>1, <4>1, <5>1, TakenType
      <4> QED
        BY <1>1, <3>2, <4>2
    <3> QED
      BY <1>2, <1>8, <2>3, <3>3, <3>4
  <2> QED
    BY <1>1, <2>1, <2>2, <2>3
<1> QED
  BY Zenon, <1>1, <1>5, <1>6, <1>7, <1>8, <1>9, <1>10

(* Where the file has its blocks does not change. *)
LEMMA SameBlocks ==
  ASSUME UNCHANGED map
  PROVE  /\ \A k : FileBlock(k)' = FileBlock(k)
         /\ Level' = Level
         /\ \A n : Root(n)' = Root(n)
<1>1. \A n : Root(n)' = Root(n)
  BY Zenon DEF Root
<1>2. \A b, i : Child(b, i)' = Child(b, i)
  BY Zenon DEF Child
<1>3. \A k : FileBlock(k)' = FileBlock(k)
  BY DEF FileBlock, Below, Child, Root
<1>4. Level' = Level
  BY Zenon DEF Level
<1> QED
  BY Zenon, <1>1, <1>3, <1>4

(* An item that is the right one keeps the items right. *)
LEMMA MapInvYield ==
  ASSUME AreMaps, MapInv, UNCHANGED map, NEW b \in Nat, MapYield(b), ~ map_done,
         num_blocks_yielded < map.num_blocks_total,
         b = FileBlock(num_blocks_yielded)
  PROVE  /\ YieldsMappedBlocks' /\ map_yielded' \in Seq(Nat)
         /\ Len(map_yielded') = num_blocks_yielded'
         /\ num_blocks_yielded' = num_blocks_yielded + 1
         /\ num_blocks_yielded' \in 0 .. map.num_blocks_total
         /\ map_done' = map_done /\ map_error' = map_error
<1> DEFINE n == num_blocks_yielded
<1>1. /\ n \in Nat /\ map.num_blocks_total \in Nat /\ map_yielded \in Seq(Nat) /\ Len(map_yielded) = n
  BY Zenon, MapTypes DEF MapInv, CountInv
<1>2. map_yielded' = Append(map_yielded, b) /\ n' = n + 1 /\ map_done' = map_done /\ map_error' = map_error
  BY Zenon DEF MapYield
<1>3. /\ map_yielded' \in Seq(Nat) /\ Len(map_yielded') = n + 1 /\ map_yielded'[n + 1] = b
      /\ \A k \in 1 .. n : map_yielded'[k] = map_yielded[k]
  BY <1>1, <1>2
<1>4. n + 1 \in 0 .. map.num_blocks_total /\ (n + 1) - 1 = n
  BY <1>1
<1>5. ASSUME NEW k \in 1 .. Len(map_yielded') PROVE map_yielded'[k] = FileBlock(k - 1)'
  <2>1. k \in 1 .. n \/ k = n + 1
    BY <1>1, <1>3
  <2>2. CASE k \in 1 .. n
    BY Zenon, <1>1, <1>3, <2>2, SameBlocks DEF MapInv, YieldsMappedBlocks
  <2>3. CASE k = n + 1
    BY Zenon, <1>3, <1>4, <2>3, SameBlocks
  <2> QED
    BY Zenon, <2>1, <2>2, <2>3
<1> QED
  BY Zenon, <1>2, <1>3, <1>4, <1>5 DEF YieldsMappedBlocks

(* Steps without an item *)
LEMMA MapNoItem ==
  ASSUME AreMaps, MapInv, UNCHANGED <<map, map_yielded, num_blocks_yielded>>,
         \/ UNCHANGED <<map_done, map_error>>
         \/ map_done' /\ map_error'
         \/ map_done' /\ (\/ num_blocks_yielded = map.num_blocks_total
                         \/ Capacity < map.num_blocks_total)
  PROVE  YieldsMappedBlocks'
<1>1. \A k \in 1 .. Len(map_yielded') : map_yielded'[k] = FileBlock(k - 1)'
  BY Zenon, SameBlocks DEF MapInv, YieldsMappedBlocks
<1>2. Capacity' = Capacity /\ Capacity \in Nat /\ map.num_blocks_total \in Nat
  <2>1. Capacity' = Capacity
    BY Zenon DEF Capacity, Before, Span
  <2>2. Before(4) \in Nat
    BY Spans
  <2> QED
    BY Zenon, <2>1, <2>2, MapTypes DEF MapInv, Capacity
<1>3. ASSUME map_done', ~ map_error', map.num_blocks_total <= Capacity
      PROVE  Len(map_yielded) = map.num_blocks_total
  <2>1. CASE UNCHANGED <<map_done, map_error>>
    BY Zenon, <1>3, <2>1 DEF MapInv, YieldsMappedBlocks
  <2>2. ~ Capacity < map.num_blocks_total
    BY <1>2, <1>3
  <2>3. CASE num_blocks_yielded = map.num_blocks_total
    BY Zenon, <2>3 DEF MapInv, CountInv
  <2> QED
    BY Zenon, <1>3, <2>1, <2>2, <2>3
<1> QED
  BY Zenon, <1>1, <1>2, <1>3 DEF YieldsMappedBlocks

(* The invariant after a step that only ends the iteration *)
LEMMA MapEnds ==
  ASSUME AreMaps, MapInv,
         UNCHANGED <<map, level_0_index, levels, num_blocks_yielded, map_yielded>>,
         map_done' \in BOOLEAN, map_error' \in BOOLEAN, YieldsMappedBlocks'
  PROVE  MapInv'
<1>1. MapTypeOK'
  BY Zenon, SameBlocks DEF MapInv, MapTypeOK
<1>2. Depth' = Depth
  BY Zenon DEF Depth
<1>3. StackInv'
  BY Zenon, <1>2, SameBlocks DEF MapInv, StackInv
<1>4. CountInv'
  BY Zenon, <1>2 DEF MapInv, CountInv, Taken, Before, Span
<1> QED
  BY Zenon, <1>1, <1>3, <1>4 DEF MapInv

LEMMA MapInvEndOfFile ==
  ASSUME AreMaps, MapInv, MapEndOfFile
  PROVE  MapInv'
<1>1. /\ UNCHANGED <<map, level_0_index, levels, num_blocks_yielded, map_yielded, map_error>>
      /\ map_done' = TRUE /\ num_blocks_yielded >= map.num_blocks_total
  BY Zenon DEF MapEndOfFile
<1>2. /\ num_blocks_yielded \in Nat /\ map.num_blocks_total \in Nat
      /\ num_blocks_yielded <= map.num_blocks_total
  BY Zenon, MapTypes DEF MapInv
<1>3. num_blocks_yielded = map.num_blocks_total
  BY <1>1, <1>2
<1>4. YieldsMappedBlocks'
  BY Zenon, <1>1, <1>3, MapNoItem
<1>5. map_done' \in BOOLEAN /\ map_error' \in BOOLEAN
  BY Zenon, <1>1 DEF MapInv, MapTypeOK
<1> QED
  BY Zenon, <1>1, <1>4, <1>5, MapEnds

LEMMA MapEndOfMap ==
  ASSUME AreMaps, MapInv, EndOfMap
  PROVE  MapInv'
<1>1. /\ UNCHANGED <<map, level_0_index, levels, num_blocks_yielded, map_yielded, map_error>>
      /\ map_done' = TRUE /\ num_blocks_yielded < map.num_blocks_total
      /\ level_0_index = NumDirect + 3
  BY Zenon DEF EndOfMap, InMapFile, NumEntries
<1>2. NumDirect \in Nat /\ Depth = level_0_index - NumDirect + 1
  BY Zenon, Spans, MapTypes DEF MapInv
<1>3. Depth = 4 /\ ~ Depth \in 1 .. 3 /\ ~ level_0_index < NumDirect
  BY <1>1, <1>2
<1>4. levels = <<>>
  BY Zenon, <1>3 DEF MapInv, StackInv
<1>5. num_blocks_yielded = Capacity
  BY Zenon, <1>3, <1>4 DEF MapInv, CountInv, Capacity
<1>6. YieldsMappedBlocks'
  BY Zenon, <1>1, <1>5, MapNoItem
<1>7. map_done' \in BOOLEAN /\ map_error' \in BOOLEAN
  BY Zenon, <1>1 DEF MapInv, MapTypeOK
<1> QED
  BY Zenon, <1>1, <1>6, <1>7, MapEnds

LEMMA MapDirect ==
  ASSUME AreMaps, MapInv, Direct
  PROVE  MapInv'
<1> DEFINE i == level_0_index
           n == num_blocks_yielded
<1>1. /\ UNCHANGED <<map, levels>> /\ ~ map_done /\ n < map.num_blocks_total
      /\ i < NumDirect /\ i' = i + 1 /\ MapYield(map.level_0[i + 1])
  BY Zenon DEF Direct, InMap, InMapFile, block_0
<1>2. NumDirect \in Nat /\ i \in Nat /\ Depth = i - NumDirect + 1
  BY Spans, MapTypes DEF MapInv
<1>3. /\ ~ Depth \in 1 .. 3 /\ i + 1 \in 1 .. NumDirect + 3 /\ i + 1 \in 0 .. NumDirect + 3
  BY <1>1, <1>2
<1>4. levels = <<>>
  BY Zenon, <1>3 DEF MapInv, StackInv
<1>5. n = i
  BY Zenon, <1>1 DEF MapInv, CountInv
<1>6. map.level_0[i + 1] \in Nat
  BY Zenon, <1>3, MapFile DEF MapInv
<1>7. Before(1) = NumDirect
  BY Zenon, Spans
<1>8. map.level_0[i + 1] = FileBlock(n)
  BY Zenon, <1>1, <1>5, <1>7 DEF FileBlock
<1>9. /\ YieldsMappedBlocks' /\ map_yielded' \in Seq(Nat) /\ Len(map_yielded') = n' /\ n' = n + 1
      /\ n' \in 0 .. map.num_blocks_total /\ map_done' = map_done /\ map_error' = map_error
  BY Zenon, <1>1, <1>6, <1>8, MapInvYield
<1>10. MapTypeOK'
  BY Zenon, <1>1, <1>3, <1>9, SameBlocks DEF MapInv, MapTypeOK, NumEntries
<1>11. StackInv'
  BY Zenon, <1>1, <1>4 DEF StackInv
<1>12. CountInv'
  <2>1. n' = i'
    BY Zenon, <1>1, <1>5, <1>9
  <2>2. Depth' = i' - NumDirect + 1
    BY Zenon DEF Depth
  <2>3. ~ i' < NumDirect => i' = NumDirect /\ i' - NumDirect + 1 = 1
    BY <1>1, <1>2
  <2>4. ~ i' < NumDirect => n' = Before(Depth)'
    <3> SUFFICES ASSUME ~ i' < NumDirect PROVE n' = Before(Depth)'
      BY Zenon
    <3>1. Depth' = 1 /\ n' = NumDirect
      BY Zenon, <2>1, <2>2, <2>3
    <3>2. Before(Depth)' = NumDirect
      BY <3>1 DEF Before
    <3> QED
      BY Zenon, <3>1, <3>2
  <2> QED
    BY Zenon, <1>1, <1>4, <1>9, <2>1, <2>4 DEF CountInv
<1> QED
  BY Zenon, <1>9, <1>10, <1>11, <1>12 DEF MapInv

(* The invariant after a block could not be read *)
LEMMA MapFails ==
  ASSUME AreMaps, MapInv,
         UNCHANGED <<map, level_0_index, levels, num_blocks_yielded, map_yielded>>,
         map_done' = TRUE, map_error' = TRUE
  PROVE  MapInv'
<1>1. YieldsMappedBlocks'
  BY Zenon, MapNoItem
<1> QED
  BY Zenon, <1>1, MapEnds

(* The stack ls leads down from the current entry of level_0. *)
Leads(ls) ==
    /\ ls \in Seq(Level) /\ Len(ls) \in 1 .. Depth
    /\ ls[1].block = Root(Depth)
    /\ \A i \in 1 .. Len(ls) - 1 :
          /\ ls[i].index > 0
          /\ ls[i + 1].block = map.disk[ls[i].block][ls[i].index]

Counts(n, ls) ==
    n = Before(Depth) + Taken(ls, Len(ls)) * Span(Depth - Len(ls))

(* The invariant after a step to another stack *)
LEMMA MapMoves ==
  ASSUME AreMaps, MapInv, UNCHANGED <<map, level_0_index, map_done, map_error>>,
         NEW ls, levels' = ls, Depth \in 1 .. 3, Leads(ls), Counts(num_blocks_yielded', ls),
         Len(map_yielded') = num_blocks_yielded', map_yielded' \in Seq(Nat),
         num_blocks_yielded' \in 0 .. map.num_blocks_total, YieldsMappedBlocks'
  PROVE  MapInv'
<1>1. Depth' = Depth /\ Depth = level_0_index - NumDirect + 1
  BY Zenon DEF Depth
<1>2. NumDirect \in Nat /\ level_0_index \in 0 .. NumDirect + 3
  BY Zenon, Spans, MapTypes DEF MapInv
<1>3. ~ level_0_index < NumDirect
  BY <1>1, <1>2
<1>4. Len(ls) \in 1 .. Depth
  BY Zenon DEF Leads
<1>5. Len(ls) <= 3 /\ Len(ls) <= Depth /\ Len(ls) # 0
  BY <1>4
<1>6. ls # <<>>
  BY Zenon, <1>5, Lengths DEF Leads
<1>7. MapTypeOK'
  BY Zenon, <1>5, SameBlocks DEF MapInv, Leads, MapTypeOK, NumEntries
<1>8. StackInv'
  BY Zenon, <1>1, <1>5, SameBlocks DEF Leads, StackInv
<1>9. CountInv'
  <2>1. PICK n : n = num_blocks_yielded'
    BY Zenon
  <2>2. n = Before(Depth) + Taken(ls, Len(ls)) * Span(Depth - Len(ls))
    BY Zenon, <2>1 DEF Counts
  <2>3. (Before(Depth) + Taken(levels, Len(levels)) * Span(Depth - Len(levels)))'
           = Before(Depth) + Taken(ls, Len(ls)) * Span(Depth - Len(ls))
    BY Zenon, <1>1 DEF Taken, Before, Span
  <2> QED
    BY Zenon, <1>3, <1>6, <2>1, <2>2, <2>3 DEF CountInv
<1> QED
  BY Zenon, <1>7, <1>8, <1>9 DEF MapInv

(* In a stack that is not empty, as the invariant has it *)
LEMMA MapStack ==
  ASSUME AreMaps, MapInv, levels # <<>>
  PROVE  /\ Depth \in 1 .. 3 /\ Leads(levels) /\ Counts(num_blocks_yielded, levels)
         /\ Len(levels) \in 1 .. 3
<1>1. Depth \in 1 .. 3 /\ Len(levels) <= Depth
  BY Zenon DEF MapInv, StackInv
<1>2. levels \in Seq(Level) /\ Len(levels) \in 0 .. 3
  BY Zenon, MapTypes DEF MapInv
<1>3. Len(levels) # 0
  BY Zenon, <1>2, Lengths
<1>4. Len(levels) \in 1 .. Depth /\ Len(levels) \in 1 .. 3
  <2>1. PICK n, d : n = Len(levels) /\ d = Depth
    BY Zenon
  <2>2. n \in 0 .. 3 /\ n # 0 /\ d \in 1 .. 3 /\ n <= d
    BY Zenon, <1>1, <1>2, <1>3, <2>1
  <2>3. n \in 1 .. d /\ n \in 1 .. 3
    BY <2>2
  <2> QED
    BY Zenon, <2>1, <2>3
<1>5. Leads(levels)
  BY Zenon, <1>2, <1>4 DEF MapInv, StackInv, Leads
<1>6. ~ level_0_index < NumDirect
  <2>1. NumDirect \in Nat /\ level_0_index \in 0 .. NumDirect + 3
        /\ Depth = level_0_index - NumDirect + 1
    BY Zenon, Spans, MapTypes DEF MapInv
  <2> QED
    BY <1>1, <2>1
<1>7. Counts(num_blocks_yielded, levels)
  BY Zenon, <1>6 DEF MapInv, CountInv, Counts
<1> QED
  BY Zenon, <1>1, <1>4, <1>5, <1>7

LEMMA MapOpenRoot ==
  ASSUME AreMaps, MapInv, OpenRoot
  PROVE  MapInv'
<1> DEFINE b == map.level_0[level_0_index + 1]
           r == [block |-> b, index |-> 0]
<1>1. /\ UNCHANGED <<map, level_0_index, num_blocks_yielded, map_yielded>> /\ levels = <<>>
      /\ level_0_index < NumDirect + 3 /\ level_0_index >= NumDirect /\ OpenBlock(b, levels)
  BY Zenon DEF OpenRoot, InMap, block_0, NumEntries
<1>2. CASE b \notin DOMAIN map.disk
  BY Zenon, <1>1, <1>2, MapFails DEF OpenBlock
<1>3. CASE b \in DOMAIN map.disk
  <2>1. levels' = Append(<<>>, r) /\ UNCHANGED <<map_done, map_error>>
    BY Zenon, <1>1, <1>3 DEF OpenBlock
  <2>2. /\ NumDirect \in Nat /\ level_0_index \in 0 .. NumDirect + 3 /\ EntriesPerBlock \in Nat
        /\ Depth = level_0_index - NumDirect + 1
    BY Zenon, Spans, MapTypes DEF MapInv
  <2>3. /\ Depth \in 1 .. 3 /\ NumDirect + Depth = level_0_index + 1
        /\ ~ level_0_index < NumDirect /\ 0 \in 0 .. EntriesPerBlock
    BY <1>1, <2>2
  <2>4. r \in Level
    BY Zenon, <1>3, <2>3 DEF Level
  <2>5. PICK ls : ls = <<r>>
    BY Zenon
  <2> HIDE DEF r
  <2>6. levels' = ls /\ ls \in Seq(Level) /\ Len(ls) = 1 /\ ls[1] = r
    BY <2>1, <2>4, <2>5
  <2>7. r.block = Root(Depth) /\ r.index = 0
    BY Zenon, <2>3 DEF r, Root
  <2>8. 1 \in 1 .. Depth /\ 1 .. 1 - 1 = {}
    BY <2>3
  <2>9. Leads(ls)
    BY Zenon, <2>6, <2>7, <2>8 DEF Leads
  <2>10. Counts(num_blocks_yielded', ls)
    <3>1. num_blocks_yielded = Before(Depth)
      BY Zenon, <1>1, <2>3 DEF MapInv, CountInv
    <3>2. Taken(ls, 1) = 0
      BY Zenon, <2>6, <2>7, TakenStep
    <3>3. PICK s, c : s = Span(Depth - 1) /\ c = Before(Depth)
      BY Zenon
    <3>4. Depth - 1 \in 0 .. 3 /\ Depth \in 1 .. 4
      BY <2>3
    <3>5. s \in Nat /\ c \in Nat
      BY Zenon, <3>3, <3>4, Spans
    <3>6. c = c + 0 * s
      BY <3>5
    <3> QED
      BY Zenon, <1>1, <2>6, <3>1, <3>2, <3>3, <3>6 DEF Counts
  <2>11. /\ Len(map_yielded') = num_blocks_yielded' /\ map_yielded' \in Seq(Nat)
         /\ num_blocks_yielded' \in 0 .. map.num_blocks_total
    BY Zenon, <1>1 DEF MapInv, CountInv, MapTypeOK
  <2>12. YieldsMappedBlocks'
    BY Zenon, <1>1, <2>1, MapNoItem
  <2> QED
    BY Zenon, <1>1, <2>1, <2>3, <2>6, <2>9, <2>10, <2>11, <2>12, MapMoves
<1> QED
  BY Zenon, <1>2, <1>3

(* Which branch of FileBlock a number takes *)
LEMMA Branch ==
  ASSUME AreMaps, NEW n \in 1 .. 3, NEW t \in Nat, n < 3 => t < Span(n), NEW k,
         k = Before(n) + t
  PROVE  FileBlock(k) = Below(n, t)
<1>1. PICK b1, b2, b3, s1, s2 : /\ b1 = Before(1) /\ b2 = Before(2) /\ b3 = Before(3)
                                /\ s1 = Span(1) /\ s2 = Span(2)
  BY Zenon
<1>2. \A i \in 1 .. 3 : Before(i + 1) = Before(i) + Span(i)
  BY Zenon, Spans
<1>3. Before(1 + 1) = b1 + s1 /\ Before(2 + 1) = b2 + s2
  <2>1. 1 \in 1 .. 3 /\ 2 \in 1 .. 3
    OBVIOUS
  <2> QED
    BY Zenon, <1>1, <1>2, <2>1
<1>4. b2 = b1 + s1 /\ b3 = b2 + s2
  <2>1. 1 + 1 = 2 /\ 2 + 1 = 3
    OBVIOUS
  <2> QED
    BY Zenon, <1>1, <1>3, <2>1
<1>5. b1 \in Nat /\ s1 \in Nat /\ s2 \in Nat
  <2>1. 1 \in 0 .. 3 /\ 2 \in 0 .. 3 /\ 1 \in 1 .. 4
    OBVIOUS
  <2>2. (\A i \in 0 .. 3 : Span(i) \in Nat) /\ (\A i \in 1 .. 4 : Before(i) \in Nat)
    BY Zenon, Spans
  <2> QED
    BY Zenon, <1>1, <2>1, <2>2
<1>6. CASE n = 1
  <2>1. k = b1 + t /\ t < s1
    BY <1>1, <1>6
  <2>2. ~ k < b1 /\ k < b2 /\ k - b1 = t
    BY <1>4, <1>5, <2>1
  <2> QED
    BY Zenon, <1>1, <1>6, <2>2 DEF FileBlock
<1>7. CASE n = 2
  <2>1. k = b2 + t /\ t < s2 /\ 1 # 2
    BY <1>1, <1>7
  <2>2. ~ k < b1 /\ ~ k < b2 /\ k < b3 /\ k - b2 = t
    BY <1>4, <1>5, <2>1
  <2> QED
    BY Zenon, <1>1, <1>7, <2>2 DEF FileBlock
<1>8. CASE n = 3
  <2>1. k = b3 + t
    BY Zenon, <1>1, <1>8
  <2>2. ~ k < b1 /\ ~ k < b2 /\ ~ k < b3 /\ k - b3 = t
    BY <1>4, <1>5, <2>1
  <2> QED
    BY Zenon, <1>1, <1>8, <2>2 DEF FileBlock
<1>9. n = 1 \/ n = 2 \/ n = 3
  OBVIOUS
<1> QED
  BY Zenon, <1>6, <1>7, <1>8, <1>9

(* The entries on the way down a stack *)
LEMMA Children ==
  ASSUME AreMaps, MapTypeOK, NEW ls, Leads(ls), NEW n \in 1 .. Len(ls)
  PROVE  /\ \A j : Child(ls[n].block, j) = map.disk[ls[n].block][j + 1]
         /\ n < Len(ls) => /\ ls[n].index \in 1 .. EntriesPerBlock
                           /\ ls[n + 1].block = Child(ls[n].block, ls[n].index - 1)
<1>1. ls \in Seq(Level)
  BY Zenon DEF Leads
<1>2. ls[n].block \in DOMAIN map.disk /\ ls[n].index \in 0 .. EntriesPerBlock
  BY Zenon, <1>1, LevelTypes
<1>3. ls[n].block # 0
  BY Zenon, <1>2, MapFile
<1>4. \A j : Child(ls[n].block, j) = map.disk[ls[n].block][j + 1]
  BY Zenon, <1>3 DEF Child
<1>5. ASSUME n < Len(ls)
      PROVE  /\ ls[n].index \in 1 .. EntriesPerBlock
             /\ ls[n + 1].block = Child(ls[n].block, ls[n].index - 1)
  <2>1. n \in 1 .. Len(ls) - 1
    BY <1>1, <1>5
  <2>2. ls[n].index > 0 /\ ls[n + 1].block = map.disk[ls[n].block][ls[n].index]
    BY Zenon, <2>1 DEF Leads
  <2>3. EntriesPerBlock \in Nat
    BY Zenon, Spans
  <2>4. ls[n].index \in 1 .. EntriesPerBlock /\ ls[n].index - 1 + 1 = ls[n].index
    BY <1>2, <2>2, <2>3
  <2>5. Child(ls[n].block, ls[n].index - 1) = map.disk[ls[n].block][ls[n].index - 1 + 1]
    BY Zenon, <1>4
  <2> QED
    BY Zenon, <2>2, <2>4, <2>5
<1> QED
  BY Zenon, <1>4, <1>5

(* The entry that is next in the innermost block, at each depth *)
LEMMA EntryAtDepth1 ==
  ASSUME AreMaps, MapTypeOK, NEW ls, Leads(ls), Depth = 1, Len(ls) = 1,
         ls[1].index < EntriesPerBlock, NEW k, Counts(k, ls)
  PROVE  map.disk[ls[1].block][ls[1].index + 1] = FileBlock(k)
<1>1. ls \in Seq(Level) /\ ls[1].block = Root(1) /\ 1 \in 1 .. Len(ls)
  BY DEF Leads
<1>2. PICK i : i = ls[1].index
  BY Zenon
<1>3. i \in 0 .. EntriesPerBlock /\ EntriesPerBlock \in Nat
  BY Zenon, <1>1, <1>2, LevelTypes, Spans
<1>4. Taken(ls, 1) = i /\ Span(0) = 1 /\ Span(1) = EntriesPerBlock
  BY Zenon, <1>2, TakenStep, Spans
<1>5. k = Before(1) + i * 1
  <2>1. 1 - 1 = 0
    OBVIOUS
  <2> QED
    BY Zenon, <1>4, <2>1 DEF Counts
<1>6. i \in Nat /\ i < EntriesPerBlock /\ i * 1 = i /\ 1 \in 1 .. 3
  BY <1>2, <1>3
<1>7. k = Before(1) + i
  BY Zenon, <1>5, <1>6
<1>8. FileBlock(k) = Below(1, i)
  BY Zenon, <1>4, <1>6, <1>7, Branch
<1>9. Below(1, i) = Child(Root(1), i)
  BY DEF Below
<1>10. \A m : Child(ls[1].block, m) = map.disk[ls[1].block][m + 1]
  BY Zenon, <1>1, Children
<1> QED
  BY Zenon, <1>1, <1>2, <1>8, <1>9, <1>10

LEMMA EntryAtDepth2 ==
  ASSUME AreMaps, MapTypeOK, NEW ls, Leads(ls), Depth = 2, Len(ls) = 2,
         ls[2].index < EntriesPerBlock, NEW k, Counts(k, ls)
  PROVE  map.disk[ls[2].block][ls[2].index + 1] = FileBlock(k)
<1>1. /\ ls \in Seq(Level) /\ ls[1].block = Root(2)
      /\ 1 \in 1 .. Len(ls) /\ 2 \in 1 .. Len(ls) /\ 1 < Len(ls) /\ 1 + 1 = 2 /\ 2 - 2 = 0
      /\ 2 \in 1 .. 3
  BY DEF Leads
<1>2. PICK i, j, e : i = ls[1].index /\ j = ls[2].index /\ e = EntriesPerBlock
  BY Zenon
<1>3. /\ i \in 1 .. e /\ ls[2].block = Child(ls[1].block, i - 1)
      /\ (\A m : Child(ls[2].block, m) = map.disk[ls[2].block][m + 1])
  <2>1. /\ ls[1].index \in 1 .. EntriesPerBlock
        /\ ls[1 + 1].block = Child(ls[1].block, ls[1].index - 1)
    BY Zenon, <1>1, Children
  <2>2. (\A m : Child(ls[2].block, m) = map.disk[ls[2].block][m + 1])
    BY ZenonT(40), <1>1, Children
  <2> QED
    BY Zenon, <1>1, <1>2, <2>1, <2>2
<1>4. j \in 0 .. e /\ e \in Nat /\ e > 0 /\ j < e
  BY Zenon, <1>1, <1>2, LevelTypes, Spans
<1>5. Taken(ls, 2) = (i - 1) * e + j /\ Span(0) = 1
  BY Zenon, <1>2, TakenStep, Spans
<1>6. PICK t : t = (i - 1) * e + j
  BY Zenon
<1>7. i - 1 \in Nat /\ i - 1 < e /\ j \in 0 .. e - 1 /\ j \in Nat /\ e \in Nat \ {0}
  BY <1>3, <1>4
<1>8. (i - 1) * e \in Nat /\ t \in Nat /\ t * 1 = t
  BY <1>6, <1>7
<1>9. t \div e = i - 1 /\ t % e = j
  BY Zenon, <1>6, <1>7, DivMod
<1>10. t < Span(2)
  <2>1. (i - 1) * e + e <= e * e
    BY Zenon, <1>7, <1>4, Multiples
  <2>2. e * e \in Nat
    BY <1>4
  <2>3. t < e * e
    BY <1>6, <1>7, <1>8, <2>1, <2>2
  <2> QED
    BY <1>2, <2>3 DEF Span
<1>11. k = Before(2) + t
  BY Zenon, <1>1, <1>5, <1>6, <1>8 DEF Counts
<1>12. FileBlock(k) = Below(2, t)
  BY Zenon, <1>1, <1>8, <1>10, <1>11, Branch
<1>13. Below(2, t) = Child(Child(Root(2), i - 1), j)
  BY <1>2, <1>9 DEF Below
<1> QED
  BY Zenon, <1>1, <1>2, <1>3, <1>12, <1>13

LEMMA EntryAtDepth3 ==
  ASSUME AreMaps, MapTypeOK, NEW ls, Leads(ls), Depth = 3, Len(ls) = 3,
         ls[3].index < EntriesPerBlock, NEW k, Counts(k, ls)
  PROVE  map.disk[ls[3].block][ls[3].index + 1] = FileBlock(k)
<1>1. /\ ls \in Seq(Level) /\ ls[1].block = Root(3)
      /\ 1 \in 1 .. Len(ls) /\ 2 \in 1 .. Len(ls) /\ 3 \in 1 .. Len(ls) /\ 1 < Len(ls)
      /\ 2 < Len(ls) /\ 1 + 1 = 2 /\ 2 + 1 = 3 /\ 3 - 3 = 0 /\ 3 \in 1 .. 3 /\ ~ 3 < 3
  BY DEF Leads
<1>2. PICK h, i, j, e : /\ h = ls[1].index /\ i = ls[2].index /\ j = ls[3].index
                        /\ e = EntriesPerBlock
  BY Zenon
<1>3. /\ h \in 1 .. e /\ ls[2].block = Child(ls[1].block, h - 1)
      /\ i \in 1 .. e /\ ls[3].block = Child(ls[2].block, i - 1)
      /\ (\A m : Child(ls[3].block, m) = map.disk[ls[3].block][m + 1])
  <2>1. /\ ls[1].index \in 1 .. EntriesPerBlock
        /\ ls[1 + 1].block = Child(ls[1].block, ls[1].index - 1)
    BY Zenon, <1>1, Children
  <2>2. /\ ls[2].index \in 1 .. EntriesPerBlock
        /\ ls[2 + 1].block = Child(ls[2].block, ls[2].index - 1)
    BY Zenon, <1>1, Children
  <2>3. (\A m : Child(ls[3].block, m) = map.disk[ls[3].block][m + 1])
    BY ZenonT(40), <1>1, Children
  <2> QED
    BY Zenon, <1>1, <1>2, <2>1, <2>2, <2>3
<1>4. j \in 0 .. e /\ e \in Nat /\ e > 0 /\ j < e
  BY Zenon, <1>1, <1>2, LevelTypes, Spans
<1>5. PICK s, t : s = (h - 1) * e + (i - 1) /\ t = s * e + j
  BY Zenon
<1>6. /\ h - 1 \in Nat /\ i - 1 \in 0 .. e - 1 /\ i - 1 \in Nat /\ j \in 0 .. e - 1 /\ j \in Nat
      /\ e \in Nat \ {0}
  BY <1>3, <1>4
<1>7. (h - 1) * e \in Nat /\ s \in Nat
  BY <1>5, <1>6
<1>8. s * e \in Nat /\ t \in Nat /\ t * 1 = t
  BY <1>5, <1>6, <1>7
<1>9. Taken(ls, 3) = t /\ Span(0) = 1
  <2>1. Taken(ls, 2) = (h - 1) * e + i /\ Span(0) = 1
    BY Zenon, <1>2, TakenStep, Spans
  <2>2. ((h - 1) * e + i) - 1 = s
    BY <1>3, <1>4, <1>5, <1>7
  <2>3. Taken(ls, 3) = (Taken(ls, 2) - 1) * e + j
    BY Zenon, <1>2, TakenStep
  <2> QED
    BY Zenon, <1>5, <2>1, <2>2, <2>3
<1>10. t \div e = s /\ t % e = j
  BY Zenon, <1>5, <1>6, <1>7, DivMod
<1>11. s \div e = h - 1 /\ s % e = i - 1
  BY Zenon, <1>5, <1>6, DivMod
<1>12. k = Before(3) + t
  BY Zenon, <1>1, <1>8, <1>9 DEF Counts
<1>13. FileBlock(k) = Below(3, t)
  BY Zenon, <1>1, <1>8, <1>12, Branch
<1>14. Below(3, t) = Child(Child(Child(Root(3), h - 1), i - 1), j)
  BY <1>2, <1>10, <1>11 DEF Below
<1> QED
  BY ZenonT(40), <1>1, <1>2, <1>3, <1>13, <1>14

LEMMA TakenNext ==
  ASSUME NEW ls, NEW n \in 1 .. 2
  PROVE  Taken(ls, n + 1) = (Taken(ls, n) - 1) * EntriesPerBlock + ls[n + 1].index
<1>1. (n = 1 /\ n + 1 = 2) \/ (n = 2 /\ n + 1 = 3)
  OBVIOUS
<1> QED
  BY Zenon, <1>1, TakenStep

LEMMA AdvancedLeads ==
  ASSUME AreMaps, MapInv, levels # <<>>, NEW n, n = Len(levels),
         levels[n].index < EntriesPerBlock, NEW ls, ls = Advanced
  PROVE  Leads(ls)
<1>1. /\ ls \in Seq(Level) /\ Len(ls) = n /\ n \in 1 .. 3
      /\ \A i \in 1 .. n : ls[i].block = levels[i].block
      /\ \A i \in 1 .. n - 1 : ls[i].index = levels[i].index
  BY ZenonT(40), AdvancedStack DEF MapInv
<1>2. Leads(levels)
  BY Zenon, MapStack
<1>3. n \in 1 .. Depth /\ levels[1].block = Root(Depth)
  BY Zenon, <1>2 DEF Leads
<1>4. 1 \in 1 .. n
  BY <1>1
<1>5. ls[1].block = Root(Depth)
  BY Zenon, <1>1, <1>3, <1>4
<1>6. ASSUME NEW i \in 1 .. n - 1
      PROVE  ls[i].index > 0 /\ ls[i + 1].block = map.disk[ls[i].block][ls[i].index]
  <2>1. i \in 1 .. n /\ i + 1 \in 1 .. n
    BY <1>1
  <2>2. levels[i].index > 0 /\ levels[i + 1].block = map.disk[levels[i].block][levels[i].index]
    BY Zenon, <1>2 DEF Leads
  <2>3. ls[i].index = levels[i].index /\ ls[i].block = levels[i].block
        /\ ls[i + 1].block = levels[i + 1].block
    BY Zenon, <1>1, <2>1
  <2> QED
    BY Zenon, <2>2, <2>3
<1> QED
  BY Zenon, <1>1, <1>3, <1>5, <1>6 DEF Leads

LEMMA MapYieldEntry ==
  ASSUME AreMaps, MapInv, YieldEntry
  PROVE  MapInv'
<1>1. /\ ~ map_done /\ num_blocks_yielded < map.num_blocks_total /\ levels # <<>>
      /\ UNCHANGED <<map, level_0_index>> /\ levels' = Advanced
      /\ MapYield(map.disk[levels[Len(levels)].block][levels[Len(levels)].index + 1])
      /\ Len(levels) = Depth /\ levels[Len(levels)].index < EntriesPerBlock
  BY Zenon DEF YieldEntry, Inside, InMap, InMapFile, Top, Entry
<1>2. PICK n, ls, b : /\ n = Len(levels) /\ ls = Advanced
                      /\ b = map.disk[levels[n].block][levels[n].index + 1]
  BY Zenon
<1>3. Depth \in 1 .. 3 /\ Leads(levels) /\ Counts(num_blocks_yielded, levels)
  BY Zenon, <1>1, MapStack
<1>4. /\ ls \in Seq(Level) /\ Len(ls) = n /\ n \in 1 .. 3
      /\ Taken(levels, n) \in Nat /\ Taken(ls, n) = Taken(levels, n) + 1 /\ Leads(ls)
  BY Zenon, <1>1, <1>2, AdvancedStack, AdvancedLeads DEF MapInv
<1>5. b = FileBlock(num_blocks_yielded)
  <2>0. MapTypeOK
    BY Zenon DEF MapInv
  <2>1. CASE n = 1
    BY Zenon, <1>1, <1>2, <1>3, <2>0, <2>1, EntryAtDepth1
  <2>2. CASE n = 2
    BY Zenon, <1>1, <1>2, <1>3, <2>0, <2>2, EntryAtDepth2
  <2>3. CASE n = 3
    BY Zenon, <1>1, <1>2, <1>3, <2>0, <2>3, EntryAtDepth3
  <2>4. n = 1 \/ n = 2 \/ n = 3
    BY <1>4
  <2> QED
    BY Zenon, <2>1, <2>2, <2>3, <2>4
<1>6. b \in Nat
  <2>1. levels \in Seq(Level) /\ n \in 1 .. Len(levels)
    BY Zenon, <1>1, <1>2, MapTypes, Lengths DEF MapInv
  <2>2. levels[n].block \in DOMAIN map.disk /\ levels[n].index \in 0 .. EntriesPerBlock
    BY Zenon, <1>2, <2>1, LevelTypes
  <2>3. EntriesPerBlock \in Nat
    BY Zenon, Spans
  <2>4. levels[n].index < EntriesPerBlock
    BY Zenon, <1>1, <1>2
  <2>5. levels[n].index + 1 \in 1 .. EntriesPerBlock
    BY <2>2, <2>3, <2>4
  <2> QED
    BY Zenon, <1>2, <2>2, <2>5, MapFile DEF MapInv
<1>7. /\ YieldsMappedBlocks' /\ map_yielded' \in Seq(Nat) /\ Len(map_yielded') = num_blocks_yielded'
      /\ num_blocks_yielded' = num_blocks_yielded + 1
      /\ num_blocks_yielded' \in 0 .. map.num_blocks_total
      /\ map_done' = map_done /\ map_error' = map_error
  <2>1. MapYield(b)
    BY Zenon, <1>1, <1>2
  <2> QED
    BY Zenon, <1>1, <1>5, <1>6, <2>1, MapInvYield
<1>8. Counts(num_blocks_yielded', ls)
  <2>1. PICK t, c, m : t = Taken(levels, n) /\ c = Before(n) /\ m = num_blocks_yielded
    BY Zenon
  <2>2. n - n = 0 /\ n \in 1 .. 4
    BY <1>4
  <2>3. m = c + t * 1 /\ c \in Nat /\ t \in Nat
    BY Zenon, <1>1, <1>2, <1>3, <1>4, <2>1, <2>2, Spans DEF Counts
  <2>4. m + 1 = c + (t + 1) * 1
    BY <2>3
  <2>5. num_blocks_yielded' = Before(n) + Taken(ls, n) * Span(n - n)
    BY Zenon, <1>4, <1>7, <2>1, <2>2, <2>4, Spans
  <2> QED
    BY Zenon, <1>1, <1>2, <1>4, <2>5 DEF Counts
<1> QED
  BY Zenon, <1>1, <1>2, <1>3, <1>4, <1>7, <1>8, MapMoves

(* A place counted at depth n and at depth n + 1 *)
LEMMA Deeper ==
  ASSUME AreMaps, NEW d \in 1 .. 3, NEW n \in 1 .. 2, n < d, NEW t \in Nat
  PROVE  (t * EntriesPerBlock) * Span(d - (n + 1)) = t * Span(d - n)
<1>1. PICK m : m = d - (n + 1)
  BY Zenon
<1>2. m \in 0 .. 2 /\ m \in 0 .. 3 /\ m + 1 = d - n
  BY <1>1
<1>3. Span(m + 1) = EntriesPerBlock * Span(m) /\ Span(m) \in Nat
  BY Zenon, <1>2, Spans
<1>4. PICK e, s : e = EntriesPerBlock /\ s = Span(m)
  BY Zenon
<1>5. e \in Nat /\ s \in Nat
  BY Zenon, <1>3, <1>4, Spans
<1>6. (t * e) * s = t * (e * s)
  BY <1>5
<1> QED
  BY Zenon, <1>1, <1>2, <1>3, <1>4, <1>6

LEMMA Appended ==
  ASSUME NEW S, NEW s \in Seq(S), NEW x \in S
  PROVE  /\ Append(s, x) \in Seq(S) /\ Len(Append(s, x)) = Len(s) + 1
         /\ Append(s, x)[Len(s) + 1] = x
         /\ \A i \in 1 .. Len(s) : Append(s, x)[i] = s[i]
OBVIOUS

LEMMA MapDescend ==
  ASSUME AreMaps, MapInv, Descend
  PROVE  MapInv'
<1>1. PICK n, top, b, r : /\ n = Len(levels) /\ top = Advanced
                         /\ b = map.disk[levels[n].block][levels[n].index + 1]
                         /\ r = [block |-> b, index |-> 0]
  BY Zenon
<1>2. /\ ~ map_done /\ levels # <<>>
      /\ UNCHANGED <<map, level_0_index, num_blocks_yielded, map_yielded>>
      /\ OpenBlock(b, top) /\ n < Depth /\ levels[n].index < EntriesPerBlock
  BY Zenon, <1>1 DEF Descend, Inside, InMap, InMapFile, Top, Entry
<1>3. CASE b \notin DOMAIN map.disk
  BY Zenon, <1>2, <1>3, MapFails DEF OpenBlock
<1>4. CASE b \in DOMAIN map.disk
  <2>1. levels' = Append(top, r) /\ UNCHANGED <<map_done, map_error>>
    BY Zenon, <1>1, <1>2, <1>4 DEF OpenBlock
  <2>2. Depth \in 1 .. 3 /\ Counts(num_blocks_yielded, levels)
    BY Zenon, <1>2, MapStack
  <2>3. /\ top \in Seq(Level) /\ Len(top) = n /\ n \in 1 .. 3
        /\ \A i \in 1 .. n : top[i].block = levels[i].block
        /\ top[n].index = levels[n].index + 1
        /\ Taken(levels, n) \in Nat /\ Taken(top, n) = Taken(levels, n) + 1 /\ Leads(top)
    <3>1. Leads(top)
      BY Zenon, <1>1, <1>2, AdvancedLeads
    <3>2. MapTypeOK /\ StackInv
      BY Zenon DEF MapInv
    <3>3. top \in Seq(Level) /\ Len(top) = n /\ n \in 1 .. 3
      BY ZenonT(40), <1>1, <1>2, <3>2, AdvancedStack
    <3>4. \A i \in 1 .. n : top[i].block = levels[i].block
      BY <1>1, <1>2, <3>2, AdvancedStack
    <3>5. top[n].index = levels[n].index + 1
      BY Zenon, <1>1, <1>2, <3>2, AdvancedStack
    <3>6. Taken(levels, n) \in Nat /\ Taken(top, n) = Taken(levels, n) + 1
      BY Zenon, <1>1, <1>2, <3>2, AdvancedStack
    <3> QED
      BY Zenon, <3>1, <3>3, <3>4, <3>5, <3>6
  <2>4. EntriesPerBlock \in Nat /\ 0 \in 0 .. EntriesPerBlock
    BY Spans
  <2>5. r \in Level /\ r.block = b /\ r.index = 0
    BY Zenon, <1>1, <1>4, <2>4 DEF Level
  <2>6. PICK ls : ls = Append(top, r)
    BY Zenon
  <2>7. /\ ls \in Seq(Level) /\ Len(ls) = n + 1 /\ ls[n + 1] = r
        /\ \A i \in 1 .. n : ls[i] = top[i]
    <3>1. /\ Append(top, r) \in Seq(Level) /\ Len(Append(top, r)) = Len(top) + 1
          /\ Append(top, r)[Len(top) + 1] = r
          /\ \A i \in 1 .. Len(top) : Append(top, r)[i] = top[i]
      <4>1. top \in Seq(Level) /\ r \in Level
        BY Zenon, <2>3, <2>5
      <4> QED
        BY <4>1, Appended
    <3> QED
      BY Zenon, <2>3, <2>6, <3>1
  <2>8. /\ n \in 1 .. 2 /\ n + 1 \in 1 .. Depth /\ 1 \in 1 .. n /\ n \in 1 .. n
        /\ (n + 1) - 1 = n
    BY <1>2, <2>2, <2>3
  <2>9. ASSUME NEW i \in 1 .. n
        PROVE  ls[i].index > 0 /\ ls[i + 1].block = map.disk[ls[i].block][ls[i].index]
    <3>1. CASE i = n
      <4>1. top[n].block = levels[n].block
        BY Zenon, <2>3, <2>8
      <4>2. ls[n] = top[n]
        BY Zenon, <2>7, <2>8
      <4>3. levels[n].index \in Nat
        <5>1. levels \in Seq(Level)
          BY Zenon, MapTypes DEF MapInv
        <5>2. levels[n].index \in 0 .. EntriesPerBlock
          BY Zenon, <1>1, <2>8, <5>1, LevelTypes
        <5> QED
          BY <2>4, <5>2
      <4>4. levels[n].index + 1 > 0
        BY <4>3
      <4> QED
        BY Zenon, <1>1, <2>3, <2>5, <2>7, <3>1, <4>1, <4>2, <4>4
    <3>2. CASE i # n
      <4>1. i \in 1 .. n - 1 /\ i + 1 \in 1 .. n
        BY <2>8, <3>2
      <4>2. top[i].index > 0 /\ top[i + 1].block = map.disk[top[i].block][top[i].index]
        BY Zenon, <2>3, <4>1 DEF Leads
      <4>3. ls[i] = top[i] /\ ls[i + 1] = top[i + 1]
        BY Zenon, <2>7, <4>1
      <4> QED
        BY Zenon, <4>2, <4>3
    <3> QED
      BY Zenon, <3>1, <3>2
  <2>10. ls[1].block = Root(Depth)
    BY Zenon, <2>3, <2>7, <2>8 DEF Leads
  <2>11. Leads(ls)
    BY Zenon, <2>7, <2>8, <2>9, <2>10 DEF Leads
  <2>12. Counts(num_blocks_yielded', ls)
    <3>1. PICK t, d : t = Taken(levels, n) /\ d = Depth
      BY Zenon
    <3>2. Taken(ls, n) = Taken(top, n)
      <4>1. \A i \in 1 .. n : ls[i].index = top[i].index
        BY Zenon, <2>7
      <4> QED
        BY Zenon, <2>3, <4>1, TakenSame
    <3>3. Taken(ls, n + 1) = ((t + 1) - 1) * EntriesPerBlock + 0
      <4>1. Taken(ls, n + 1) = (Taken(ls, n) - 1) * EntriesPerBlock + ls[n + 1].index
        BY Zenon, <2>8, TakenNext
      <4> QED
        BY Zenon, <2>3, <2>5, <2>7, <3>1, <3>2, <4>1
    <3>4. t \in Nat /\ d \in 1 .. 3 /\ n < d
      BY Zenon, <1>2, <2>2, <2>3, <3>1
    <3>5. ((t + 1) - 1) * EntriesPerBlock + 0 = t * EntriesPerBlock
      BY <2>4, <3>4
    <3>6. (t * EntriesPerBlock) * Span(d - (n + 1)) = t * Span(d - n)
      BY Zenon, <2>8, <3>4, Deeper
    <3>7. num_blocks_yielded = Before(d) + t * Span(d - n)
      BY Zenon, <1>1, <2>2, <3>1 DEF Counts
    <3>8. num_blocks_yielded' = Before(d) + Taken(ls, n + 1) * Span(d - (n + 1))
      BY Zenon, <1>2, <3>3, <3>5, <3>6, <3>7
    <3> QED
      BY Zenon, <2>7, <3>1, <3>8 DEF Counts
  <2>13. /\ Len(map_yielded') = num_blocks_yielded' /\ map_yielded' \in Seq(Nat)
         /\ num_blocks_yielded' \in 0 .. map.num_blocks_total
    BY Zenon, <1>2 DEF MapInv, CountInv, MapTypeOK
  <2>14. YieldsMappedBlocks'
    BY Zenon, <1>2, <2>1, MapNoItem
  <2> QED
    BY Zenon, <1>2, <2>1, <2>2, <2>6, <2>11, <2>12, <2>13, <2>14, MapMoves
<1> QED
  BY Zenon, <1>3, <1>4

(* The outermost block is used up. *)
LEMMA MapCloseRoot ==
  ASSUME AreMaps, MapInv, Close, Len(levels) = 1
  PROVE  MapInv'
<1>1. /\ UNCHANGED <<map, num_blocks_yielded, map_done, map_error, map_yielded>> /\ levels # <<>>
      /\ levels[1].index = EntriesPerBlock
      /\ levels' = SubSeq(levels, 1, 1 - 1)
      /\ level_0_index' = IF levels' = <<>> THEN level_0_index + 1 ELSE level_0_index
  BY Zenon DEF Close, Inside, Top
<1>2. SubSeq(levels, 1, 1 - 1) = <<>>
  <2>1. levels \in Seq(Level)
    BY Zenon, MapTypes DEF MapInv
  <2> QED
    BY <2>1
<1>3. levels' = <<>> /\ level_0_index' = level_0_index + 1
  BY Zenon, <1>1, <1>2
<1>4. /\ NumDirect \in Nat /\ level_0_index \in 0 .. NumDirect + 3
      /\ Depth = level_0_index - NumDirect + 1
      /\ Depth' = level_0_index' - NumDirect + 1
  BY Zenon, Spans, MapTypes DEF MapInv, Depth
<1>5. Depth \in 1 .. 3 /\ Counts(num_blocks_yielded, levels)
  BY Zenon, <1>1, MapStack
<1>6. PICK d : d = Depth
  BY Zenon
<1>7. /\ d \in 1 .. 3 /\ Depth' = d + 1 /\ ~ level_0_index' < NumDirect
      /\ level_0_index' \in 0 .. NumDirect + 3
  BY <1>3, <1>4, <1>5, <1>6
<1>8. num_blocks_yielded = Before(d + 1)
  <2>1. num_blocks_yielded = Before(d) + EntriesPerBlock * Span(d - 1)
    BY Zenon, <1>1, <1>5, <1>6, TakenStep DEF Counts
  <2>2. d - 1 \in 0 .. 2 /\ (d - 1) + 1 = d
    BY <1>7
  <2>3. Span((d - 1) + 1) = EntriesPerBlock * Span(d - 1)
    BY Zenon, <2>2, Spans
  <2>4. Before(d + 1) = Before(d) + Span(d)
    BY Zenon, <1>7, Spans
  <2> QED
    BY Zenon, <2>1, <2>2, <2>3, <2>4
<1>9. YieldsMappedBlocks'
  BY Zenon, <1>1, MapNoItem
<1>10. MapTypeOK'
  <2>1. levels' \in Seq(Level) /\ Len(levels') <= 3
    <3>1. <<>> \in Seq(Level) /\ Len(<<>>) <= 3
      OBVIOUS
    <3> QED
      BY Zenon, <1>3, <3>1
  <2> QED
    BY Zenon, <1>1, <1>7, <2>1, SameBlocks DEF MapInv, MapTypeOK, NumEntries
<1>11. StackInv'
  BY Zenon, <1>3 DEF StackInv
<1>12. CountInv'
  <2>1. Before(Depth)' = Before(d + 1)
    BY Zenon, <1>7 DEF Before, Span
  <2>2. Len(map_yielded') = num_blocks_yielded'
    BY Zenon, <1>1 DEF MapInv, CountInv
  <2> QED
    BY Zenon, <1>1, <1>3, <1>7, <1>8, <2>1, <2>2 DEF CountInv
<1> QED
  BY Zenon, <1>9, <1>10, <1>11, <1>12 DEF MapInv

LEMMA Shortened ==
  ASSUME NEW S, NEW s \in Seq(S), NEW m \in 1 .. Len(s) - 1
  PROVE  /\ SubSeq(s, 1, m) \in Seq(S) /\ Len(SubSeq(s, 1, m)) = m
         /\ \A i \in 1 .. m : SubSeq(s, 1, m)[i] = s[i]
OBVIOUS

(* A block inside another one is used up. *)
LEMMA MapCloseInner ==
  ASSUME AreMaps, MapInv, Close, Len(levels) # 1
  PROVE  MapInv'
<1>1. PICK n, ls : n = Len(levels) /\ ls = SubSeq(levels, 1, n - 1)
  BY Zenon
<1>2. /\ UNCHANGED <<map, num_blocks_yielded, map_done, map_error, map_yielded>> /\ levels # <<>>
      /\ levels[n].index = EntriesPerBlock /\ levels' = ls
      /\ level_0_index' = IF levels' = <<>> THEN level_0_index + 1 ELSE level_0_index
  BY Zenon, <1>1 DEF Close, Inside, Top
<1>3. /\ Depth \in 1 .. 3 /\ Leads(levels) /\ Counts(num_blocks_yielded, levels)
      /\ n \in 1 .. 3 /\ n # 1
  BY Zenon, <1>1, <1>2, MapStack
<1>4. levels \in Seq(Level) /\ n \in 1 .. Depth
  BY Zenon, <1>1, <1>3 DEF Leads
<1>5. PICK m : m = n - 1
  BY Zenon
<1>6. /\ m \in 1 .. 2 /\ m + 1 = n /\ m \in 1 .. n - 1 /\ m < Depth /\ m \in 1 .. Depth
      /\ 1 \in 1 .. m /\ m # 0 /\ m \in 1 .. 3 /\ m <= 3 /\ m \in 1 .. n
  BY <1>3, <1>4, <1>5
<1>7. /\ ls \in Seq(Level) /\ Len(ls) = m /\ \A i \in 1 .. m : ls[i] = levels[i]
  <2>1. m \in 1 .. Len(levels) - 1
    BY Zenon, <1>1, <1>6
  <2>2. /\ SubSeq(levels, 1, m) \in Seq(Level) /\ Len(SubSeq(levels, 1, m)) = m
        /\ \A i \in 1 .. m : SubSeq(levels, 1, m)[i] = levels[i]
    BY <1>4, <2>1, Shortened
  <2> QED
    BY Zenon, <1>1, <1>5, <2>2
<1>8. ls # <<>>
  BY Zenon, <1>6, <1>7, Lengths
<1>9. level_0_index' = level_0_index
  BY Zenon, <1>2, <1>8
<1>10. ASSUME NEW i \in 1 .. n - 1
       PROVE  /\ levels[i].index > 0
              /\ levels[i + 1].block = map.disk[levels[i].block][levels[i].index]
  BY Zenon, <1>1, <1>3 DEF Leads
<1>11. Leads(ls)
  <2>1. ASSUME NEW i \in 1 .. m - 1
        PROVE  ls[i].index > 0 /\ ls[i + 1].block = map.disk[ls[i].block][ls[i].index]
    <3>1. i \in 1 .. n - 1 /\ i \in 1 .. m /\ i + 1 \in 1 .. m
      BY <1>6
    <3>2. ls[i] = levels[i] /\ ls[i + 1] = levels[i + 1]
      BY Zenon, <1>7, <3>1
    <3> QED
      BY Zenon, <1>10, <3>1, <3>2
  <2>2. ls[1].block = Root(Depth)
    BY Zenon, <1>3, <1>6, <1>7 DEF Leads
  <2> QED
    BY Zenon, <1>6, <1>7, <2>1, <2>2 DEF Leads
<1>12. Counts(num_blocks_yielded', ls)
  <2>1. PICK t, d, e : t = Taken(levels, m) /\ d = Depth /\ e = EntriesPerBlock
    BY Zenon
  <2>2. \A i \in 1 .. m - 1 : levels[i].index > 0
    <3>1. \A i \in 1 .. m - 1 : i \in 1 .. n - 1
      BY <1>6
    <3> QED
      BY Zenon, <1>10, <3>1
  <2>3. t \in Nat /\ e \in Nat
    BY Zenon, <1>1, <1>4, <1>6, <2>1, <2>2, TakenType, Spans
  <2>4. Taken(ls, m) = t
    <3>1. \A i \in 1 .. m : ls[i].index = levels[i].index
      BY Zenon, <1>7
    <3> QED
      BY Zenon, <1>6, <2>1, <3>1, TakenSame
  <2>5. Taken(levels, n) = (t - 1) * e + e
    <3>1. Taken(levels, m + 1) = (Taken(levels, m) - 1) * EntriesPerBlock + levels[m + 1].index
      BY Zenon, <1>6, TakenNext
    <3> QED
      BY Zenon, <1>2, <1>6, <2>1, <3>1
  <2>6. (t - 1) * e + e = t * e
    BY <2>3
  <2>7. d \in 1 .. 3 /\ m < d
    BY Zenon, <1>3, <1>6, <2>1
  <2>8. (t * e) * Span(d - (m + 1)) = t * Span(d - m)
    <3>1. (t * EntriesPerBlock) * Span(d - (m + 1)) = t * Span(d - m)
      BY Zenon, <1>6, <2>3, <2>7, Deeper
    <3> QED
      BY Zenon, <2>1, <3>1
  <2>9. num_blocks_yielded = Before(d) + (t * e) * Span(d - n)
    BY Zenon, <1>1, <1>3, <2>1, <2>5, <2>6 DEF Counts
  <2>10. num_blocks_yielded' = Before(d) + t * Span(d - m)
    BY Zenon, <1>2, <1>6, <2>8, <2>9
  <2> QED
    BY Zenon, <1>7, <2>1, <2>4, <2>10 DEF Counts
<1>13. /\ Len(map_yielded') = num_blocks_yielded' /\ map_yielded' \in Seq(Nat)
       /\ num_blocks_yielded' \in 0 .. map.num_blocks_total
  BY Zenon, <1>2 DEF MapInv, CountInv, MapTypeOK
<1>14. YieldsMappedBlocks'
  BY Zenon, <1>2, MapNoItem
<1> QED
  BY Zenon, <1>2, <1>3, <1>9, <1>11, <1>12, <1>13, <1>14, MapMoves

LEMMA MapInvInit ==
  ASSUME AreMaps, MapInit
  PROVE  MapInv
<1>1. /\ map \in Maps /\ level_0_index = 0 /\ levels = <<>> /\ num_blocks_yielded = 0
      /\ map_done = FALSE /\ map_error = FALSE /\ map_yielded = <<>>
  BY Zenon DEF MapInit
<1>2. NumDirect \in Nat /\ Before(1) = NumDirect
  BY Zenon, Spans
<1>3. map.num_blocks_total \in Nat
  BY Zenon, <1>1 DEF AreMaps, IsMap
<1>4. /\ 0 \in 0 .. NumDirect + 3 /\ 0 \in 0 .. map.num_blocks_total
      /\ <<>> \in Seq(Level) /\ Len(<<>>) = 0 /\ 0 <= 3 /\ <<>> \in Seq(Nat) /\ 1 .. 0 = {}
  BY <1>2, <1>3
<1>5. MapTypeOK
  BY Zenon, <1>1, <1>4 DEF MapTypeOK, NumEntries
<1>6. StackInv
  BY Zenon, <1>1 DEF StackInv
<1>7. CountInv
  <2>1. ~ 0 < NumDirect => NumDirect = 0 /\ 0 - NumDirect + 1 = 1
    BY <1>2
  <2>2. ~ 0 < NumDirect => Depth = 1
    BY Zenon, <1>1, <2>1 DEF Depth
  <2>3. Len(map_yielded) = 0
    BY Zenon, <1>1, <1>4
  <2>4. ~ 0 < NumDirect => Before(Depth) = 0
    BY Zenon, <1>2, <2>1, <2>2
  <2>5. CASE 0 < NumDirect
    <3>1. level_0_index < NumDirect /\ num_blocks_yielded = level_0_index
          /\ Len(map_yielded) = num_blocks_yielded
      BY Zenon, <1>1, <2>3, <2>5
    <3> QED
      BY Zenon, <3>1 DEF CountInv
  <2>6. CASE ~ 0 < NumDirect
    BY Zenon, <1>1, <2>3, <2>4, <2>6 DEF CountInv
  <2> QED
    BY Zenon, <2>5, <2>6
<1>8. YieldsMappedBlocks
  BY Zenon, <1>1, <1>4 DEF YieldsMappedBlocks
<1> QED
  BY Zenon, <1>5, <1>6, <1>7, <1>8 DEF MapInv

LEMMA MapInvStep ==
  ASSUME AreMaps, MapInv, [MapNext]_map_vars
  PROVE  MapInv'
<1>1. ASSUME UNCHANGED map_vars PROVE MapInv'
  <2>1. /\ UNCHANGED <<map, level_0_index, levels, num_blocks_yielded, map_yielded, map_done, map_error>>
    BY Zenon, <1>1 DEF map_vars
  <2>2. YieldsMappedBlocks' /\ map_done' \in BOOLEAN /\ map_error' \in BOOLEAN
    BY Zenon, <2>1, MapNoItem DEF MapInv, MapTypeOK
  <2> QED
    BY Zenon, <2>1, <2>2, MapEnds
<1>2. CASE MapEndOfFile
  BY Zenon, <1>2, MapInvEndOfFile
<1>3. CASE EndOfMap
  BY Zenon, <1>3, MapEndOfMap
<1>4. CASE Direct
  BY Zenon, <1>4, MapDirect
<1>5. CASE OpenRoot
  BY Zenon, <1>5, MapOpenRoot
<1>6. CASE YieldEntry
  BY Zenon, <1>6, MapYieldEntry
<1>7. CASE Descend
  BY Zenon, <1>7, MapDescend
<1>8. CASE Close
  BY Zenon, <1>8, MapCloseRoot, MapCloseInner
<1> QED
  BY Zenon, <1>1, <1>2, <1>3, <1>4, <1>5, <1>6, <1>7, <1>8 DEF MapNext, MapStep, MapDone

(* The invariant of the iterator over a block map: the stack of open       *)
(* indirect blocks is the way to the place where the iterator is, and it   *)
(* has yielded as many items as the file has blocks before that place.     *)
THEOREM MapInvariant == MapSpec => []MapInv
<1>1. MapInit => MapInv
  BY Zenon, BlockMapAssumption, MapInvInit
<1>2. MapInv /\ [MapNext]_map_vars => MapInv'
  BY Zenon, BlockMapAssumption, MapInvStep
<1> QED
  BY <1>1, <1>2, PTL DEF MapSpec

(* BlockMap::next yields, for every number of entries in a block and every *)
(* block map, the location of block k of the file as its k-th item, across *)
(* the borders of indirect blocks and levels, and an iteration that ends   *)
(* without an error over a file that fits yields one item per block.       *)
THEOREM MapYieldsMappedBlocks == MapSpec => []YieldsMappedBlocks
<1>1. MapInv => YieldsMappedBlocks
  BY Zenon DEF MapInv
<1> QED
  BY <1>1, MapInvariant, PTL

(* The indices and the stack of BlockMap keep their types: an index never  *)
(* passes the entries of its block, and at most three blocks are open.     *)
THEOREM MapTypeCorrect == MapSpec => []MapTypeOK
<1>1. MapInv => MapTypeOK
  BY Zenon DEF MapInv
<1> QED
  BY <1>1, MapInvariant, PTL
=============================================================================

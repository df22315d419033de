---------------------------- MODULE DirEntryHash ----------------------------
(***************************************************************************)
(* The hashes of directory entry names (src/dir_entry_hash.rs).  A call of *)
(* HashAlg::hash hashes a name chunk by chunk into four words.             *)
(*                                                                         *)
(* TLC's integers have 31 bits, so a 32-bit word is a pair of halves,      *)
(* <<high, low>>, of 16 bits each.  All of the arithmetic wraps.           *)
(***************************************************************************)
EXTENDS Integers, Sequences, Bitwise, SequencesExt

VARIABLES call,         \* the arguments [alg, name, seed], or <<>>
          rest,         \* the part of the name that is still to be hashed
          state,        \* the StateBlock
          data,         \* the HashBlock of the current chunk, or <<>>
          words,        \* the local variables of md4_half or tea
          round,        \* the rounds done
          hash          \* the result, or <<>>

hashVars == <<call, rest, state, data, words, round, hash>>

Half == 65536
Zero == <<0, 0>>

Add(x, y) == <<(x[1] + y[1] + ((x[2] + y[2]) \div Half)) % Half, (x[2] + y[2]) % Half>>
BitXor(x, y) == <<x[1] ^^ y[1], x[2] ^^ y[2]>>
BitAnd(x, y) == <<x[1] & y[1], x[2] & y[2]>>
BitOr(x, y) == <<x[1] | y[1], x[2] | y[2]>>

(* Shifts by less than 16 bits *)
Shl(x, n) == <<((x[1] * 2^n) % Half) + ((x[2] * 2^n) \div Half), (x[2] * 2^n) % Half>>
Shr(x, n) == <<x[1] \div 2^n, (x[2] \div 2^n) + ((x[1] % 2^n) * 2^(16 - n))>>

rotate_left(x, n) ==
    LET y == IF n < 16 THEN x ELSE <<x[2], x[1]>>
        s == n % 16
    IN  BitOr(Shl(y, s), <<0, y[1] \div 2^(16 - s)>>)

-----------------------------------------------------------------------------
K1 == <<\h5a82, \h7999>>
K2 == <<\h6ed9, \heba1>>

f(x, y, z) == BitXor(z, BitAnd(x, BitXor(y, z)))
g(x, y, z) == BitOr(BitOr(BitAnd(x, y), BitAnd(x, z)), BitAnd(y, z))
h(x, y, z) == BitXor(BitXor(x, y), z)

(* The operations of a round: for each start, one on each of a, d, c, b *)
Round(fun, k, starts, offsets, shifts) ==
    FlattenSeq([s \in 1 .. Len(starts) |->
        [j \in 1 .. 4 |-> [fun |-> fun, k |-> k, shift |-> shifts[j],
                           data |-> starts[s] + offsets[j]]]])

Rounds == <<Round("f", Zero, <<0, 4>>, <<0, 1, 2, 3>>, <<3, 7, 11, 19>>),
            Round("g", K1, <<1, 0>>, <<0, 2, 4, 6>>, <<3, 5, 9, 13>>),
            Round("h", K2, <<2, 0>>, <<1, 5, 0, 4>>, <<3, 9, 11, 15>>)>>

(* The words are kept in the order in which an operation takes them, the   *)
(* one it changes first; they rotate from one operation to the next.       *)
op(w, o) ==
    LET mix == CASE o.fun = "f" -> f(w[2], w[3], w[4])
                 [] o.fun = "g" -> g(w[2], w[3], w[4])
                 [] o.fun = "h" -> h(w[2], w[3], w[4])
        t == Add(Add(w[1], mix), Add(data[o.data + 1], o.k))
    IN  <<w[4], rotate_left(t, o.shift), w[2], w[3]>>

(* A round of md4_half *)
md4_round == FoldLeft(op, words, Rounds[round + 1])

DELTA == <<\h9e37, \h79b9>>

(* A round of tea, on <<v0, v1, sum>> *)
tea_round ==
    LET Mix(x, sum, d1, d2) ==
            BitXor(BitXor(Add(Shl(x, 4), d1), Add(x, sum)), Add(Shr(x, 5), d2))
        sum == Add(words[3], DELTA)
        v0 == Add(words[1], Mix(words[2], sum, data[1], data[2]))
    IN  <<v0, Add(words[2], Mix(v0, sum, data[3], data[4])), sum>>

-----------------------------------------------------------------------------
sign_extend_byte_to_u32(byte) ==
    IF byte < 128 THEN <<0, byte>> ELSE <<Half - 1, Half - 256 + byte>>

(* Each word starts as four times the length and takes up to four bytes of *)
(* the chunk.                                                              *)
create_hash_block(src, n) ==
    LET pad == (Len(src) % 256) * 257
        Bytes(i) == SubSeq(src, 4 * i - 3, IF 4 * i < Len(src) THEN 4 * i ELSE Len(src))
        Take(elem, byte) == Add(sign_extend_byte_to_u32(byte), Shl(elem, 8))
    IN  [i \in 1 .. n |-> FoldLeft(Take, <<pad, pad>>, Bytes(i))]

DefaultSeed == << <<\h6745, \h2301>>, <<\hefcd, \hab89>>,
                  <<\h98ba, \hdcfe>>, <<\h1032, \h5476>> >>

(* HashAlg::from_u8 *)
from_u8(alg) == CASE alg = 1 -> "HalfMd4" [] alg = 2 -> "Tea" [] OTHER -> "DirectoryHash"

HashInit ==
    /\ call = <<>> /\ rest = <<>> /\ state = <<>>
    /\ data = <<>> /\ words = <<>> /\ round = 0
    /\ hash = <<>>

IsMd4 == from_u8(call.alg) = "HalfMd4"
NumRounds == IF IsMd4 THEN 3 ELSE 16
Hashing == call # <<>> /\ hash = <<>>

(* The algorithm of a directory is not known, or the call begins. *)
StartHash(c) ==
    /\ call' = c
    /\ IF from_u8(c.alg) = "DirectoryHash"
       THEN hash' = <<"DirectoryHash">> /\ UNCHANGED <<rest, state>>
       ELSE /\ UNCHANGED hash
            /\ rest' = c.name
            /\ state' = IF c.seed = [i \in 1 .. 4 |-> Zero] THEN DefaultSeed ELSE c.seed
    /\ UNCHANGED <<data, words, round>>

(* Mistake: the whole name is hashed as one chunk. *)
NextChunkWhole ==
    /\ Hashing /\ data = <<>> /\ rest # <<>>
    /\ data' = create_hash_block(rest, IF IsMd4 THEN 8 ELSE 4)
    /\ rest' = <<>>
    /\ words' = IF IsMd4 THEN state ELSE <<state[1], state[2], Zero>>
    /\ round' = 0
    /\ UNCHANGED <<call, state, hash>>

NextChunk ==
    /\ Hashing /\ data = <<>> /\ rest # <<>>
    /\ LET n == IF IsMd4 THEN 8 ELSE 4
           len == IF 4 * n < Len(rest) THEN 4 * n ELSE Len(rest)
       IN  /\ data' = create_hash_block(SubSeq(rest, 1, len), n)
           /\ rest' = SubSeq(rest, len + 1, Len(rest))
    /\ words' = IF IsMd4 THEN state ELSE <<state[1], state[2], Zero>>
    /\ round' = 0
    /\ UNCHANGED <<call, state, hash>>

HashRound ==
    /\ Hashing /\ data # <<>> /\ round < NumRounds
    /\ words' = IF IsMd4 THEN md4_round ELSE tea_round
    /\ round' = round + 1
    /\ UNCHANGED <<call, rest, state, data, hash>>

(* The words are added to the state, by tea only the first two. *)
ChunkDone ==
    /\ Hashing /\ data # <<>> /\ round = NumRounds
    /\ state' = [i \in 1 .. 4 |-> IF IsMd4 \/ i <= 2 THEN Add(state[i], words[i])
                                                     ELSE state[i]]
    /\ data' = <<>>
    /\ UNCHANGED <<call, rest, words, round, hash>>

(* The lowest bit is cleared. *)
FinishHash ==
    /\ Hashing /\ data = <<>> /\ rest = <<>>
    /\ LET word == IF IsMd4 THEN state[2] ELSE state[1]
       IN  hash' = <<word[1], word[2] - (word[2] % 2)>>
    /\ UNCHANGED <<call, rest, state, data, words, round>>
=============================================================================

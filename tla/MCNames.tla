------------------------------ MODULE MCNames -------------------------------
(***************************************************************************)
(* Strings of up to two of the bytes "/", "." and "a", some longer ones, a *)
(* null byte, components of 254 to 256 bytes, and the names, seeds and     *)
(* hashes of the tests of dir_entry_hash.rs.                               *)
(***************************************************************************)
EXTENDS Names, TLC

A == 97
Repeat(byte, n) == [i \in 1 .. n |-> byte]

Abc == <<97, 98, 99>>

(* "NetLock_Arany_=Class_Gold=_Főtanúsítvány.pem", in UTF-8 *)
NonAscii == <<78, 101, 116, 76, 111, 99, 107, 95, 65, 114, 97, 110, 121, 95, 61,
              67, 108, 97, 115, 115, 95, 71, 111, 108, 100, 61, 95, 70, 197, 145,
              116, 97, 110, 195, 186, 115, 195, 173, 116, 118, 195, 161, 110, 121,
              46, 112, 101, 109>>

(* "abc...zABC...Z", repeated up to 255 bytes *)
MaxLenName == [i \in 1 .. 255 |->
    LET k == (i - 1) % 52 IN IF k < 26 THEN 97 + k ELSE 65 + k - 26]

Seed0 == Repeat(<<0, 0>>, 4)
Seed1 == << <<\heba1, \h3f33>>, <<\h6e45, \h8c58>>, <<\hd3d1, \h1cb8>>, <<\h010e, \hcd43>> >>
Seed2 == << <<\he08b, \hc40f>>, <<\h9147, \hdc17>>, <<\h9639, \h20b1>>, <<\h319a, \h154e>> >>

Vector(alg, name, seed, expected) ==
    [alg |-> alg, name |-> name, seed |-> seed, expected |-> expected]

MCVectors ==
    {Vector(1, Abc, Seed1, <<\h2578, \h3134>>), Vector(1, Abc, Seed2, <<\h4599, \hf742>>),
     Vector(1, Abc, Seed0, <<\hd196, \ha868>>), Vector(1, NonAscii, Seed1, <<\hb40a, \h2038>>),
     Vector(1, MaxLenName, Seed1, <<\he40e, \h82e0>>),
     Vector(2, Abc, Seed1, <<\h8abf, \h7e2e>>), Vector(2, Abc, Seed2, <<\ha19e, \hddb4>>),
     Vector(2, Abc, Seed0, <<\hb143, \h5ec4>>), Vector(2, NonAscii, Seed1, <<\h23d6, \h1dc4>>),
     Vector(2, MaxLenName, Seed1, <<\hfd79, \hbbac>>),
     Vector(123, Abc, Seed0, <<"DirectoryHash">>)}

MCInputs ==
    UNION {[1 .. n -> {SEPARATOR, DOT, A}] : n \in 0 .. 2}
    \cup {<<DOT, DOT, SEPARATOR>>, <<SEPARATOR, SEPARATOR, A>>, <<A, SEPARATOR, DOT>>,
          <<A, SEPARATOR, SEPARATOR, A>>,
          <<A, NULL>>, <<NULL>>, Abc, NonAscii, MaxLenName}
    \cup {Repeat(A, n) : n \in 254 .. 256}
    \cup {<<SEPARATOR>> \o Repeat(A, n) : n \in 255 .. 256}
    \cup {Repeat(A, 255) \o <<SEPARATOR, A>>}
=============================================================================

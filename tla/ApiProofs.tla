----------------------------- MODULE ApiProofs ------------------------------
(***************************************************************************)
(* Proofs about path resolution (Resolve) and the methods that use it      *)
(* (Api), for all trees, paths and limits: resolution implements the walk  *)
(* of PathWalk, the part of the path before the index leads to the current *)
(* inode, only the limit on iterations makes it panic, and a canonical     *)
(* path resolves to itself.                                                *)
(*                                                                         *)
(* The text of a path comes first: without repeated separators it          *)
(* alternates between separators and components (Alternates), and every    *)
(* edit is one of its list of components.  Then the steps of the loop, one *)
(* lemma each, and last the calls.                                         *)
(***************************************************************************)
EXTENDS Api, TLAPS, FunctionTheorems

(* Induction, as a fact about sets.  If the step leads to n and n is not   *)
(* reached, then neither are the numbers before it, down to one, and       *)
(* moving those down by one would map 1 .. n + 1 into 1 .. n.              *)
LEMMA Induction ==
  ASSUME NEW N \in Nat, NEW S, 0 \in S,
         \A n \in S : n \in 0 .. N - 1 => n + 1 \in S
  PROVE  \A n \in 0 .. N : n \in S
<1> SUFFICES ASSUME NEW n \in 0 .. N, n \notin S PROVE FALSE
  BY Zenon
<1> DEFINE f == [k \in 1 .. n + 1 |-> IF k - 1 \in S THEN k ELSE k - 1]
<1>1. n \in Nat /\ n + 1 \in Nat
  OBVIOUS
<1>2. ASSUME NEW k \in 0 .. n, k \notin S PROVE k # 0 /\ k - 1 \notin S
  <2>1. k # 0
    BY Zenon, <1>2
  <2>2. k - 1 \in 0 .. N - 1 /\ (k - 1) + 1 = k
    BY <1>1, <2>1
  <2> QED
    BY Zenon, <1>2, <2>1, <2>2
<1>3. \A k \in 1 .. n + 1 : f[k] = IF k - 1 \in S THEN k ELSE k - 1
  BY Zenon
<1>4. f \in [1 .. n + 1 -> 1 .. n]
  <2> SUFFICES ASSUME NEW k \in 1 .. n + 1
               PROVE  (IF k - 1 \in S THEN k ELSE k - 1) \in 1 .. n
    BY Zenon
  <2>1. CASE k - 1 \in S
    <3>1. k - 1 # n
      BY Zenon, <2>1
    <3> QED
      BY <1>1, <2>1, <3>1
  <2>2. CASE k - 1 \notin S
    <3>1. k - 1 \in 0 .. n
      BY <1>1
    <3>2. k - 1 # 0
      BY Zenon, <1>2, <2>2, <3>1
    <3> QED
      BY <1>1, <2>2, <3>2
  <2> QED
    BY Zenon, <2>1, <2>2
<1> HIDE DEF f
<1>5. ASSUME NEW a \in 1 .. n + 1, NEW b \in 1 .. n + 1, f[a] = f[b] PROVE a = b
  <2>1. a - 1 \in 0 .. n /\ b - 1 \in 0 .. n
    BY <1>1
  <2>2. CASE (a - 1 \in S) <=> (b - 1 \in S)
    BY <1>1, <1>3, <1>5, <2>2
  <2>3. CASE a - 1 \in S /\ b - 1 \notin S
    <3>1. a = b - 1
      BY Zenon, <1>3, <1>5, <2>3
    <3>2. (b - 1) - 1 \notin S
      BY Zenon, <1>2, <2>1, <2>3
    <3> QED
      BY Zenon, <2>3, <3>1, <3>2
  <2>4. CASE a - 1 \notin S /\ b - 1 \in S
    <3>1. b = a - 1
      BY Zenon, <1>3, <1>5, <2>4
    <3>2. (a - 1) - 1 \notin S
      BY Zenon, <1>2, <2>1, <2>4
    <3> QED
      BY Zenon, <2>4, <3>1, <3>2
  <2> QED
    BY Zenon, <2>2, <2>3, <2>4
<1>6. f \in Injection(1 .. n + 1, 1 .. n)
  BY Zenon, <1>4, <1>5, Fun_IsInj
<1>7. ExistsInjection(1 .. n + 1, 1 .. n)
  BY Zenon, <1>6, Fun_ExistsInj
<1>8. n + 1 <= n
  BY Zenon, <1>1, <1>7, Fun_NatInjLeq
<1> QED
  BY <1>1, <1>8

(* A function is defined by its first value and the step to the next one.  *)
IsFold(g, V, e, N, F) ==
    /\ g \in [0 .. N -> V]
    /\ g[0] = e
    /\ \A i \in 1 .. N : g[i] = F[i][g[i - 1]]

LEMMA Recursion ==
  ASSUME NEW V, NEW e \in V, NEW N \in Nat, NEW F \in [1 .. N -> [V -> V]]
  PROVE  \E g : IsFold(g, V, e, N, F)
<1> DEFINE Good(n, g) == g[0] = e /\ \A i \in 1 .. n : g[i] = F[i][g[i - 1]]
           S == {n \in 0 .. N : \E g \in [0 .. n -> V] : Good(n, g)}
<1>1. 0 \in S
  <2> DEFINE g == [i \in 0 .. 0 |-> e]
  <2>1. g \in [0 .. 0 -> V] /\ Good(0, g) /\ 0 \in 0 .. N
    OBVIOUS
  <2> HIDE DEF g
  <2> QED
    BY Zenon, <2>1
<1>2. ASSUME NEW n \in S, n \in 0 .. N - 1 PROVE n + 1 \in S
  <2>1. PICK g \in [0 .. n -> V] : Good(n, g)
    BY Zenon, <1>2
  <2> DEFINE h == [i \in 0 .. n + 1 |-> IF i <= n THEN g[i] ELSE F[n + 1][g[n]]]
  <2>2. n \in Nat /\ n + 1 \in 1 .. N /\ n + 1 \in 0 .. N
    BY <1>2
  <2>3. F[n + 1] \in [V -> V] /\ g[n] \in V /\ F[n + 1][g[n]] \in V
    BY <2>2
  <2>4. h \in [0 .. n + 1 -> V]
    BY <2>2, <2>3
  <2>5. h[0] = e
    BY <2>1, <2>2
  <2>6. ASSUME NEW i \in 1 .. n + 1 PROVE h[i] = F[i][h[i - 1]]
    <3>1. CASE i <= n
      <4>1. h[i] = g[i] /\ h[i - 1] = g[i - 1] /\ i \in 1 .. n
        BY <2>2, <3>1
      <4> HIDE DEF h
      <4> QED
        BY Zenon, <2>1, <4>1
    <3>2. CASE i = n + 1
      BY <2>2, <3>2
    <3> QED
      BY <2>2, <3>1, <3>2
  <2> HIDE DEF h
  <2> QED
    BY Zenon, <2>2, <2>4, <2>5, <2>6
<1>3. \A n \in 0 .. N : n \in S
  <2> HIDE DEF S
  <2> QED
    BY Zenon, <1>1, <1>2, Induction
<1> QED
  BY <1>3 DEF IsFold

-----------------------------------------------------------------------------
(* Paths as text *)
Tokens == Names \cup {SEPARATOR}

LEMMA EqualSequences ==
  ASSUME NEW x \in Seq(Tokens), NEW y \in Seq(Tokens), Len(x) = Len(y),
         \A k \in 1 .. Len(x) : x[k] = y[k]
  PROVE  x = y
  OBVIOUS

LEMMA ConcatFacts ==
  ASSUME NEW x \in Seq(Tokens), NEW y \in Seq(Tokens)
  PROVE  /\ x \o y \in Seq(Tokens)
         /\ Len(x) \in Nat /\ Len(y) \in Nat
         /\ Len(x \o y) = Len(x) + Len(y)
         /\ \A k \in 1 .. Len(x) : (x \o y)[k] = x[k]
         /\ \A k \in 1 .. Len(y) : (x \o y)[Len(x) + k] = y[k]
  OBVIOUS

LEMMA ConcatThree ==
  ASSUME NEW x \in Seq(Tokens), NEW y \in Seq(Tokens), NEW z \in Seq(Tokens)
  PROVE  (x \o y) \o z = x \o (y \o z)
  OBVIOUS

LEMMA SeparatorIsNoName == SEPARATOR \notin Names
  BY Zenon, ResolveAssumption

(* What the recursive definitions compute, token by token *)
IsDedup(p, d) ==
    d = [i \in 0 .. Len(p) |->
            IF i = 0 THEN <<>>
            ELSE LET done == d[i - 1]
                 IN  IF p[i] = SEPARATOR /\ EndsInSep(done) THEN done
                     ELSE Append(done, p[i])]

IsComponents(p, c) ==
    c = [i \in 0 .. Len(p) |->
            IF i = 0 THEN <<>>
            ELSE IF p[i] = SEPARATOR THEN c[i - 1] ELSE Append(c[i - 1], p[i])]

LEMMA DedupDef ==
  ASSUME NEW p \in Seq(Tokens)
  PROVE  \E d : IsDedup(p, d) /\ path_dedup_sep(p) = d[Len(p)]
<1> DEFINE V == Seq(Tokens)
           F == [i \in 1 .. Len(p) |-> [s \in V |->
                    IF p[i] = SEPARATOR /\ EndsInSep(s) THEN s ELSE Append(s, p[i])]]
<1>1. F \in [1 .. Len(p) -> [V -> V]]
  <2>1. ASSUME NEW i \in 1 .. Len(p), NEW s \in V
        PROVE  (IF p[i] = SEPARATOR /\ EndsInSep(s) THEN s ELSE Append(s, p[i])) \in V
    BY <2>1
  <2> QED
    BY Zenon, <2>1
<1>2. PICK g \in [0 .. Len(p) -> V] :
         g[0] = <<>> /\ \A i \in 1 .. Len(p) : g[i] = F[i][g[i - 1]]
  <2> HIDE DEF F
  <2> DEFINE e == <<>>
  <2>1. e \in V /\ Len(p) \in Nat
    OBVIOUS
  <2> HIDE DEF V, e
  <2>2. \E g : IsFold(g, V, e, Len(p), F)
    BY Zenon, <1>1, <2>1, Recursion
  <2> QED
    BY Zenon, <2>2 DEF e, IsFold
<1>3. ASSUME NEW i \in 1 .. Len(p)
      PROVE  g[i] = IF p[i] = SEPARATOR /\ EndsInSep(g[i - 1]) THEN g[i - 1]
                    ELSE Append(g[i - 1], p[i])
  <2>1. g[i - 1] \in V
    OBVIOUS
  <2> HIDE DEF V
  <2> QED
    BY Zenon, <1>2, <2>1
<1>4. IsDedup(p, g)
  <2> HIDE DEF F, V
  <2>1. ASSUME NEW i \in 0 .. Len(p), i # 0 PROVE i \in 1 .. Len(p)
    BY <2>1
  <2> QED
    BY Zenon, <1>2, <1>3, <2>1 DEF IsDedup
<1> HIDE DEF F, V
<1> QED
  BY Zenon, <1>4 DEF IsDedup, path_dedup_sep

LEMMA ComponentsDef ==
  ASSUME NEW p \in Seq(Tokens)
  PROVE  \E c : IsComponents(p, c) /\ Walk!Components(p) = c[Len(p)]
<1> DEFINE V == Seq(Tokens)
           F == [i \in 1 .. Len(p) |-> [s \in V |->
                    IF p[i] = SEPARATOR THEN s ELSE Append(s, p[i])]]
<1>1. F \in [1 .. Len(p) -> [V -> V]]
  <2>1. ASSUME NEW i \in 1 .. Len(p), NEW s \in V
        PROVE  (IF p[i] = SEPARATOR THEN s ELSE Append(s, p[i])) \in V
    BY <2>1
  <2> QED
    BY Zenon, <2>1
<1>2. PICK g \in [0 .. Len(p) -> V] :
         g[0] = <<>> /\ \A i \in 1 .. Len(p) : g[i] = F[i][g[i - 1]]
  <2> HIDE DEF F
  <2> DEFINE e == <<>>
  <2>1. e \in V /\ Len(p) \in Nat
    OBVIOUS
  <2> HIDE DEF V, e
  <2>2. \E g : IsFold(g, V, e, Len(p), F)
    BY Zenon, <1>1, <2>1, Recursion
  <2> QED
    BY Zenon, <2>2 DEF e, IsFold
<1>3. ASSUME NEW i \in 1 .. Len(p)
      PROVE  g[i] = IF p[i] = SEPARATOR THEN g[i - 1] ELSE Append(g[i - 1], p[i])
  <2>1. g[i - 1] \in V
    OBVIOUS
  <2> HIDE DEF V
  <2> QED
    BY Zenon, <1>2, <2>1
<1>4. IsComponents(p, g)
  <2> HIDE DEF F, V
  <2>1. ASSUME NEW i \in 0 .. Len(p), i # 0 PROVE i \in 1 .. Len(p)
    BY <2>1
  <2> QED
    BY Zenon, <1>2, <1>3, <2>1 DEF IsComponents
<1> HIDE DEF F, V
<1> QED
  BY Zenon, <1>4 DEF IsComponents, Walk!Components

(* A path that begins with a separator and has one between components *)
Alternates(p) ==
    /\ p \in Seq(Tokens)
    /\ \A i \in 1 .. Len(p) : p[i] = SEPARATOR <=> i % 2 = 1

Comps(p) == Passed(p, Len(p))

LEMMA CompsFacts ==
  ASSUME NEW p \in Seq(Tokens)
  PROVE  /\ Comps(p) \in Seq(Tokens)
         /\ Len(Comps(p)) = Len(p) \div 2
         /\ \A k \in 1 .. Len(p) \div 2 : Comps(p)[k] = p[2 * k]
<1> DEFINE n == Len(p) \div 2
<1>1. n \in Nat /\ \A k \in 1 .. n : 2 * k \in 1 .. Len(p)
  OBVIOUS
<1>2. Comps(p) \in [1 .. n -> Tokens] /\ \A k \in 1 .. n : Comps(p)[k] = p[2 * k]
  BY <1>1 DEF Comps, Passed
<1> HIDE DEF n
<1>3. Comps(p) \in Seq(Tokens) /\ Len(Comps(p)) = n
  <2> DEFINE c == Comps(p)
  <2>1. c \in [1 .. n -> Tokens]
    BY Zenon, <1>2
  <2> HIDE DEF c
  <2>2. c \in Seq(Tokens) /\ Len(c) = n
    BY <1>1, <2>1
  <2> QED
    BY Zenon, <2>2 DEF c
<1> QED
  BY Zenon, <1>2, <1>3 DEF n

LEMMA AppendSeparator ==
  ASSUME NEW s, Alternates(s), Len(s) % 2 = 0
  PROVE  /\ Alternates(Append(s, SEPARATOR))
         /\ Comps(Append(s, SEPARATOR)) = Comps(s)
<1> DEFINE t == Append(s, SEPARATOR)
<1>1. s \in Seq(Tokens) /\ SEPARATOR \in Tokens
  BY Zenon DEF Alternates, Tokens
<1>2. /\ t \in Seq(Tokens) /\ Len(t) = Len(s) + 1 /\ t[Len(s) + 1] = SEPARATOR
      /\ \A i \in 1 .. Len(s) : t[i] = s[i]
  BY <1>1
<1>3. Len(t) \div 2 = Len(s) \div 2 /\ Len(t) % 2 = 1 /\ Len(s) \in Nat
      /\ \A k \in 1 .. Len(s) \div 2 : 2 * k \in 1 .. Len(s)
  BY <1>1, <1>2
<1> HIDE DEF t
<1>4. Alternates(t)
  <2> SUFFICES ASSUME NEW i \in 1 .. Len(t) PROVE t[i] = SEPARATOR <=> i % 2 = 1
    BY Zenon, <1>2 DEF Alternates
  <2>1. CASE i = Len(s) + 1
    BY Zenon, <1>2, <1>3, <2>1
  <2>2. CASE i \in 1 .. Len(s)
    BY Zenon, <1>2, <2>2 DEF Alternates
  <2>3. i \in 1 .. Len(s) \/ i = Len(s) + 1
    <3>1. Len(t) = Len(s) + 1 /\ Len(s) \in Nat
      BY Zenon, <1>2, <1>3
    <3> QED
      BY <3>1
  <2> QED
    BY Zenon, <2>1, <2>2, <2>3
<1>5. Comps(t) = Comps(s)
  BY Zenon, <1>2, <1>3 DEF Comps, Passed
<1> QED
  BY Zenon, <1>4, <1>5 DEF t

LEMMA AppendName ==
  ASSUME NEW s, Alternates(s), Len(s) % 2 = 1, NEW x \in Names
  PROVE  /\ Alternates(Append(s, x))
         /\ Comps(Append(s, x)) = Append(Comps(s), x)
<1> DEFINE t == Append(s, x)
<1>1. s \in Seq(Tokens) /\ x \in Tokens /\ x # SEPARATOR
  BY Zenon, SeparatorIsNoName DEF Alternates, Tokens
<1>2. /\ t \in Seq(Tokens) /\ Len(t) = Len(s) + 1 /\ t[Len(s) + 1] = x
      /\ \A i \in 1 .. Len(s) : t[i] = s[i]
  BY <1>1
<1>3. Len(t) \div 2 = Len(s) \div 2 + 1 /\ Len(t) % 2 = 0 /\ Len(s) \in Nat
      /\ 2 * (Len(s) \div 2 + 1) = Len(s) + 1
      /\ \A k \in 1 .. Len(s) \div 2 : 2 * k \in 1 .. Len(s)
  BY <1>1, <1>2
<1> HIDE DEF t
<1>4. Alternates(t)
  <2> SUFFICES ASSUME NEW i \in 1 .. Len(t) PROVE t[i] = SEPARATOR <=> i % 2 = 1
    BY Zenon, <1>2 DEF Alternates
  <2>1. CASE i = Len(s) + 1
    BY <1>1, <1>2, <1>3, <2>1
  <2>2. CASE i \in 1 .. Len(s)
    BY Zenon, <1>2, <2>2 DEF Alternates
  <2>3. i \in 1 .. Len(s) \/ i = Len(s) + 1
    <3>1. Len(t) = Len(s) + 1 /\ Len(s) \in Nat
      BY Zenon, <1>2, <1>3
    <3> QED
      BY <3>1
  <2> QED
    BY Zenon, <2>1, <2>2, <2>3
<1>5. Comps(t) = Append(Comps(s), x)
  <2> DEFINE c == Comps(t)
             b == Comps(s)
             n == Len(s) \div 2
  <2>1. /\ c \in Seq(Tokens) /\ b \in Seq(Tokens) /\ Len(c) = n + 1 /\ Len(b) = n
        /\ \A k \in 1 .. n + 1 : c[k] = t[2 * k]
        /\ \A k \in 1 .. n : b[k] = s[2 * k]
    BY Zenon, <1>1, <1>2, <1>3, CompsFacts
  <2>2. n \in Nat /\ \A k \in 1 .. n : 2 * k \in 1 .. Len(s)
    BY <1>3
  <2>3. c[n + 1] = x
    BY <1>2, <1>3, <2>1, <2>2
  <2>4. ASSUME NEW k \in 1 .. n PROVE c[k] = b[k]
    <3>1. k \in 1 .. n + 1 /\ 2 * k \in 1 .. Len(s)
      BY <2>2
    <3> HIDE DEF c, b, n
    <3> QED
      BY Zenon, <1>2, <2>1, <3>1
  <2> HIDE DEF c, b, n
  <2>5. c = Append(b, x)
    BY <1>1, <2>1, <2>2, <2>3, <2>4
  <2> QED
    BY Zenon, <2>5 DEF c, b
<1> QED
  BY Zenon, <1>4, <1>5 DEF t

LEMMA EndOfAlternating ==
  ASSUME NEW p, Alternates(p)
  PROVE  /\ EndsInSep(p) <=> Len(p) % 2 = 1
         /\ ~ EndsInSep(p) <=> Len(p) % 2 = 0
<1>1. p \in Seq(Tokens) /\ Len(p) \in Nat /\ (p = <<>> <=> Len(p) = 0)
  BY DEF Alternates
<1>2. EndsInSep(p) <=> Len(p) % 2 = 1
  <2>1. CASE p = <<>>
    BY <1>1, <2>1 DEF EndsInSep
  <2>2. CASE p # <<>>
    BY <1>1, <2>2 DEF EndsInSep, Alternates
  <2> QED
    BY Zenon, <2>1, <2>2
<1>3. Len(p) % 2 = 0 <=> ~ (Len(p) % 2 = 1)
  BY <1>1
<1> QED
  BY Zenon, <1>2, <1>3

(* Deduplication leaves a path with one separator between components, and  *)
(* with the same components.                                               *)
LEMMA DedupFacts ==
  ASSUME NEW p, IsPath(p), is_absolute(p)
  PROVE  /\ Alternates(path_dedup_sep(p))
         /\ Len(path_dedup_sep(p)) \in 1 .. Len(p)
         /\ EndsInSep(path_dedup_sep(p)) <=> EndsInSep(p)
         /\ Comps(path_dedup_sep(p)) = Walk!Components(p)
<1>1. p \in Seq(Tokens) /\ Len(p) \in Nat \ {0} /\ p[1] = SEPARATOR
  BY DEF IsPath, is_absolute, Tokens
<1>2. PICK d : IsDedup(p, d) /\ path_dedup_sep(p) = d[Len(p)]
  BY Zenon, <1>1, DedupDef
<1>3. PICK c : IsComponents(p, c) /\ Walk!Components(p) = c[Len(p)]
  BY Zenon, <1>1, ComponentsDef
<1>4. d[0] = <<>> /\ c[0] = <<>>
  BY <1>1, <1>2, <1>3 DEF IsDedup, IsComponents
<1>5. ASSUME NEW i \in 1 .. Len(p)
      PROVE  /\ d[i] = IF p[i] = SEPARATOR /\ EndsInSep(d[i - 1]) THEN d[i - 1]
                       ELSE Append(d[i - 1], p[i])
             /\ c[i] = IF p[i] = SEPARATOR THEN c[i - 1] ELSE Append(c[i - 1], p[i])
  <2>1. i \in 0 .. Len(p) /\ i # 0
    BY <1>1
  <2> QED
    BY Zenon, <1>2, <1>3, <2>1 DEF IsDedup, IsComponents
<1> DEFINE J(i) == /\ Alternates(d[i])
                   /\ Len(d[i]) \in 0 .. i
                   /\ i = 0 => Len(d[i]) = 0
                   /\ i > 0 => Len(d[i]) > 0 /\ (EndsInSep(d[i]) <=> p[i] = SEPARATOR)
                   /\ Comps(d[i]) = c[i]
           S == {i \in 0 .. Len(p) : J(i)}
<1>6. 0 \in S
  <2>1. Alternates(<<>>)
    BY DEF Alternates
  <2>2. Comps(<<>>) = <<>>
    BY DEF Comps, Passed
  <2>3. J(0)
    BY <1>4, <2>1, <2>2
  <2> QED
    BY <1>1, <2>3
<1>7. ASSUME NEW n \in S, n \in 0 .. Len(p) - 1 PROVE n + 1 \in S
  <2>1. J(n) /\ n \in Nat
    OBVIOUS
  <2>2. n + 1 \in 1 .. Len(p) /\ (n + 1) - 1 = n /\ n + 1 \in 0 .. Len(p) /\ n + 1 > 0
    BY <1>1, <1>7
  <2>3. /\ d[n + 1] = IF p[n + 1] = SEPARATOR /\ EndsInSep(d[n]) THEN d[n]
                      ELSE Append(d[n], p[n + 1])
        /\ c[n + 1] = IF p[n + 1] = SEPARATOR THEN c[n] ELSE Append(c[n], p[n + 1])
    BY Zenon, <1>5, <2>2
  <2>4. p[n + 1] \in Tokens /\ d[n] \in Seq(Tokens)
    BY <1>1, <2>1, <2>2 DEF Alternates
  <2>5. /\ EndsInSep(d[n]) <=> Len(d[n]) % 2 = 1
        /\ ~ EndsInSep(d[n]) <=> Len(d[n]) % 2 = 0
    BY Zenon, <2>1, EndOfAlternating
  <2>6. CASE p[n + 1] = SEPARATOR /\ EndsInSep(d[n])
    <3>1. d[n + 1] = d[n] /\ c[n + 1] = c[n]
      BY Zenon, <2>3, <2>6
    <3>2. Len(d[n]) > 0
      BY <2>1, <2>4, <2>6 DEF EndsInSep
    <3>3. Len(d[n]) \in 0 .. n + 1
      BY <2>1
    <3>4. J(n + 1)
      BY <2>1, <2>2, <2>6, <3>1, <3>2, <3>3
    <3> QED
      BY Zenon, <2>2, <3>4
  <2>7. CASE p[n + 1] = SEPARATOR /\ ~ EndsInSep(d[n])
    <3>1. d[n + 1] = Append(d[n], SEPARATOR) /\ c[n + 1] = c[n]
      BY Zenon, <2>3, <2>7
    <3>2. Len(d[n]) % 2 = 0
      BY Zenon, <2>5, <2>7
    <3>3. Alternates(d[n + 1]) /\ Comps(d[n + 1]) = Comps(d[n])
      BY Zenon, <2>1, <3>1, <3>2, AppendSeparator
    <3>4. Len(d[n + 1]) = Len(d[n]) + 1 /\ EndsInSep(d[n + 1])
      BY <2>4, <2>7, <3>1 DEF EndsInSep
    <3>5. Len(d[n]) + 1 \in 0 .. n + 1 /\ Len(d[n]) + 1 > 0
      BY <2>1
    <3>6. J(n + 1)
      BY <2>1, <2>2, <2>7, <3>1, <3>3, <3>4, <3>5
    <3> QED
      BY Zenon, <2>2, <3>6
  <2>8. CASE p[n + 1] # SEPARATOR
    <3>1. d[n + 1] = Append(d[n], p[n + 1]) /\ c[n + 1] = Append(c[n], p[n + 1])
      BY Zenon, <2>3, <2>8
    <3>2. n # 0
      BY <1>1, <2>8
    <3>3. p[n] = SEPARATOR
      <4>1. n \in 1 .. Len(p) - 1
        BY <1>1, <1>7, <3>2
      <4> QED
        BY Zenon, <2>8, <4>1 DEF IsPath
    <3>4. Len(d[n]) % 2 = 1
      <4>1. n > 0
        BY <2>1, <3>2
      <4>2. EndsInSep(d[n])
        BY Zenon, <2>1, <3>3, <4>1
      <4> QED
        BY Zenon, <2>5, <4>2
    <3>5. p[n + 1] \in Names
      BY Zenon, <2>4, <2>8 DEF Tokens
    <3>6. Alternates(d[n + 1]) /\ Comps(d[n + 1]) = Append(Comps(d[n]), p[n + 1])
      BY Zenon, <2>1, <3>1, <3>4, <3>5, AppendName
    <3>7. Len(d[n + 1]) = Len(d[n]) + 1
      BY <2>4, <3>1
    <3>8. Len(d[n]) + 1 \in 0 .. n + 1 /\ Len(d[n]) + 1 > 0
      BY <2>1
    <3>9. ~ EndsInSep(d[n + 1])
      BY <2>4, <2>8, <3>1 DEF EndsInSep
    <3>10. J(n + 1)
      BY <2>1, <2>2, <2>8, <3>1, <3>6, <3>7, <3>8, <3>9
    <3> QED
      BY Zenon, <2>2, <3>10
  <2> QED
    BY Zenon, <2>6, <2>7, <2>8
<1>8. \A n \in 0 .. Len(p) : n \in S
  <2> HIDE DEF S
  <2> QED
    BY Zenon, <1>1, <1>6, <1>7, Induction
<1>9. J(Len(p)) /\ Len(p) > 0
  BY <1>1, <1>8
<1> QED
  <2>1. EndsInSep(p) <=> p[Len(p)] = SEPARATOR
    BY <1>1 DEF EndsInSep
  <2> QED
    BY <1>1, <1>2, <1>3, <1>9, <2>1

(* The components of a path that alternates are its even tokens. *)
LEMMA ComponentsOfAlternating ==
  ASSUME NEW p, Alternates(p)
  PROVE  Walk!Components(p) = Comps(p)
<1>1. p \in Seq(Tokens) /\ Len(p) \in Nat
  BY DEF Alternates
<1>2. PICK c : IsComponents(p, c) /\ Walk!Components(p) = c[Len(p)]
  BY Zenon, <1>1, ComponentsDef
<1>3. ASSUME NEW i \in 1 .. Len(p)
      PROVE  c[i] = IF p[i] = SEPARATOR THEN c[i - 1] ELSE Append(c[i - 1], p[i])
  <2>1. i \in 0 .. Len(p) /\ i # 0
    BY <1>1
  <2> QED
    BY Zenon, <1>2, <2>1 DEF IsComponents
<1> DEFINE S == {i \in 0 .. Len(p) : c[i] = Comps(SubSeq(p, 1, i))}
<1>4. 0 \in S
  <2>1. c[0] = <<>>
    BY <1>1, <1>2 DEF IsComponents
  <2>2. Len(SubSeq(p, 1, 0)) = 0
    BY <1>1
  <2>3. Comps(SubSeq(p, 1, 0)) = <<>>
    BY <2>2 DEF Comps, Passed
  <2> QED
    BY <1>1, <2>1, <2>3
<1>5. ASSUME NEW n \in S, n \in 0 .. Len(p) - 1 PROVE n + 1 \in S
  <2> DEFINE s == SubSeq(p, 1, n)
             x == p[n + 1]
  <2>1. n \in Nat /\ n + 1 \in 1 .. Len(p) /\ n + 1 \in 0 .. Len(p) /\ (n + 1) - 1 = n
    BY <1>1, <1>5
  <2>2. c[n] = Comps(s) /\ c[n + 1] = IF x = SEPARATOR THEN c[n] ELSE Append(c[n], x)
    BY Zenon, <1>3, <2>1
  <2>3. SubSeq(p, 1, n + 1) = Append(s, x)
    BY <1>1, <2>1
  <2>4. s \in Seq(Tokens) /\ Len(s) = n /\ (\A i \in 1 .. n : s[i] = p[i]) /\ x \in Tokens
    BY <1>1, <2>1
  <2>5. Alternates(s)
    BY <2>1, <2>4 DEF Alternates
  <2>6. x = SEPARATOR <=> (n + 1) % 2 = 1
    BY Zenon, <2>1 DEF Alternates
  <2> HIDE DEF s, x
  <2>7. CASE x = SEPARATOR
    <3>1. Len(s) % 2 = 0
      BY <2>1, <2>4, <2>6, <2>7
    <3>2. Comps(Append(s, x)) = Comps(s)
      BY Zenon, <2>5, <2>7, <3>1, AppendSeparator
    <3> QED
      BY Zenon, <2>1, <2>2, <2>3, <2>7, <3>2
  <2>8. CASE x # SEPARATOR
    <3>1. Len(s) % 2 = 1 /\ x \in Names
      BY <2>1, <2>4, <2>6, <2>8 DEF Tokens
    <3>2. Comps(Append(s, x)) = Append(Comps(s), x)
      BY Zenon, <2>5, <3>1, AppendName
    <3> QED
      BY Zenon, <2>1, <2>2, <2>3, <2>8, <3>2
  <2> QED
    BY Zenon, <2>7, <2>8
<1>6. \A n \in 0 .. Len(p) : n \in S
  <2> HIDE DEF S
  <2> QED
    BY Zenon, <1>1, <1>4, <1>5, Induction
<1>7. SubSeq(p, 1, Len(p)) = p
  BY <1>1
<1>8. c[Len(p)] = Comps(SubSeq(p, 1, Len(p)))
  BY <1>1, <1>6
<1> QED
  BY Zenon, <1>2, <1>7, <1>8

LEMMA ComponentsType ==
  ASSUME NEW p \in Seq(Tokens)
  PROVE  Walk!Components(p) \in Seq(Tokens)
<1>1. Len(p) \in Nat
  OBVIOUS
<1>2. PICK c : IsComponents(p, c) /\ Walk!Components(p) = c[Len(p)]
  BY Zenon, ComponentsDef
<1> DEFINE S == {i \in 0 .. Len(p) : c[i] \in Seq(Tokens)}
<1>3. 0 \in S
  BY <1>1, <1>2 DEF IsComponents
<1>4. ASSUME NEW n \in S, n \in 0 .. Len(p) - 1 PROVE n + 1 \in S
  <2>1. n + 1 \in 0 .. Len(p) /\ n + 1 # 0 /\ (n + 1) - 1 = n /\ p[n + 1] \in Tokens
    BY <1>1, <1>4
  <2>2. c[n + 1] = IF p[n + 1] = SEPARATOR THEN c[n] ELSE Append(c[n], p[n + 1])
    BY Zenon, <1>2, <2>1 DEF IsComponents
  <2>3. c[n] \in Seq(Tokens)
    BY Zenon
  <2>4. c[n + 1] \in Seq(Tokens)
    BY <2>1, <2>2, <2>3
  <2> QED
    BY Zenon, <2>1, <2>4
<1>5. \A n \in 0 .. Len(p) : n \in S
  <2> HIDE DEF S
  <2> QED
    BY Zenon, <1>1, <1>3, <1>4, Induction
<1> QED
  BY <1>1, <1>2, <1>5

LEMMA AppendOfConcat ==
  ASSUME NEW x \in Seq(Tokens), NEW y \in Seq(Tokens), NEW z \in Tokens
  PROVE  Append(x \o y, z) = x \o Append(y, z)
<1> DEFINE a == Append(x \o y, z)
           b == x \o Append(y, z)
<1>1. a \in Seq(Tokens) /\ b \in Seq(Tokens) /\ Len(a) = Len(b) /\ Len(a) \in Nat
  OBVIOUS
<1>2. ASSUME NEW i \in 1 .. Len(a) PROVE a[i] = b[i]
  OBVIOUS
<1> HIDE DEF a, b
<1>3. a = b
  BY <1>1, <1>2
<1> QED
  BY Zenon, <1>3 DEF a, b

(* The components of two paths after one another *)
LEMMA ComponentsOfConcat ==
  ASSUME NEW a \in Seq(Tokens), NEW b \in Seq(Tokens)
  PROVE  Walk!Components(a \o b) = Walk!Components(a) \o Walk!Components(b)
<1> DEFINE p == a \o b
<1>1. /\ p \in Seq(Tokens) /\ Len(a) \in Nat /\ Len(b) \in Nat /\ Len(p) = Len(a) + Len(b)
      /\ \A i \in 1 .. Len(a) : p[i] = a[i]
      /\ \A i \in 1 .. Len(b) : p[Len(a) + i] = b[i]
  OBVIOUS
<1> HIDE DEF p
<1>2. PICK c : IsComponents(p, c) /\ Walk!Components(p) = c[Len(p)]
  BY Zenon, <1>1, ComponentsDef
<1>3. PICK e : IsComponents(a, e) /\ Walk!Components(a) = e[Len(a)]
  BY Zenon, ComponentsDef
<1>4. PICK f : IsComponents(b, f) /\ Walk!Components(b) = f[Len(b)]
  BY Zenon, ComponentsDef
<1>5. c[0] = <<>> /\ e[0] = <<>> /\ f[0] = <<>>
  BY <1>1, <1>2, <1>3, <1>4 DEF IsComponents
<1>6. ASSUME NEW i \in 1 .. Len(p)
      PROVE  c[i] = IF p[i] = SEPARATOR THEN c[i - 1] ELSE Append(c[i - 1], p[i])
  <2>1. i \in 0 .. Len(p) /\ i # 0
    BY <1>1
  <2> QED
    BY Zenon, <1>2, <2>1 DEF IsComponents
<1>7. \A n \in 0 .. Len(a) : c[n] = e[n]
  <2> DEFINE S == {n \in 0 .. Len(a) : c[n] = e[n]}
  <2>1. 0 \in S
    BY <1>1, <1>5
  <2>2. ASSUME NEW n \in S, n \in 0 .. Len(a) - 1 PROVE n + 1 \in S
    <3>1. /\ n + 1 \in 0 .. Len(a) /\ n + 1 # 0 /\ (n + 1) - 1 = n
          /\ n + 1 \in 1 .. Len(p) /\ n + 1 \in 1 .. Len(a)
      BY <1>1, <2>2
    <3>2. e[n + 1] = IF a[n + 1] = SEPARATOR THEN e[n] ELSE Append(e[n], a[n + 1])
      BY Zenon, <1>3, <3>1 DEF IsComponents
    <3>3. c[n + 1] = IF p[n + 1] = SEPARATOR THEN c[n] ELSE Append(c[n], p[n + 1])
      BY Zenon, <1>6, <3>1
    <3>4. c[n] = e[n] /\ p[n + 1] = a[n + 1]
      BY Zenon, <1>1, <3>1
    <3> QED
      BY Zenon, <3>1, <3>2, <3>3, <3>4
  <2>3. \A n \in 0 .. Len(a) : n \in S
    <3> HIDE DEF S
    <3> QED
      BY Zenon, <1>1, <2>1, <2>2, Induction
  <2> QED
    BY Zenon, <2>3
<1>8. e[Len(a)] \in Seq(Tokens)
  BY Zenon, <1>3, ComponentsType
<1>9. \A n \in 0 .. Len(b) : f[n] \in Seq(Tokens) /\ c[Len(a) + n] = e[Len(a)] \o f[n]
  <2> DEFINE S == {n \in 0 .. Len(b) :
                      f[n] \in Seq(Tokens) /\ c[Len(a) + n] = e[Len(a)] \o f[n]}
  <2>1. 0 \in S
    <3>1. Len(a) + 0 = Len(a) /\ Len(a) \in 0 .. Len(a) /\ 0 \in 0 .. Len(b)
      BY <1>1
    <3>2. e[Len(a)] \o <<>> = e[Len(a)]
      BY <1>8
    <3>3. c[Len(a)] = e[Len(a)]
      BY Zenon, <1>7, <3>1
    <3>4. f[0] \in Seq(Tokens) /\ c[Len(a) + 0] = e[Len(a)] \o f[0]
      BY <1>5, <3>1, <3>2, <3>3
    <3> QED
      BY Zenon, <3>1, <3>4
  <2>2. ASSUME NEW n \in S, n \in 0 .. Len(b) - 1 PROVE n + 1 \in S
    <3> DEFINE k == Len(a) + (n + 1)
    <3>1. /\ n + 1 \in 0 .. Len(b) /\ n + 1 # 0 /\ (n + 1) - 1 = n
          /\ k \in 1 .. Len(p) /\ k - 1 = Len(a) + n /\ n + 1 \in 1 .. Len(b)
      <4>1. n \in 0 .. Len(b) - 1 /\ Len(a) \in Nat /\ Len(b) \in Nat
            /\ Len(p) = Len(a) + Len(b)
        BY Zenon, <1>1, <2>2
      <4> HIDE DEF S
      <4> QED
        BY SMTT(40), <4>1
    <3>2. f[n + 1] = IF b[n + 1] = SEPARATOR THEN f[n] ELSE Append(f[n], b[n + 1])
      BY Zenon, <1>4, <3>1 DEF IsComponents
    <3>3. p[k] = b[n + 1] /\ b[n + 1] \in Tokens
      BY <1>1, <3>1
    <3>4. c[k] = IF b[n + 1] = SEPARATOR THEN c[Len(a) + n] ELSE Append(c[Len(a) + n], b[n + 1])
      <4> HIDE DEF k
      <4> QED
        BY Zenon, <1>6, <3>1, <3>3
    <3>5. f[n] \in Seq(Tokens) /\ c[Len(a) + n] = e[Len(a)] \o f[n]
      BY Zenon
    <3>6. Append(e[Len(a)] \o f[n], b[n + 1]) = e[Len(a)] \o Append(f[n], b[n + 1])
      <4> DEFINE x == e[Len(a)]
                 y == f[n]
                 z == b[n + 1]
      <4>1. x \in Seq(Tokens) /\ y \in Seq(Tokens) /\ z \in Tokens
        BY Zenon, <1>8, <3>3, <3>5
      <4> HIDE DEF x, y, z, S, k
      <4>2. Append(x \o y, z) = x \o Append(y, z)
        BY Zenon, <4>1, AppendOfConcat
      <4> QED
        BY Zenon, <4>2 DEF x, y, z
    <3>7. f[n + 1] \in Seq(Tokens)
      BY <3>2, <3>3, <3>5
    <3>8. c[k] = e[Len(a)] \o f[n + 1]
      BY Zenon, <3>2, <3>4, <3>5, <3>6
    <3> QED
      BY Zenon, <3>1, <3>7, <3>8
  <2>3. \A n \in 0 .. Len(b) : n \in S
    <3> HIDE DEF S
    <3> QED
      BY Zenon, <1>1, <2>1, <2>2, Induction
  <2> QED
    BY Zenon, <2>3
<1>10. c[Len(p)] = e[Len(a)] \o f[Len(b)]
  <2>1. Len(b) \in 0 .. Len(b) /\ Len(a) + Len(b) = Len(p)
    BY <1>1
  <2>2. c[Len(a) + Len(b)] = e[Len(a)] \o f[Len(b)]
    BY Zenon, <1>9, <2>1
  <2> QED
    BY Zenon, <2>1, <2>2
<1> QED
  BY Zenon, <1>2, <1>3, <1>4, <1>10 DEF p

(* A relative path has a component. *)
LEMMA RelativeHasComponent ==
  ASSUME NEW p \in Seq(Tokens), p # <<>>, ~ is_absolute(p)
  PROVE  Len(Walk!Components(p)) > 0
<1>1. Len(p) \in Nat \ {0} /\ p[1] # SEPARATOR /\ p[1] \in Tokens
  BY DEF is_absolute
<1>2. PICK c : IsComponents(p, c) /\ Walk!Components(p) = c[Len(p)]
  BY Zenon, ComponentsDef
<1>3. ASSUME NEW i \in 1 .. Len(p)
      PROVE  c[i] = IF p[i] = SEPARATOR THEN c[i - 1] ELSE Append(c[i - 1], p[i])
  <2>1. i \in 0 .. Len(p) /\ i # 0
    BY <1>1
  <2> QED
    BY Zenon, <1>2, <2>1 DEF IsComponents
<1> DEFINE S == {n \in 0 .. Len(p) : c[n] \in Seq(Tokens) /\ (n > 0 => Len(c[n]) > 0)}
<1>4. 0 \in S
  BY <1>1, <1>2 DEF IsComponents
<1>5. ASSUME NEW n \in S, n \in 0 .. Len(p) - 1 PROVE n + 1 \in S
  <2>1. /\ n \in Nat /\ n + 1 \in 1 .. Len(p) /\ n + 1 \in 0 .. Len(p) /\ (n + 1) - 1 = n
        /\ p[n + 1] \in Tokens
    BY <1>1, <1>5
  <2>2. c[n + 1] = IF p[n + 1] = SEPARATOR THEN c[n] ELSE Append(c[n], p[n + 1])
    BY Zenon, <1>3, <2>1
  <2>3. c[n] \in Seq(Tokens) /\ (n > 0 => Len(c[n]) > 0)
    BY Zenon
  <2>4. CASE p[n + 1] = SEPARATOR
    <3>1. n > 0
      BY <1>1, <2>1, <2>4
    <3> QED
      BY Zenon, <2>1, <2>2, <2>3, <2>4, <3>1
  <2>5. CASE p[n + 1] # SEPARATOR
    <3>1. c[n + 1] \in Seq(Tokens) /\ Len(c[n + 1]) = Len(c[n]) + 1 /\ Len(c[n]) \in Nat
      BY <2>1, <2>2, <2>3, <2>5
    <3> QED
      BY <2>1, <3>1
  <2> QED
    BY Zenon, <2>4, <2>5
<1>6. \A n \in 0 .. Len(p) : n \in S
  <2> HIDE DEF S
  <2> QED
    BY Zenon, <1>1, <1>4, <1>5, Induction
<1>7. Len(c[Len(p)]) > 0
  BY <1>1, <1>6
<1> QED
  BY Zenon, <1>2, <1>7

(* The components and the end determine a path that alternates. *)
LEMMA AlternatingEqual ==
  ASSUME NEW p, NEW q, Alternates(p), Alternates(q), Comps(p) = Comps(q),
         EndsInSep(p) <=> EndsInSep(q)
  PROVE  p = q
<1>1. p \in Seq(Tokens) /\ q \in Seq(Tokens) /\ Len(p) \in Nat /\ Len(q) \in Nat
  BY DEF Alternates
<1>2. Len(p) \div 2 = Len(q) \div 2 /\ \A k \in 1 .. Len(p) \div 2 : p[2 * k] = q[2 * k]
  <2>1. Len(Comps(p)) = Len(p) \div 2 /\ \A k \in 1 .. Len(p) \div 2 : Comps(p)[k] = p[2 * k]
    BY Zenon, <1>1, CompsFacts
  <2>2. Len(Comps(q)) = Len(q) \div 2 /\ \A k \in 1 .. Len(q) \div 2 : Comps(q)[k] = q[2 * k]
    BY Zenon, <1>1, CompsFacts
  <2>3. Len(p) \div 2 = Len(q) \div 2
    BY Zenon, <2>1, <2>2
  <2>4. ASSUME NEW k \in 1 .. Len(p) \div 2 PROVE p[2 * k] = q[2 * k]
    <3>1. k \in 1 .. Len(q) \div 2
      BY Zenon, <2>3
    <3>2. Comps(p)[k] = p[2 * k] /\ Comps(q)[k] = q[2 * k]
      BY Zenon, <2>1, <2>2, <3>1
    <3> QED
      BY Zenon, <3>2
  <2> QED
    BY Zenon, <2>3, <2>4
<1>3. Len(p) % 2 = 1 <=> Len(q) % 2 = 1
  BY Zenon, EndOfAlternating
<1>4. Len(p) = Len(q)
  BY <1>1, <1>2, <1>3
<1>5. ASSUME NEW i \in 1 .. Len(p) PROVE p[i] = q[i]
  <2>1. CASE i % 2 = 1
    BY Zenon, <1>4, <2>1 DEF Alternates
  <2>2. CASE i % 2 # 1
    <3>1. i \div 2 \in 1 .. Len(p) \div 2 /\ 2 * (i \div 2) = i
      BY <1>1, <2>2
    <3> QED
      BY Zenon, <1>2, <3>1
  <2> QED
    BY Zenon, <2>1, <2>2
<1> QED
  BY <1>1, <1>4, <1>5

-----------------------------------------------------------------------------
(* The components before and after an index *)
LEMMA PassedFacts ==
  ASSUME NEW p \in Seq(Tokens), NEW i \in 0 .. Len(p)
  PROVE  /\ Passed(p, i) \in Seq(Tokens)
         /\ Len(Passed(p, i)) = i \div 2
         /\ \A k \in 1 .. i \div 2 : Passed(p, i)[k] = p[2 * k]
<1> DEFINE n == i \div 2
           c == Passed(p, i)
<1>1. n \in Nat /\ \A k \in 1 .. n : 2 * k \in 1 .. Len(p)
  OBVIOUS
<1>2. c \in [1 .. n -> Tokens] /\ \A k \in 1 .. n : c[k] = p[2 * k]
  BY <1>1 DEF Passed
<1> HIDE DEF n, c
<1>3. c \in Seq(Tokens) /\ Len(c) = n
  BY <1>1, <1>2
<1> QED
  BY Zenon, <1>2, <1>3 DEF n, c

LEMMA AheadFacts ==
  ASSUME NEW p \in Seq(Tokens), NEW i \in 0 .. Len(p)
  PROVE  /\ Ahead(p, i) \in Seq(Tokens)
         /\ Len(Ahead(p, i)) = Len(p) \div 2 - i \div 2
         /\ \A k \in 1 .. Len(p) \div 2 - i \div 2 :
               Ahead(p, i)[k] = p[2 * (i \div 2 + k)]
<1> DEFINE n == Len(p) \div 2 - i \div 2
           c == Ahead(p, i)
<1>1. n \in Nat /\ \A k \in 1 .. n : 2 * (i \div 2 + k) \in 1 .. Len(p)
  OBVIOUS
<1>2. c \in [1 .. n -> Tokens] /\ \A k \in 1 .. n : c[k] = p[2 * (i \div 2 + k)]
  BY <1>1 DEF Ahead
<1> HIDE DEF n, c
<1>3. c \in Seq(Tokens) /\ Len(c) = n
  BY <1>1, <1>2
<1> QED
  BY Zenon, <1>2, <1>3 DEF n, c

(* What is before and after index is known from all the components. *)
LEMMA SplitComps ==
  ASSUME NEW p \in Seq(Tokens), NEW i \in 0 .. Len(p),
         NEW x \in Seq(Tokens), NEW y \in Seq(Tokens),
         Comps(p) = x \o y, Len(x) = i \div 2
  PROVE  Passed(p, i) = x /\ Ahead(p, i) = y
<1> DEFINE m == i \div 2
           n == Len(p) \div 2
<1>1. m \in Nat /\ n \in Nat /\ m <= n
  OBVIOUS
<1>2. /\ Len(Comps(p)) = n
      /\ \A k \in 1 .. n : Comps(p)[k] = p[2 * k]
  BY Zenon, CompsFacts
<1>3. /\ Passed(p, i) \in Seq(Tokens) /\ Len(Passed(p, i)) = m
      /\ \A k \in 1 .. m : Passed(p, i)[k] = p[2 * k]
  BY Zenon, PassedFacts
<1>4. /\ Ahead(p, i) \in Seq(Tokens) /\ Len(Ahead(p, i)) = n - m
      /\ \A k \in 1 .. n - m : Ahead(p, i)[k] = p[2 * (m + k)]
  BY Zenon, AheadFacts
<1>5. /\ Len(x) = m /\ Len(y) \in Nat /\ Len(x \o y) = Len(x) + Len(y)
      /\ \A k \in 1 .. Len(x) : (x \o y)[k] = x[k]
      /\ \A k \in 1 .. Len(y) : (x \o y)[Len(x) + k] = y[k]
  BY Zenon, ConcatFacts
<1> HIDE DEF m, n
<1>6. Len(y) = n - m
  <2>1. n = m + Len(y)
    BY Zenon, <1>2, <1>5
  <2>2. m \in Int /\ n \in Int /\ Len(y) \in Int
    BY <1>1, <1>5
  <2> QED
    BY <2>1, <2>2
<1>7. ASSUME NEW k \in 1 .. m PROVE Passed(p, i)[k] = x[k]
  <2>1. k \in 1 .. n
    BY <1>1
  <2> QED
    BY Zenon, <1>2, <1>3, <1>5, <2>1
<1>8. ASSUME NEW k \in 1 .. n - m PROVE Ahead(p, i)[k] = y[k]
  <2>1. m + k \in 1 .. n
    BY <1>1
  <2>2. (x \o y)[m + k] = y[k]
    BY Zenon, <1>5, <1>6
  <2> QED
    BY Zenon, <1>2, <1>4, <2>1, <2>2
<1>9. Passed(p, i) = x
  BY Zenon, <1>3, <1>5, <1>7, EqualSequences
<1>10. Ahead(p, i) = y
  BY Zenon, <1>4, <1>6, <1>8, EqualSequences
<1> QED
  BY Zenon, <1>9, <1>10

(* The end of the component at index i, with the separator after it *)
EndWithSep(p, i) == IF i + 2 <= Len(p) THEN i + 2 ELSE i + 1

AtComponent(p, i) == Alternates(p) /\ i \in 1 .. Len(p) - 1 /\ i % 2 = 1

LEMMA StepFacts ==
  ASSUME NEW p, NEW i, AtComponent(p, i)
  PROVE  /\ p[i + 1] \in Names
         /\ EndWithSep(p, i) \in i + 1 .. Len(p)
         /\ EndWithSep(p, i) % 2 = 1 \/ EndWithSep(p, i) = Len(p)
         /\ EndWithSep(p, i) \div 2 = i \div 2 + 1
         /\ Ahead(p, i) \in Seq(Tokens) /\ Ahead(p, i) # <<>>
         /\ Head(Ahead(p, i)) = p[i + 1]
         /\ Tail(Ahead(p, i)) = Ahead(p, EndWithSep(p, i))
         /\ Ahead(p, EndWithSep(p, i)) = <<>> <=> EndWithSep(p, i) = Len(p)
         /\ Passed(p, EndWithSep(p, i)) = Append(Passed(p, i), p[i + 1])
<1> DEFINE c == EndWithSep(p, i)
<1>1. p \in Seq(Tokens) /\ Len(p) \in Nat /\ i \in 1 .. Len(p) - 1 /\ i % 2 = 1
  BY DEF AtComponent, Alternates
<1>2. /\ c \in i + 1 .. Len(p) /\ (c % 2 = 1 \/ c = Len(p)) /\ c \div 2 = i \div 2 + 1
      /\ c \in 0 .. Len(p) /\ i \in 0 .. Len(p)
      /\ (Len(p) \div 2 - (i \div 2 + 1) = 0 <=> c = Len(p))
  BY <1>1 DEF EndWithSep
<1>3. p[i + 1] \in Names
  <2>1. i + 1 \in 1 .. Len(p) /\ (i + 1) % 2 # 1
    BY <1>1
  <2> QED
    BY <1>1, <2>1 DEF Tokens, AtComponent, Alternates
<1> DEFINE m == i \div 2
           n == Len(p) \div 2
<1>4. m \in Nat /\ n \in Nat /\ m + 1 <= n /\ 2 * (m + 1) = i + 1
  BY <1>1
<1>5. /\ Ahead(p, i) \in Seq(Tokens) /\ Len(Ahead(p, i)) = n - m
      /\ \A k \in 1 .. n - m : Ahead(p, i)[k] = p[2 * (m + k)]
  BY Zenon, <1>1, <1>2, AheadFacts
<1>6. /\ Ahead(p, c) \in Seq(Tokens) /\ Len(Ahead(p, c)) = n - (m + 1)
      /\ \A k \in 1 .. n - (m + 1) : Ahead(p, c)[k] = p[2 * ((m + 1) + k)]
  <2>1. /\ Ahead(p, c) \in Seq(Tokens) /\ Len(Ahead(p, c)) = n - c \div 2
        /\ \A k \in 1 .. n - c \div 2 : Ahead(p, c)[k] = p[2 * (c \div 2 + k)]
    <3> HIDE DEF c
    <3> QED
      BY Zenon, <1>1, <1>2, AheadFacts
  <2>2. c \div 2 = m + 1
    BY Zenon, <1>2
  <2> HIDE DEF c, m, n
  <2> QED
    BY Zenon, <2>1, <2>2
<1>7. /\ Passed(p, i) \in Seq(Tokens) /\ Len(Passed(p, i)) = m
      /\ \A k \in 1 .. m : Passed(p, i)[k] = p[2 * k]
  BY Zenon, <1>1, <1>2, PassedFacts
<1>8. /\ Passed(p, c) \in Seq(Tokens) /\ Len(Passed(p, c)) = m + 1
      /\ \A k \in 1 .. m + 1 : Passed(p, c)[k] = p[2 * k]
  <2> HIDE DEF c
  <2> QED
    BY Zenon, <1>1, <1>2, PassedFacts
<1>9. Ahead(p, c) = <<>> <=> c = Len(p)
  <2>1. Ahead(p, c) = <<>> <=> Len(Ahead(p, c)) = 0
    BY <1>6
  <2>2. n - (m + 1) = 0 <=> c = Len(p)
    BY Zenon, <1>2
  <2> HIDE DEF c, m, n
  <2> QED
    BY Zenon, <1>6, <2>1, <2>2
<1> HIDE DEF c, m, n
<1>10. Ahead(p, i) # <<>> /\ Head(Ahead(p, i)) = p[i + 1]
  <2>1. Ahead(p, i)[1] = p[2 * (m + 1)] /\ Len(Ahead(p, i)) > 0
    BY <1>4, <1>5
  <2> QED
    BY <1>4, <1>5, <2>1
<1>11. Tail(Ahead(p, i)) = Ahead(p, c)
  <2> DEFINE a == Ahead(p, i)
             b == Ahead(p, c)
  <2>1. a \in Seq(Tokens) /\ b \in Seq(Tokens) /\ Len(a) = n - m /\ Len(b) = n - (m + 1)
    BY Zenon, <1>5, <1>6
  <2>2. ASSUME NEW k \in 1 .. n - (m + 1) PROVE b[k] = a[k + 1]
    <3>1. k + 1 \in 1 .. n - m /\ m + (k + 1) = (m + 1) + k
      BY <1>4
    <3> QED
      BY Zenon, <1>5, <1>6, <3>1
  <2> HIDE DEF a, b
  <2>3. Tail(a) \in Seq(Tokens) /\ Len(Tail(a)) = Len(b) /\ a # <<>>
    BY <1>4, <2>1
  <2>4. ASSUME NEW k \in 1 .. Len(b) PROVE Tail(a)[k] = b[k]
    BY <1>4, <2>1, <2>2, <2>3
  <2>5. Tail(a) = b
    BY <2>1, <2>3, <2>4
  <2> QED
    BY Zenon, <2>5 DEF a, b
<1>12. Passed(p, c) = Append(Passed(p, i), p[i + 1])
  <2> DEFINE a == Passed(p, i)
             b == Passed(p, c)
             x == p[i + 1]
  <2>1. /\ a \in Seq(Tokens) /\ b \in Seq(Tokens) /\ Len(a) = m /\ Len(b) = m + 1
        /\ x \in Tokens
    BY Zenon, <1>3, <1>7, <1>8 DEF Tokens
  <2>2. \A k \in 1 .. m : b[k] = a[k]
    BY <1>4, <1>7, <1>8
  <2>3. b[m + 1] = x
    BY <1>4, <1>8
  <2> HIDE DEF a, b, x
  <2>4. b = Append(a, x)
    BY <1>4, <2>1, <2>2, <2>3
  <2> QED
    BY Zenon, <2>4 DEF a, b, x
<1> QED
  BY Zenon, <1>2, <1>3, <1>5, <1>9, <1>10, <1>11, <1>12 DEF c, m

(* The part before the last component *)
LEMMA ParentFacts ==
  ASSUME NEW p \in Seq(Tokens), NEW i \in 1 .. Len(p), i % 2 = 1
  PROVE  /\ i = 1 => Passed(p, i) = <<>>
         /\ i # 1 => /\ i - 2 \in 1 .. Len(p) /\ (i - 2) % 2 = 1
                     /\ Passed(p, i) # <<>>
                     /\ Passed(p, i - 2)
                          = SubSeq(Passed(p, i), 1, Len(Passed(p, i)) - 1)
<1>1. i \in 0 .. Len(p) /\ i \in Nat /\ Len(p) \in Nat
  OBVIOUS
<1>2. /\ Passed(p, i) \in Seq(Tokens) /\ Len(Passed(p, i)) = i \div 2
      /\ \A k \in 1 .. i \div 2 : Passed(p, i)[k] = p[2 * k]
  BY Zenon, <1>1, PassedFacts
<1>3. ASSUME i = 1 PROVE Passed(p, i) = <<>>
  BY <1>2, <1>3
<1>4. ASSUME i # 1
      PROVE  /\ i - 2 \in 1 .. Len(p) /\ (i - 2) % 2 = 1
             /\ Passed(p, i) # <<>>
             /\ Passed(p, i - 2) = SubSeq(Passed(p, i), 1, Len(Passed(p, i)) - 1)
  <2> DEFINE m == i \div 2
             j == i - 2
             a == Passed(p, i)
             b == Passed(p, j)
  <2>1. j \in 1 .. Len(p) /\ j % 2 = 1 /\ j \in 0 .. Len(p) /\ j \div 2 = m - 1 /\ m \in Nat /\ m > 0
    BY <1>1, <1>4
  <2>2. /\ b \in Seq(Tokens) /\ Len(b) = j \div 2
        /\ \A k \in 1 .. j \div 2 : b[k] = p[2 * k]
    <3> HIDE DEF j
    <3> QED
      BY Zenon, <2>1, PassedFacts
  <2>3. a \in Seq(Tokens) /\ Len(a) = m /\ \A k \in 1 .. m : a[k] = p[2 * k]
    BY Zenon, <1>2
  <2> HIDE DEF a, b, m, j
  <2>4. Len(b) = m - 1 /\ \A k \in 1 .. m - 1 : b[k] = a[k]
    <3>1. Len(b) = m - 1 /\ \A k \in 1 .. m - 1 : b[k] = p[2 * k]
      BY Zenon, <2>1, <2>2
    <3>2. \A k \in 1 .. m - 1 : k \in 1 .. m
      BY <2>1
    <3> QED
      BY Zenon, <2>3, <3>1, <3>2
  <2>5. /\ SubSeq(a, 1, m - 1) \in Seq(Tokens) /\ Len(SubSeq(a, 1, m - 1)) = m - 1
        /\ \A k \in 1 .. m - 1 : SubSeq(a, 1, m - 1)[k] = a[k]
    BY <2>1, <2>3
  <2>6. b = SubSeq(a, 1, m - 1)
    BY Zenon, <2>2, <2>4, <2>5, EqualSequences
  <2>7. a # <<>>
    BY <2>1, <2>3
  <2> QED
    BY Zenon, <2>1, <2>3, <2>6, <2>7 DEF a, b, j
<1> QED
  BY Zenon, <1>3, <1>4

LEMMA SubSeqFacts ==
  ASSUME NEW p \in Seq(Tokens), NEW a \in 0 .. Len(p), NEW b \in 0 .. Len(p)
  PROVE  /\ SubSeq(p, 1, a) \in Seq(Tokens) /\ Len(SubSeq(p, 1, a)) = a
         /\ \A k \in 1 .. a : SubSeq(p, 1, a)[k] = p[k]
         /\ SubSeq(p, b + 1, Len(p)) \in Seq(Tokens)
         /\ Len(SubSeq(p, b + 1, Len(p))) = Len(p) - b
         /\ \A k \in 1 .. Len(p) - b : SubSeq(p, b + 1, Len(p))[k] = p[b + k]
<1>1. Len(p) \in Nat /\ a \in Nat /\ b \in Nat
  OBVIOUS
<1>2. /\ SubSeq(p, 1, a) \in Seq(Tokens) /\ Len(SubSeq(p, 1, a)) = a
      /\ \A k \in 1 .. a : SubSeq(p, 1, a)[k] = p[k]
  OBVIOUS
<1>3. SubSeq(p, b + 1, Len(p)) \in Seq(Tokens) /\ Len(SubSeq(p, b + 1, Len(p))) = Len(p) - b
  OBVIOUS
<1>4. ASSUME NEW k \in 1 .. Len(p) - b PROVE SubSeq(p, b + 1, Len(p))[k] = p[b + k]
  <2>1. (b + 1) + k - 1 = b + k
    OBVIOUS
  <2> QED
    BY <1>3, <2>1
<1> QED
  BY Zenon, <1>2, <1>3, <1>4

(* Components are taken out of the path: those from index a, which begins  *)
(* one, up to index b.                                                     *)
Cut(p, a, b) == SubSeq(p, 1, a) \o <<>> \o SubSeq(p, b + 1, Len(p))

LEMMA CutFacts ==
  ASSUME NEW p, Alternates(p), NEW a \in 1 .. Len(p), a % 2 = 1,
         NEW b \in a .. Len(p), b % 2 = 1 \/ b = Len(p)
  PROVE  /\ Alternates(Cut(p, a, b))
         /\ Len(Cut(p, a, b)) \in a .. Len(p)
         /\ Passed(Cut(p, a, b), a) = Passed(p, a)
         /\ Ahead(Cut(p, a, b), a) = Ahead(p, b)
         /\ EndsInSep(Cut(p, a, b)) <=> (EndsInSep(p) \/ b = Len(p))
<1> DEFINE x == SubSeq(p, 1, a)
           y == SubSeq(p, b + 1, Len(p))
           q == Cut(p, a, b)
           n == Len(p)
<1>1. p \in Seq(Tokens) /\ n \in Nat /\ a \in Nat /\ b \in Nat /\ a \in 0 .. n /\ b \in 0 .. n
  BY DEF Alternates
<1>2. /\ x \in Seq(Tokens) /\ Len(x) = a /\ \A k \in 1 .. a : x[k] = p[k]
      /\ y \in Seq(Tokens) /\ Len(y) = n - b /\ \A k \in 1 .. n - b : y[k] = p[b + k]
  BY Zenon, <1>1, SubSeqFacts
<1>3. q = x \o y
  <2>1. x \o <<>> = x
    BY <1>2
  <2> QED
    BY Zenon, <2>1 DEF Cut
<1> HIDE DEF x, y, q
<1>4. /\ q \in Seq(Tokens) /\ Len(q) = a + (n - b)
      /\ \A k \in 1 .. a : q[k] = p[k]
      /\ \A k \in 1 .. n - b : q[a + k] = p[b + k]
  <2>1. /\ q \in Seq(Tokens) /\ Len(q) = Len(x) + Len(y)
        /\ \A k \in 1 .. Len(x) : q[k] = x[k]
        /\ \A k \in 1 .. Len(y) : q[Len(x) + k] = y[k]
    BY Zenon, <1>2, <1>3, ConcatFacts
  <2> HIDE DEF n
  <2>2. \A k \in 1 .. a : q[k] = p[k]
    BY Zenon, <1>2, <2>1
  <2>3. \A k \in 1 .. n - b : q[a + k] = p[b + k]
    BY Zenon, <1>2, <2>1
  <2> QED
    BY Zenon, <1>2, <2>1, <2>2, <2>3
<1>5. Len(q) \in a .. n
  <2> HIDE DEF n
  <2> QED
    BY <1>1, <1>4
<1>6. Alternates(q)
  <2> SUFFICES ASSUME NEW i \in 1 .. Len(q) PROVE q[i] = SEPARATOR <=> i % 2 = 1
    BY Zenon, <1>4 DEF Alternates
  <2>1. CASE i <= a
    <3>1. i \in 1 .. a /\ i \in 1 .. Len(p)
      BY <1>1, <2>1
    <3> QED
      BY Zenon, <1>4, <3>1 DEF Alternates
  <2>2. CASE i > a
    <3> DEFINE k == i - a
    <3>1. k \in 1 .. n - b /\ a + k = i /\ b + k \in 1 .. n
      <4> HIDE DEF n
      <4> QED
        BY <1>1, <1>4, <2>2
    <3>2. i % 2 = 1 <=> (b + k) % 2 = 1
      <4>1. b % 2 = 1
        BY <1>1, <3>1
      <4>2. i \in Nat
        OBVIOUS
      <4> QED
        BY <1>1, <4>1, <4>2
    <3>3. q[i] = p[b + k]
      BY Zenon, <1>4, <3>1
    <3> QED
      BY Zenon, <3>1, <3>2, <3>3 DEF Alternates
  <2> QED
    BY <1>1, <2>1, <2>2
<1>7. Passed(q, a) = Passed(p, a)
  <2>1. \A k \in 1 .. a \div 2 : 2 * k \in 1 .. a
    BY <1>1
  <2> QED
    BY Zenon, <1>4, <2>1 DEF Passed
<1>8. /\ Len(q) \div 2 - a \div 2 = n \div 2 - b \div 2
      /\ Len(q) % 2 = 1 <=> (n % 2 = 1 \/ b = n)
  <2>1. Len(q) = a + (n - b)
    BY Zenon, <1>4
  <2> HIDE DEF n
  <2>2. n \in Nat /\ a \in Nat /\ b \in Nat /\ a % 2 = 1 /\ (b % 2 = 1 \/ b = n) /\ b <= n
    BY <1>1 DEF n
  <2>3. CASE b % 2 = 1
    BY <2>1, <2>2, <2>3
  <2>4. CASE b = n
    BY <2>1, <2>2, <2>4
  <2> QED
    BY Zenon, <2>2, <2>3, <2>4
<1>9. Ahead(q, a) = Ahead(p, b)
  <2> DEFINE m == n \div 2 - b \div 2
  <2>1. /\ Ahead(q, a) \in Seq(Tokens) /\ Len(Ahead(q, a)) = m
        /\ \A k \in 1 .. m : Ahead(q, a)[k] = q[2 * (a \div 2 + k)]
    <3>1. a \in 0 .. Len(q)
      BY <1>1, <1>5
    <3> QED
      BY Zenon, <1>4, <1>8, <3>1, AheadFacts
  <2>2. /\ Ahead(p, b) \in Seq(Tokens) /\ Len(Ahead(p, b)) = m
        /\ \A k \in 1 .. m : Ahead(p, b)[k] = p[2 * (b \div 2 + k)]
    BY Zenon, <1>1, AheadFacts
  <2>3. ASSUME NEW k \in 1 .. m PROVE Ahead(q, a)[k] = Ahead(p, b)[k]
    <3> DEFINE j == 2 * (b \div 2 + k) - b
    <3>1. 2 * (b \div 2 + k) = b + j /\ 2 * (a \div 2 + k) = a + j /\ j \in 1 .. n - b
      <4> HIDE DEF n
      <4>1. n \in Nat /\ a \in Nat /\ b \in Nat /\ a % 2 = 1 /\ (b % 2 = 1 \/ b = n) /\ b <= n
        BY <1>1 DEF n
      <4>2. k \in Nat /\ k >= 1 /\ k <= n \div 2 - b \div 2
        BY <4>1
      <4>3. b % 2 = 1
        BY <4>1, <4>2
      <4> QED
        BY <4>1, <4>2, <4>3
    <3> HIDE DEF j, m, n
    <3> QED
      BY Zenon, <1>4, <2>1, <2>2, <3>1
  <2> HIDE DEF m
  <2> QED
    BY Zenon, <2>1, <2>2, <2>3, EqualSequences
<1>10. EndsInSep(q) <=> (EndsInSep(p) \/ b = Len(p))
  BY Zenon, <1>6, <1>8, EndOfAlternating
<1> QED
  BY Zenon, <1>5, <1>6, <1>7, <1>9, <1>10 DEF q

LEMMA EndsOfConcat ==
  ASSUME NEW u \in Seq(Tokens), NEW v \in Seq(Tokens)
  PROVE  /\ EndsInSep(u \o v) <=> IF v = <<>> THEN EndsInSep(u) ELSE EndsInSep(v)
         /\ is_absolute(u \o v) <=> IF u = <<>> THEN is_absolute(v) ELSE is_absolute(u)
<1> DEFINE w == u \o v
<1>1. /\ w \in Seq(Tokens) /\ Len(u) \in Nat /\ Len(v) \in Nat /\ Len(w) = Len(u) + Len(v)
      /\ \A k \in 1 .. Len(u) : w[k] = u[k]
      /\ \A k \in 1 .. Len(v) : w[Len(u) + k] = v[k]
  BY Zenon, ConcatFacts
<1>2. (u = <<>> <=> Len(u) = 0) /\ (v = <<>> <=> Len(v) = 0)
  OBVIOUS
<1>3. (v = <<>> => w = u) /\ (u = <<>> => w = v)
  OBVIOUS
<1> HIDE DEF w
<1>4. w = <<>> <=> Len(w) = 0
  BY <1>1
<1>5. EndsInSep(w) <=> IF v = <<>> THEN EndsInSep(u) ELSE EndsInSep(v)
  <2>1. CASE v = <<>>
    BY Zenon, <1>3, <2>1
  <2>2. CASE v # <<>>
    <3>1. Len(w) # 0 /\ w[Len(w)] = v[Len(v)]
      BY <1>1, <1>2, <2>2
    <3> QED
      BY Zenon, <1>4, <2>2, <3>1 DEF EndsInSep
  <2> QED
    BY Zenon, <2>1, <2>2
<1>6. is_absolute(w) <=> IF u = <<>> THEN is_absolute(v) ELSE is_absolute(u)
  <2>1. CASE u = <<>>
    BY Zenon, <1>3, <2>1
  <2>2. CASE u # <<>>
    <3>1. Len(w) # 0 /\ w[1] = u[1]
      BY <1>1, <1>2, <2>2
    <3> QED
      BY Zenon, <1>4, <2>2, <3>1 DEF is_absolute
  <2> QED
    BY Zenon, <2>1, <2>2
<1> QED
  BY Zenon, <1>5, <1>6 DEF w

LEMMA ConcatIsPath ==
  ASSUME NEW u, NEW v, IsPath(u), IsPath(v),
         u = <<>> \/ v = <<>> \/ EndsInSep(u) \/ is_absolute(v)
  PROVE  IsPath(u \o v)
<1> DEFINE w == u \o v
<1>1. u \in Seq(Tokens) /\ v \in Seq(Tokens)
  BY Zenon DEF IsPath, Tokens
<1>2. /\ w \in Seq(Tokens) /\ Len(u) \in Nat /\ Len(v) \in Nat /\ Len(w) = Len(u) + Len(v)
      /\ \A k \in 1 .. Len(u) : w[k] = u[k]
      /\ \A k \in 1 .. Len(v) : w[Len(u) + k] = v[k]
  BY Zenon, <1>1, ConcatFacts
<1> HIDE DEF w
<1>3. (u = <<>> <=> Len(u) = 0) /\ (v = <<>> <=> Len(v) = 0)
  BY <1>1
<1>4. ASSUME NEW i \in 1 .. Len(w) - 1 PROVE w[i] = SEPARATOR \/ w[i + 1] = SEPARATOR
  <2>1. CASE i < Len(u)
    <3>1. i \in 1 .. Len(u) - 1 /\ i \in 1 .. Len(u) /\ i + 1 \in 1 .. Len(u)
      BY <1>2, <2>1
    <3>2. u[i] = SEPARATOR \/ u[i + 1] = SEPARATOR
      BY Zenon, <3>1 DEF IsPath
    <3> QED
      BY Zenon, <1>2, <3>1, <3>2
  <2>2. CASE i = Len(u)
    <3>1. i \in 1 .. Len(u) /\ 1 \in 1 .. Len(v) /\ Len(u) # 0 /\ Len(v) # 0
      BY <1>2, <2>2
    <3>2. w[i] = u[Len(u)] /\ w[i + 1] = v[1]
      BY Zenon, <1>2, <2>2, <3>1
    <3>3. EndsInSep(u) \/ is_absolute(v)
      BY Zenon, <1>3, <3>1
    <3> QED
      BY Zenon, <3>2, <3>3 DEF EndsInSep, is_absolute
  <2>3. CASE i > Len(u)
    <3> DEFINE k == i - Len(u)
    <3>1. /\ k \in 1 .. Len(v) - 1 /\ k \in 1 .. Len(v) /\ k + 1 \in 1 .. Len(v)
          /\ Len(u) + k = i /\ Len(u) + (k + 1) = i + 1
      BY <1>2, <2>3
    <3> HIDE DEF k
    <3>2. v[k] = SEPARATOR \/ v[k + 1] = SEPARATOR
      BY Zenon, <3>1 DEF IsPath
    <3> QED
      BY Zenon, <1>2, <3>1, <3>2
  <2> QED
    BY <1>2, <2>1, <2>2, <2>3
<1> QED
  BY Zenon, <1>2, <1>4 DEF IsPath, Tokens, w

LEMMA AlternatingIsPath ==
  ASSUME NEW p, Alternates(p)
  PROVE  IsPath(p) /\ (p # <<>> => is_absolute(p))
<1>1. p \in Seq(Tokens) /\ Len(p) \in Nat
  BY DEF Alternates
<1>2. ASSUME NEW i \in 1 .. Len(p) - 1 PROVE p[i] = SEPARATOR \/ p[i + 1] = SEPARATOR
  <2>1. i \in 1 .. Len(p) /\ i + 1 \in 1 .. Len(p) /\ (i % 2 = 1 \/ (i + 1) % 2 = 1)
    BY <1>1
  <2> QED
    BY Zenon, <2>1 DEF Alternates
<1>3. ASSUME p # <<>> PROVE p[1] = SEPARATOR
  <2>1. 1 \in 1 .. Len(p) /\ 1 % 2 = 1
    BY <1>1, <1>3
  <2> QED
    BY Zenon, <2>1 DEF Alternates
<1> QED
  BY Zenon, <1>1, <1>2, <1>3 DEF IsPath, Tokens, is_absolute

(* The target t of a symlink replaces the component at index i, and, if    *)
(* a = 0, everything before it.                                            *)
Spliced(p, a, i, t) == SubSeq(p, 1, a) \o t \o SubSeq(p, (i + 1) + 1, Len(p))

LEMMA SpliceFacts ==
  ASSUME NEW p, NEW i, AtComponent(p, i), NEW t, IsPath(t), t # <<>>,
         NEW a, a = IF is_absolute(t) THEN 0 ELSE i
  PROVE  /\ IsPath(Spliced(p, a, i, t)) /\ is_absolute(Spliced(p, a, i, t))
         /\ Walk!Components(Spliced(p, a, i, t))
              = Passed(p, a) \o (Walk!Components(t) \o Tail(Ahead(p, i)))
         /\ EndsInSep(Spliced(p, a, i, t))
              <=> EndsInSep(p) \/ (Tail(Ahead(p, i)) = <<>> /\ EndsInSep(t))
<1> DEFINE x == SubSeq(p, 1, a)
           b == i + 1
           z == SubSeq(p, b + 1, Len(p))
           n == Len(p)
           r == Spliced(p, a, i, t)
<1>1. /\ Alternates(p) /\ p \in Seq(Tokens) /\ n \in Nat /\ i \in 1 .. n - 1 /\ i \in Nat
      /\ i % 2 = 1 /\ a \in Nat /\ a \in 0 .. n /\ b \in 0 .. n /\ a <= i /\ (a = 0 \/ a = i)
  BY DEF AtComponent, Alternates
<1>2. /\ x \in Seq(Tokens) /\ Len(x) = a /\ \A k \in 1 .. a : x[k] = p[k]
      /\ z \in Seq(Tokens) /\ Len(z) = n - b /\ \A k \in 1 .. n - b : z[k] = p[b + k]
  <2> HIDE DEF b
  <2> QED
    BY Zenon, <1>1, SubSeqFacts
<1>3. r = (x \o t) \o z
  BY Zenon DEF Spliced
<1>4. t \in Seq(Tokens)
  BY Zenon DEF IsPath, Tokens
<1> HIDE DEF x, z, r
<1>5. Alternates(x)
  <2>1. \A k \in 1 .. a : k \in 1 .. n
    BY <1>1
  <2> QED
    BY Zenon, <1>1, <1>2, <2>1 DEF Alternates
<1>6. Alternates(z)
  <2> SUFFICES ASSUME NEW k \in 1 .. n - b PROVE z[k] = SEPARATOR <=> k % 2 = 1
    BY Zenon, <1>2 DEF Alternates
  <2>1. b + k \in 1 .. n /\ (k % 2 = 1 <=> (b + k) % 2 = 1)
    BY <1>1
  <2>2. z[k] = p[b + k]
    BY Zenon, <1>2
  <2> QED
    BY Zenon, <1>1, <2>1, <2>2 DEF Alternates
<1>7. IsPath(x) /\ IsPath(z) /\ (x # <<>> => is_absolute(x)) /\ (z # <<>> => is_absolute(z))
  BY Zenon, <1>5, <1>6, AlternatingIsPath
<1>8. (a = 0 => x = <<>>) /\ (a # 0 => x # <<>> /\ EndsInSep(x))
  <2>1. ASSUME a = 0 PROVE x = <<>>
    BY <1>2, <2>1
  <2>2. ASSUME a # 0 PROVE x # <<>> /\ EndsInSep(x)
    <3>1. Len(x) % 2 = 1 /\ Len(x) # 0
      BY Zenon, <1>1, <1>2, <2>2
    <3> QED
      BY Zenon, <1>5, <3>1, EndOfAlternating DEF EndsInSep
  <2> QED
    BY Zenon, <2>1, <2>2
<1>9. IsPath(x \o t) /\ x \o t \in Seq(Tokens)
  <2>1. IsPath(x \o t)
    BY Zenon, <1>7, <1>8, ConcatIsPath
  <2> QED
    BY Zenon, <2>1 DEF IsPath, Tokens
<1>10. IsPath(r)
  <2> DEFINE u == x \o t
  <2>1. IsPath(u) /\ (z = <<>> \/ is_absolute(z))
    BY Zenon, <1>7, <1>9
  <2> HIDE DEF u
  <2>2. IsPath(u \o z)
    BY Zenon, <1>7, <2>1, ConcatIsPath
  <2> QED
    BY Zenon, <1>3, <2>2 DEF u
<1>11. x \o t # <<>>
  <2>1. Len(t) # 0 /\ Len(t) \in Nat /\ Len(x) \in Nat /\ x \in Seq(Tokens)
    BY <1>1, <1>2, <1>4
  <2>2. Len(x \o t) = Len(x) + Len(t)
    BY Zenon, <1>4, <2>1, ConcatFacts
  <2>3. Len(x \o t) # 0
    BY <2>1, <2>2
  <2> QED
    BY <2>3
<1>12. is_absolute(r)
  <2>1. is_absolute(x \o t)
    <3>1. is_absolute(x \o t) <=> IF x = <<>> THEN is_absolute(t) ELSE is_absolute(x)
      BY Zenon, <1>2, <1>4, EndsOfConcat
    <3>2. a = 0 => is_absolute(t)
      BY <1>1
    <3> QED
      BY Zenon, <1>7, <1>8, <3>1, <3>2
  <2> DEFINE u == x \o t
  <2>2. u \in Seq(Tokens) /\ u # <<>> /\ is_absolute(u)
    BY Zenon, <1>9, <1>11, <2>1
  <2> HIDE DEF u
  <2>3. is_absolute(u \o z)
    BY Zenon, <1>2, <2>2, EndsOfConcat
  <2> QED
    BY Zenon, <1>3, <2>3 DEF u
<1>13. EndsInSep(r) <=> IF z = <<>> THEN EndsInSep(t) ELSE EndsInSep(z)
  <2>1. EndsInSep(x \o t) <=> EndsInSep(t)
    BY Zenon, <1>2, <1>4, EndsOfConcat
  <2> DEFINE u == x \o t
  <2>2. u \in Seq(Tokens) /\ (EndsInSep(u) <=> EndsInSep(t))
    BY Zenon, <1>9, <2>1
  <2> HIDE DEF u
  <2>3. EndsInSep(u \o z) <=> IF z = <<>> THEN EndsInSep(u) ELSE EndsInSep(z)
    BY Zenon, <1>2, <2>2, EndsOfConcat
  <2> QED
    BY Zenon, <1>3, <2>2, <2>3 DEF u
<1> DEFINE c == EndWithSep(p, i)
<1>14. /\ Tail(Ahead(p, i)) = Ahead(p, c)
       /\ Ahead(p, c) = <<>> <=> c = n
       /\ c \div 2 = i \div 2 + 1
       /\ c \in 0 .. n
  <2>1. c \in i + 1 .. n
    BY Zenon, StepFacts
  <2>2. c \in 0 .. n
    <3> HIDE DEF c
    <3> QED
      BY <1>1, <2>1
  <2> QED
    BY Zenon, <2>2, StepFacts
<1>7a. EndsInSep(r) <=> EndsInSep(p) \/ (Ahead(p, c) = <<>> /\ EndsInSep(t))
  <2>1. (z = <<>> <=> n = b) /\ (EndsInSep(z) <=> (n - b) % 2 = 1) /\ (EndsInSep(p) <=> n % 2 = 1)
    <3>1. z = <<>> <=> n - b = 0
      BY <1>2
    <3>2. n - b = 0 <=> n = b
      BY <1>1
    <3>3. (EndsInSep(z) <=> Len(z) % 2 = 1) /\ (EndsInSep(p) <=> Len(p) % 2 = 1)
      BY Zenon, <1>1, <1>6, EndOfAlternating
    <3> QED
      BY Zenon, <1>2, <3>1, <3>2, <3>3
  <2>2. /\ (n - b) % 2 = 1 <=> n % 2 = 1
        /\ n = b => c = n /\ n % 2 # 1
        /\ n # b => (c = n => n % 2 = 1)
    BY <1>1 DEF EndWithSep
  <2> HIDE DEF c, b, n
  <2> QED
    BY Zenon, <1>13, <1>14, <2>1, <2>2
<1>16. Comps(x) = Passed(p, a)
  <2>1. /\ Comps(x) \in Seq(Tokens) /\ Len(Comps(x)) = a \div 2
        /\ \A k \in 1 .. a \div 2 : Comps(x)[k] = x[2 * k]
    BY Zenon, <1>2, CompsFacts
  <2>2. /\ Passed(p, a) \in Seq(Tokens) /\ Len(Passed(p, a)) = a \div 2
        /\ \A k \in 1 .. a \div 2 : Passed(p, a)[k] = p[2 * k]
    BY Zenon, <1>1, PassedFacts
  <2>3. ASSUME NEW k \in 1 .. a \div 2 PROVE Comps(x)[k] = Passed(p, a)[k]
    <3>1. 2 * k \in 1 .. a
      BY <1>1
    <3> QED
      BY Zenon, <1>2, <2>1, <2>2, <3>1
  <2> QED
    BY Zenon, <2>1, <2>2, <2>3, EqualSequences
<1>17. Comps(z) = Ahead(p, c)
  <2> DEFINE m == n \div 2 - c \div 2
  <2>1. /\ Comps(z) \in Seq(Tokens) /\ Len(Comps(z)) = (n - b) \div 2
        /\ \A k \in 1 .. (n - b) \div 2 : Comps(z)[k] = z[2 * k]
    BY Zenon, <1>2, CompsFacts
  <2>2. /\ Ahead(p, c) \in Seq(Tokens) /\ Len(Ahead(p, c)) = m
        /\ \A k \in 1 .. m : Ahead(p, c)[k] = p[2 * (c \div 2 + k)]
    <3> HIDE DEF c
    <3> QED
      BY Zenon, <1>1, <1>14, AheadFacts
  <2>3. (n - b) \div 2 = m
    <3> HIDE DEF c
    <3> QED
      BY <1>1, <1>14
  <2>4. ASSUME NEW k \in 1 .. m PROVE Comps(z)[k] = Ahead(p, c)[k]
    <3> HIDE DEF c
    <3>1. 2 * k \in 1 .. n - b /\ b + 2 * k = 2 * (c \div 2 + k)
      BY <1>1, <1>14
    <3> HIDE DEF m, b, n
    <3> QED
      BY Zenon, <1>2, <2>1, <2>2, <2>3, <3>1
  <2> HIDE DEF c, b, n, m
  <2> QED
    BY Zenon, <2>1, <2>2, <2>3, <2>4, EqualSequences
<1>18. Walk!Components(r) = Passed(p, a) \o (Walk!Components(t) \o Ahead(p, c))
  <2> DEFINE u == x \o t
             e == Walk!Components(t)
             f == Passed(p, a)
             g == Ahead(p, c)
  <2>1. Walk!Components(x) = f /\ Walk!Components(z) = g
    BY Zenon, <1>5, <1>6, <1>16, <1>17, ComponentsOfAlternating
  <2>2. Walk!Components(u) = f \o e
    <3>1. Walk!Components(x \o t) = Walk!Components(x) \o Walk!Components(t)
      BY Zenon, <1>2, <1>4, ComponentsOfConcat
    <3> QED
      BY Zenon, <2>1, <3>1
  <2>3. Walk!Components(r) = (f \o e) \o g
    <3>1. u \in Seq(Tokens) /\ r = u \o z
      BY Zenon, <1>3, <1>9
    <3> HIDE DEF u, f, e, g
    <3>2. Walk!Components(u \o z) = Walk!Components(u) \o Walk!Components(z)
      BY Zenon, <1>2, <3>1, ComponentsOfConcat
    <3> QED
      BY Zenon, <2>1, <2>2, <3>1, <3>2
  <2>4. f \in Seq(Tokens) /\ e \in Seq(Tokens) /\ g \in Seq(Tokens)
    BY Zenon, <1>2, <1>4, <2>1, ComponentsType
  <2> HIDE DEF u, f, e, g
  <2>5. (f \o e) \o g = f \o (e \o g)
    BY Zenon, <2>4, ConcatThree
  <2> QED
    BY Zenon, <2>3, <2>5 DEF f, e, g
<1> QED
  BY Zenon, <1>10, <1>12, <1>14, <1>7a, <1>18 DEF r

(* The path after a symlink is replaced by its target *)
Followed(p, i, t, a, j, q) ==
    /\ AtComponent(p, i) /\ IsPath(t) /\ t # <<>>
    /\ a = IF is_absolute(t) THEN 0 ELSE i
    /\ j = IF is_absolute(t) THEN 1 ELSE i
    /\ q = path_dedup_sep(Spliced(p, a, i, t))

LEMMA FollowFacts ==
  ASSUME NEW p, NEW i, NEW t, NEW a, NEW j, NEW q, Followed(p, i, t, a, j, q)
  PROVE  /\ Alternates(q) /\ j \in 1 .. Len(q) /\ j % 2 = 1
         /\ Len(q) <= Len(Spliced(p, a, i, t))
         /\ Passed(q, j) = Passed(p, a)
         /\ Ahead(q, j) = Walk!Components(t) \o Tail(Ahead(p, i))
         /\ EndsInSep(q) <=> EndsInSep(p) \/ (Tail(Ahead(p, i)) = <<>> /\ EndsInSep(t))
<1> DEFINE r == Spliced(p, a, i, t)
           x == Passed(p, a)
           e == Walk!Components(t)
           g == Tail(Ahead(p, i))
           y == e \o g
<1> USE DEF Followed
<1>1. /\ p \in Seq(Tokens) /\ Len(p) \in Nat /\ i \in 1 .. Len(p) - 1 /\ i \in Nat /\ i % 2 = 1
      /\ a \in 0 .. Len(p) /\ j \in Nat /\ j % 2 = 1 /\ j >= 1 /\ a \div 2 = j \div 2
  BY DEF AtComponent, Alternates
<1>2. /\ IsPath(r) /\ is_absolute(r) /\ Walk!Components(r) = x \o y
      /\ EndsInSep(r) <=> EndsInSep(p) \/ (g = <<>> /\ EndsInSep(t))
  BY Zenon, SpliceFacts
<1>3. x \in Seq(Tokens) /\ Len(x) = j \div 2
  BY Zenon, <1>1, PassedFacts
<1>4. e \in Seq(Tokens) /\ g \in Seq(Tokens) /\ t \in Seq(Tokens)
  <2>1. t \in Seq(Tokens)
    BY Zenon DEF IsPath, Tokens
  <2>2. Ahead(p, i) \in Seq(Tokens) /\ Ahead(p, i) # <<>>
    BY Zenon, StepFacts
  <2> QED
    BY <2>1, <2>2, ComponentsType
<1>5. y \in Seq(Tokens) /\ Len(y) = Len(e) + Len(g) /\ Len(e) \in Nat /\ Len(g) \in Nat
  BY Zenon, <1>4, ConcatFacts
<1> HIDE DEF r, x, e, g, y
<1>6. /\ Alternates(q) /\ Len(q) \in 1 .. Len(r)
      /\ EndsInSep(q) <=> EndsInSep(r)
      /\ Comps(q) = x \o y
  BY Zenon, <1>2, DedupFacts DEF r
<1>7. q \in Seq(Tokens) /\ Len(q) \in Nat
  BY <1>6 DEF Alternates
<1>8. j <= Len(q)
  <2>1. CASE is_absolute(t)
    BY <1>6, <1>7, <2>1
  <2>2. CASE ~ is_absolute(t)
    <3>1. Len(e) > 0
      BY Zenon, <1>4, <2>2, RelativeHasComponent DEF e
    <3>2. Len(Comps(q)) = Len(q) \div 2
      BY Zenon, <1>7, CompsFacts
    <3>3. Len(x \o y) = Len(x) + Len(y)
      BY Zenon, <1>3, <1>5, ConcatFacts
    <3>4. Len(q) \div 2 >= j \div 2 + 1
      BY <1>1, <1>3, <1>5, <1>6, <3>1, <3>2, <3>3
    <3> QED
      BY <1>1, <1>7, <3>4
  <2> QED
    BY Zenon, <2>1, <2>2
<1>9. Passed(q, j) = x /\ Ahead(q, j) = y
  <2>1. j \in 0 .. Len(q)
    BY <1>1, <1>7, <1>8
  <2> QED
    BY ZenonT(40), <1>3, <1>5, <1>6, <1>7, <2>1, SplitComps
<1>10. j \in 1 .. Len(q) /\ Len(q) <= Len(r)
  BY <1>1, <1>6, <1>7, <1>8
<1> QED
  BY Zenon, <1>1, <1>2, <1>6, <1>9, <1>10 DEF r, x, y, e, g

(* Tokens have at least one byte; in a path without ".." they have one. *)
LEMMA ByteLenFacts ==
  ASSUME NEW p \in Seq(Tokens)
  PROVE  /\ ByteLen(p) \in Nat /\ Len(p) <= ByteLen(p)
         /\ (\A i \in 1 .. Len(p) : p[i] # "..") => ByteLen(p) = Len(p)
<1> DEFINE F == [i \in 1 .. Len(p) |-> [s \in Nat |-> s + (IF p[i] = ".." THEN 2 ELSE 1)]]
<1>1. Len(p) \in Nat
  OBVIOUS
<1>2. PICK g \in [0 .. Len(p) -> Nat] : g[0] = 0 /\ \A i \in 1 .. Len(p) : g[i] = F[i][g[i - 1]]
  <2>1. F \in [1 .. Len(p) -> [Nat -> Nat]] /\ 0 \in Nat
    OBVIOUS
  <2> HIDE DEF F
  <2>2. \E g : IsFold(g, Nat, 0, Len(p), F)
    BY Zenon, <1>1, <2>1, Recursion
  <2> QED
    BY Zenon, <2>2 DEF IsFold
<1>3. g = [i \in 0 .. Len(p) |-> IF i = 0 THEN 0 ELSE g[i - 1] + (IF p[i] = ".." THEN 2 ELSE 1)]
  <2>1. ASSUME NEW i \in 0 .. Len(p), i # 0
        PROVE  g[i] = g[i - 1] + (IF p[i] = ".." THEN 2 ELSE 1)
    <3>1. i \in 1 .. Len(p) /\ g[i - 1] \in Nat
      BY <2>1
    <3> QED
      BY Zenon, <1>2, <3>1
  <2> HIDE DEF F
  <2> QED
    BY Zenon, <1>2, <2>1
<1> HIDE DEF F
<1>4. PICK f : /\ f = [i \in 0 .. Len(p) |->
                          IF i = 0 THEN 0 ELSE f[i - 1] + (IF p[i] = ".." THEN 2 ELSE 1)]
               /\ ByteLen(p) = f[Len(p)]
  BY Zenon, <1>3 DEF ByteLen
<1> DEFINE S == {i \in 0 .. Len(p) : /\ f[i] \in Nat /\ i <= f[i]
                                     /\ (\A k \in 1 .. i : p[k] # "..") => f[i] = i}
<1>5. 0 \in S
  BY <1>1, <1>4
<1>6. ASSUME NEW n \in S, n \in 0 .. Len(p) - 1 PROVE n + 1 \in S
  <2>1. n \in Nat /\ n + 1 \in 0 .. Len(p) /\ n + 1 # 0 /\ (n + 1) - 1 = n
    BY <1>1, <1>6
  <2>2. f[n + 1] = f[n] + (IF p[n + 1] = ".." THEN 2 ELSE 1)
    BY Zenon, <1>4, <2>1
  <2>3. f[n] \in Nat /\ n <= f[n] /\ ((\A k \in 1 .. n : p[k] # "..") => f[n] = n)
    BY Zenon
  <2>4. (\A k \in 1 .. n + 1 : p[k] # "..") => f[n + 1] = n + 1
    BY <2>1, <2>2, <2>3
  <2>5. f[n + 1] \in Nat /\ n + 1 <= f[n + 1]
    BY <2>1, <2>2, <2>3
  <2> QED
    BY Zenon, <2>1, <2>4, <2>5
<1>7. Len(p) \in S
  <2> HIDE DEF S
  <2>1. \A n \in 0 .. Len(p) : n \in S
    BY Zenon, <1>1, <1>5, <1>6, Induction
  <2> QED
    BY <1>1, <2>1
<1> QED
  BY Zenon, <1>4, <1>7

-----------------------------------------------------------------------------
(* The directories that names lead through, from the root *)
Chain(t, names, r) ==
    /\ r \in [0 .. Len(names) -> DOMAIN t]
    /\ r[0] = Root
    /\ \A k \in 1 .. Len(names) :
          /\ t[r[k - 1]].kind = "dir" /\ ~ t[r[k - 1]].encrypted
          /\ names[k] \in DOMAIN t[r[k - 1]].entries \ {".", ".."}
          /\ r[k] = t[r[k - 1]].entries[names[k]]

Leads(t, names, n) == \E r : Chain(t, names, r) /\ r[Len(names)] = n

(* Where resolution is, while it runs *)
Located(p, i) == Alternates(p) /\ i \in 1 .. Len(p) /\ (i % 2 = 1 \/ i = Len(p))

Running ==
    /\ Located(path, index)
    /\ Leads(tree, Passed(path, index), inode)
    /\ follow = "All" => ~ IsSymlink(inode)
    /\ num_symlinks <= MaxSymlinks
    /\ index \div 2 <= num_iterations /\ num_iterations <= MaxIterations
    /\ Len(path) <= MaxPathLen

(* What it comes to *)
Settled ==
    /\ \E names \in Seq(Tokens) :
          /\ path = Walk!Canonical(names) /\ Leads(tree, names, inode)
          /\ Len(names) <= MaxIterations
    /\ follow = "All" => ~ IsSymlink(inode)
    /\ Len(path) <= MaxPathLen

ResolveInv ==
    /\ tree \in Trees
    /\ TypeOK
    /\ outcome = "running" => Running
    /\ outcome = "ok" => Settled
    /\ PanicsOnlyAtLimit

LEMMA LoopFacts ==
  ASSUME ResolveInv, InLoop
  PROVE  /\ AtComponent(path, index)
         /\ comp_end = index + 1 /\ HasName
         /\ comp_end_with_sep = EndWithSep(path, index)
         /\ is_last_component <=> EndWithSep(path, index) = Len(path)
         /\ find_parent_component_start = IF index = 1 THEN 1 ELSE index - 2
<1>1. /\ Alternates(path) /\ path \in Seq(Tokens) /\ Len(path) \in Nat /\ index \in Nat
      /\ index \in 1 .. Len(path) - 1 /\ index % 2 = 1
  <2>1. Located(path, index) /\ index < Len(path)
    BY Zenon DEF ResolveInv, Running, InLoop
  <2> QED
    BY <2>1 DEF Located, Alternates
<1>2. AtComponent(path, index)
  BY Zenon, <1>1 DEF AtComponent
<1>3. \A i \in 1 .. Len(path) : path[i] = SEPARATOR <=> i % 2 = 1
  BY Zenon, <1>1 DEF Alternates
<1>4. comp_end = index + 1
  <2>1. path[index + 1] # SEPARATOR
    BY <1>1, <1>3
  <2>2. CASE index + 2 <= Len(path)
    <3>1. index + 1 \in index .. Len(path) - 1 /\ path[(index + 1) + 1] = SEPARATOR
      BY <1>1, <1>3, <2>2
    <3>2. \A j \in index .. (index + 1) - 1 : path[j + 1] # SEPARATOR
      BY <1>1, <2>1
    <3>3. ASSUME NEW i \in index .. Len(path) - 1, path[i + 1] = SEPARATOR,
                 \A j \in index .. i - 1 : path[j + 1] # SEPARATOR
          PROVE  i = index + 1
      <4>1. i # index
        BY Zenon, <2>1, <3>3
      <4>2. ~ (i > index + 1)
        <5>1. ASSUME i > index + 1 PROVE index + 1 \in index .. i - 1
          BY <1>1, <5>1
        <5> QED
          BY Zenon, <3>1, <3>3, <5>1
      <4> QED
        BY <1>1, <4>1, <4>2
    <3> QED
      BY Zenon, <3>1, <3>2, <3>3 DEF comp_end
  <2>3. CASE ~ (index + 2 <= Len(path))
    <3>1. Len(path) = index + 1
      BY <1>1, <2>3
    <3>2. ~ \E i \in index .. Len(path) - 1 : path[i + 1] = SEPARATOR
      BY <1>1, <2>1, <3>1
    <3> QED
      BY Zenon, <3>1, <3>2 DEF comp_end
  <2> QED
    BY Zenon, <2>2, <2>3
<1>5. comp_end_with_sep = EndWithSep(path, index)
  BY <1>1, <1>4 DEF comp_end_with_sep, EndWithSep
<1>6. HasName
  BY <1>1, <1>4 DEF HasName
<1>7. is_last_component <=> EndWithSep(path, index) = Len(path)
  BY <1>1, <1>4 DEF is_last_component, EndWithSep
<1>8. find_parent_component_start = IF index = 1 THEN 1 ELSE index - 2
  <2>1. CASE index = 1
    BY Zenon, <2>1 DEF find_parent_component_start
  <2>2. CASE index # 1
    <3> DEFINE seps == {i \in 0 .. index - 2 : path[i + 1] = SEPARATOR}
    <3>1. index - 3 \in seps
      <4>1. index - 3 \in 0 .. index - 2 /\ (index - 3) + 1 \in 1 .. Len(path)
            /\ ((index - 3) + 1) % 2 = 1
        BY <1>1, <2>2
      <4> QED
        BY Zenon, <1>3, <4>1
    <3>2. index - 2 \notin seps
      <4>1. (index - 2) + 1 \in 1 .. Len(path) /\ ((index - 2) + 1) % 2 # 1
        BY <1>1, <2>2
      <4> QED
        BY Zenon, <1>3, <4>1
    <3>3. \A j \in seps : j <= index - 3
      <4> TAKE j \in seps
      <4>1. j \in 0 .. index - 2 /\ j # index - 2
        BY Zenon, <3>2
      <4> QED
        BY <1>1, <4>1
    <3>4. ASSUME NEW i \in seps, \A j \in seps : j <= i PROVE i = index - 3
      <4>1. i <= index - 3 /\ index - 3 <= i /\ i \in 0 .. index - 2
        BY Zenon, <3>1, <3>3, <3>4
      <4> QED
        BY <1>1, <4>1
    <3> DEFINE last == CHOOSE i \in seps : \A j \in seps : j <= i
    <3> HIDE DEF seps
    <3>5. last = index - 3
      BY Zenon, <3>1, <3>3, <3>4
    <3>6. find_parent_component_start = last + 1
      BY Zenon, <2>2 DEF find_parent_component_start, seps
    <3> HIDE DEF last
    <3> QED
      BY <1>1, <2>2, <3>5, <3>6
  <2> QED
    BY Zenon, <2>1, <2>2
<1> QED
  BY Zenon, <1>2, <1>4, <1>5, <1>6, <1>7, <1>8

-----------------------------------------------------------------------------
(* Facts about trees *)
LEMMA TreeFacts ==
  ASSUME NEW t \in Trees
  PROVE  /\ Root \in DOMAIN t /\ t[Root].kind = "dir"
         /\ ".." \in DOMAIN t[Root].entries => t[Root].entries[".."] = Root
         /\ \A n \in DOMAIN t :
               /\ t[n].kind = "link" => IsPath(t[n].target)
               /\ t[n].kind = "dir" =>
                     \A c \in DOMAIN t[n].entries :
                        c \in Names /\ t[n].entries[c] \in DOMAIN t
  BY Zenon, ResolveAssumption DEF IsTree

LEMMA ParentInTree ==
  ASSUME NEW t \in Trees, NEW n \in DOMAIN t, t[n].kind = "dir",
         NEW c \in DOMAIN t[n].entries \ {".", ".."},
         NEW k \in DOMAIN t, k = t[n].entries[c], t[k].kind = "dir",
         ".." \in DOMAIN t[k].entries
  PROVE  t[k].entries[".."] = n
  BY Zenon, ResolveAssumption DEF IsTree

LEMMA LeadsToRoot ==
  ASSUME NEW t \in Trees
  PROVE  Leads(t, <<>>, Root)
<1> DEFINE r == [k \in 0 .. 0 |-> Root]
<1>1. Len(<<>>) = 0 /\ Root \in DOMAIN t
  BY Zenon, TreeFacts
<1>2. Chain(t, <<>>, r) /\ r[0] = Root
  BY <1>1 DEF Chain
<1> HIDE DEF r
<1> QED
  BY Zenon, <1>1, <1>2 DEF Leads

LEMMA LeadsNowhere ==
  ASSUME NEW t, NEW n, Leads(t, <<>>, n)
  PROVE  n = Root
  BY Zenon DEF Leads, Chain

LEMMA LeadsDown ==
  ASSUME NEW t \in Trees, NEW names \in Seq(Tokens), NEW n, Leads(t, names, n),
         t[n].kind = "dir", ~ t[n].encrypted,
         NEW c \in DOMAIN t[n].entries \ {".", ".."}
  PROVE  Leads(t, Append(names, c), t[n].entries[c]) /\ n \in DOMAIN t
<1>1. PICK r : Chain(t, names, r) /\ r[Len(names)] = n
  BY Zenon DEF Leads
<1> DEFINE l == Len(names)
           new == Append(names, c)
           h == [k \in 0 .. l + 1 |-> IF k <= l THEN r[k] ELSE t[n].entries[c]]
<1>2. l \in Nat /\ Len(new) = l + 1 /\ new[l + 1] = c /\ \A k \in 1 .. l : new[k] = names[k]
  <2>1. c \in Tokens
    <3>1. n \in DOMAIN t
      BY <1>1 DEF Chain
    <3> QED
      BY Zenon, <3>1, TreeFacts DEF Tokens
  <2> QED
    BY <2>1
<1>3. n \in DOMAIN t /\ t[n].entries[c] \in DOMAIN t
  <2>1. n \in DOMAIN t
    BY <1>1, <1>2 DEF Chain
  <2> QED
    BY Zenon, <2>1, TreeFacts
<1>4. /\ h \in [0 .. l + 1 -> DOMAIN t] /\ h[0] = Root
      /\ h[l + 1] = t[n].entries[c] /\ h[l] = n /\ \A k \in 0 .. l : h[k] = r[k]
  BY <1>1, <1>2, <1>3 DEF Chain
<1> HIDE DEF h, l, new
<1>5. ASSUME NEW k \in 1 .. l + 1
      PROVE  /\ t[h[k - 1]].kind = "dir" /\ ~ t[h[k - 1]].encrypted
             /\ new[k] \in DOMAIN t[h[k - 1]].entries \ {".", ".."}
             /\ h[k] = t[h[k - 1]].entries[new[k]]
  <2>1. CASE k = l + 1
    <3>1. k - 1 = l
      BY <1>2, <2>1
    <3>2. h[k - 1] = n /\ new[k] = c /\ h[k] = t[n].entries[c]
      BY Zenon, <1>2, <1>4, <2>1, <3>1
    <3> QED
      BY Zenon, <3>2
  <2>2. CASE k \in 1 .. l
    <3>1. k - 1 \in 0 .. l /\ k \in 0 .. l
      BY <1>2, <2>2
    <3>2. h[k - 1] = r[k - 1] /\ new[k] = names[k] /\ h[k] = r[k]
      BY Zenon, <1>2, <1>4, <2>2, <3>1
    <3> QED
      BY Zenon, <1>1, <2>2, <3>2 DEF Chain, l
  <2> QED
    BY <1>2, <2>1, <2>2
<1>6. Chain(t, new, h)
  BY Zenon, <1>2, <1>4, <1>5 DEF Chain
<1> QED
  BY Zenon, <1>2, <1>3, <1>4, <1>6 DEF Leads, new

LEMMA LeadsUp ==
  ASSUME NEW t \in Trees, NEW names \in Seq(Tokens), names # <<>>,
         NEW n, Leads(t, names, n), t[n].kind = "dir", ".." \in DOMAIN t[n].entries
  PROVE  /\ Leads(t, SubSeq(names, 1, Len(names) - 1), t[n].entries[".."])
         /\ t[t[n].entries[".."]].kind = "dir"
<1>1. PICK r : Chain(t, names, r) /\ r[Len(names)] = n
  BY Zenon DEF Leads
<1> DEFINE l == Len(names) - 1
           new == SubSeq(names, 1, l)
           h == [k \in 0 .. l |-> r[k]]
<1>2. l \in Nat /\ Len(new) = l /\ l + 1 = Len(names) /\ \A k \in 1 .. l : new[k] = names[k]
  <2>1. l \in Nat /\ l + 1 = Len(names) /\ l \in 0 .. Len(names)
    OBVIOUS
  <2> HIDE DEF l
  <2>2. Len(new) = l /\ \A k \in 1 .. l : new[k] = names[k]
    BY Zenon, <2>1, SubSeqFacts
  <2> QED
    BY Zenon, <2>1, <2>2
<1>3. /\ h \in [0 .. l -> DOMAIN t] /\ h[0] = Root
      /\ \A k \in 0 .. l : h[k] = r[k]
  BY <1>1, <1>2 DEF Chain
<1> HIDE DEF l, new, h
<1>4. t[n].entries[".."] = r[l] /\ t[r[l]].kind = "dir"
  <2>1. l + 1 \in 1 .. Len(names) /\ (l + 1) - 1 = l /\ l \in 0 .. Len(names)
        /\ l + 1 \in 0 .. Len(names)
    BY <1>2
  <2>2. /\ t[r[l]].kind = "dir" /\ names[l + 1] \in DOMAIN t[r[l]].entries \ {".", ".."}
        /\ r[l + 1] = t[r[l]].entries[names[l + 1]]
        /\ r[l] \in DOMAIN t /\ r[l + 1] \in DOMAIN t
    BY Zenon, <1>1, <2>1 DEF Chain
  <2>3. r[l + 1] = n
    BY Zenon, <1>1, <1>2
  <2> DEFINE m == r[l]
             c == names[l + 1]
  <2>4. /\ m \in DOMAIN t /\ t[m].kind = "dir" /\ c \in DOMAIN t[m].entries \ {".", ".."}
        /\ n \in DOMAIN t /\ n = t[m].entries[c]
    BY Zenon, <2>2, <2>3
  <2> HIDE DEF m, c
  <2>5. t[n].entries[".."] = m
    BY Zenon, <2>4, ParentInTree
  <2> QED
    BY Zenon, <2>2, <2>5 DEF m
<1>5. ASSUME NEW k \in 1 .. l
      PROVE  /\ t[h[k - 1]].kind = "dir" /\ ~ t[h[k - 1]].encrypted
             /\ new[k] \in DOMAIN t[h[k - 1]].entries \ {".", ".."}
             /\ h[k] = t[h[k - 1]].entries[new[k]]
  <2>1. k - 1 \in 0 .. l /\ k \in 0 .. l /\ k \in 1 .. Len(names)
    BY <1>2
  <2>2. h[k - 1] = r[k - 1] /\ new[k] = names[k] /\ h[k] = r[k]
    BY Zenon, <1>2, <1>3, <2>1
  <2> QED
    BY Zenon, <1>1, <2>1, <2>2 DEF Chain
<1>6. Chain(t, new, h)
  BY Zenon, <1>2, <1>3, <1>5 DEF Chain
<1>7. h[l] = r[l]
  BY <1>2, <1>3
<1> QED
  BY Zenon, <1>2, <1>4, <1>6, <1>7 DEF Leads, new, l

(* The chain is the one that the names are followed through. *)
LEMMA RunningLeads ==
  ASSUME ResolveInv, outcome = "running"
  PROVE  PrefixLeadsToInode
<1> DEFINE names == Passed(path, index)
           n == Len(names)
           Follows1(f) == f = [k \in 0 .. n |->
                                 IF k = 0 THEN Root ELSE tree[f[k - 1]].entries[names[k]]]
<1>1. Located(path, index) /\ Leads(tree, names, inode) /\ (follow = "All" => ~ IsSymlink(inode))
  BY Zenon DEF ResolveInv, Running
<1>2. PICK r : Chain(tree, names, r) /\ r[n] = inode
  BY Zenon, <1>1 DEF Leads
<1>3. n \in Nat
  <2>1. path \in Seq(Tokens) /\ index \in 0 .. Len(path)
    BY <1>1 DEF Located, Alternates
  <2>2. names \in Seq(Tokens)
    BY Zenon, <2>1, PassedFacts
  <2> QED
    BY <2>2
<1> HIDE DEF names
<1>4. Follows1(r)
  <2>1. r = [k \in 0 .. n |-> r[k]]
    BY Zenon, <1>2 DEF Chain
  <2>2. ASSUME NEW k \in 0 .. n
        PROVE  r[k] = IF k = 0 THEN Root ELSE tree[r[k - 1]].entries[names[k]]
    <3>1. CASE k = 0
      BY Zenon, <1>2, <3>1 DEF Chain
    <3>2. CASE k # 0
      <4>1. k \in 1 .. n
        BY <1>3, <3>2
      <4> QED
        BY Zenon, <1>2, <3>2, <4>1 DEF Chain
    <3> QED
      BY Zenon, <3>1, <3>2
  <2> HIDE DEF n
  <2> QED
    BY Zenon, <2>1, <2>2
<1>5. ASSUME NEW f, Follows1(f) PROVE f = r
  <2> DEFINE S == {k \in 0 .. n : f[k] = r[k]}
  <2>1. 0 \in S
    BY <1>2, <1>3, <1>5 DEF Chain
  <2>2. ASSUME NEW k \in S, k \in 0 .. n - 1 PROVE k + 1 \in S
    <3>1. k + 1 \in 0 .. n /\ k + 1 # 0 /\ (k + 1) - 1 = k
      BY <1>3, <2>2
    <3>2. f[k + 1] = tree[f[k]].entries[names[k + 1]]
      BY Zenon, <1>5, <3>1
    <3>3. r[k + 1] = tree[r[k]].entries[names[k + 1]]
      BY Zenon, <1>4, <3>1
    <3> QED
      BY Zenon, <3>1, <3>2, <3>3
  <2>3. \A k \in 0 .. n : k \in S
    <3> HIDE DEF S, n
    <3> QED
      BY Zenon, <1>3, <2>1, <2>2, Induction
  <2>4. \A k \in 0 .. n : f[k] = r[k]
    BY Zenon, <2>3
  <2>5. f = [k \in 0 .. n |-> f[k]] /\ r = [k \in 0 .. n |-> r[k]]
    <3> HIDE DEF n
    <3>1. f = [k \in 0 .. n |-> f[k]]
      BY Zenon, <1>5
    <3>2. r = [k \in 0 .. n |-> r[k]]
      BY Zenon, <1>4
    <3> QED
      BY Zenon, <3>1, <3>2
  <2> HIDE DEF n, Follows1
  <2> QED
    BY Zenon, <2>4, <2>5
<1> DEFINE reached == CHOOSE f : Follows1(f)
<1>6. Follows1(reached)
  <2> HIDE DEF Follows1
  <2> QED
    BY Zenon, <1>4
<1>7. reached = r
  <2> HIDE DEF Follows1, reached
  <2> QED
    BY Zenon, <1>5, <1>6
<1>8. index < Len(path) => path[index] = SEPARATOR
  BY <1>1 DEF Located, Alternates
<1>9. /\ \A k \in 1 .. n :
            LET dir == tree[reached[k - 1]]
            IN  /\ dir.kind = "dir" /\ ~ dir.encrypted
                /\ names[k] \in DOMAIN dir.entries \ {".", ".."}
      /\ reached[n] = inode
  <2> HIDE DEF reached
  <2> QED
    BY Zenon, <1>2, <1>7 DEF Chain
<1> QED
  BY Zenon, <1>1, <1>8, <1>9 DEF PrefixLeadsToInode, names

-----------------------------------------------------------------------------
(* What the walk sees of an iteration *)
LEMMA WalkFacts ==
  ASSUME ResolveInv, InLoop
  PROVE  /\ Walked.at = "walking" /\ Walked.inode = inode
         /\ Walked.names = Passed(path, index) /\ Walked.links = num_symlinks
         /\ Walked.steps = num_iterations
         /\ Walked.slash <=> EndsInSep(path)
         /\ Walk!HasNext
         /\ Walk!comp = comp
         /\ Walk!Rest = Ahead(path, EndWithSep(path, index))
         /\ Walk!Rest = <<>> <=> is_last_component
<1>1. AtComponent(path, index) /\ (is_last_component <=> EndWithSep(path, index) = Len(path))
  BY Zenon, LoopFacts
<1>2. /\ Ahead(path, index) # <<>>
      /\ Head(Ahead(path, index)) = path[index + 1]
      /\ Tail(Ahead(path, index)) = Ahead(path, EndWithSep(path, index))
      /\ Ahead(path, EndWithSep(path, index)) = <<>> <=> EndWithSep(path, index) = Len(path)
  BY Zenon, <1>1, StepFacts
<1>3. /\ Walked.at = "walking" /\ Walked.inode = inode
      /\ Walked.names = Passed(path, index) /\ Walked.links = num_symlinks
      /\ Walked.comps = Ahead(path, index) /\ Walked.steps = num_iterations
      /\ Walked.slash <=> EndsInSep(path) /\ ~ (Ahead(path, index) = <<>> /\ IsDir(inode))
  BY Zenon DEF InLoop, Walked
<1>4. Walked.slash <=> EndsInSep(path)
  BY Zenon, <1>2, <1>3
<1> QED
  BY Zenon, <1>1, <1>2, <1>3, <1>4 DEF Walk!HasNext, Walk!comp, Walk!Rest, comp

(* How the walk sees a state that is still running *)
LEMMA WalkingFacts ==
  ASSUME outcome' = "running", tree' = tree,
         NEW n, NEW names, NEW comps, NEW slash, NEW links, NEW steps,
         inode' = n, Passed(path', index') = names, Ahead(path', index') = comps,
         num_symlinks' = links, num_iterations' = steps,
         (EndsInSep(path') /\ ~ (comps = <<>> /\ tree[n].kind = "dir"))
            <=> (slash /\ ~ (comps = <<>> /\ tree[n].kind = "dir"))
  PROVE  Walked' = Walk!Walking(n, names, comps, slash, links, steps)
<1>1. Walked' = [at |-> "walking", inode |-> inode', names |-> Passed(path', index'),
                 comps |-> Ahead(path', index'),
                 slash |-> EndsInSep(path')
                             /\ ~ (Ahead(path', index') = <<>> /\ tree'[inode'].kind = "dir"),
                 links |-> num_symlinks', steps |-> num_iterations']
  BY Zenon DEF Walked, IsDir
<1>2. (EndsInSep(path') /\ ~ (comps = <<>> /\ tree[n].kind = "dir"))
         = (slash /\ ~ (comps = <<>> /\ tree[n].kind = "dir"))
  BY Zenon
<1> QED
  BY Zenon, <1>1, <1>2 DEF Walk!Walking, Walk!IsDir

(* How it sees a failure *)
LEMMA FailedFacts ==
  ASSUME NEW why, outcome' = why, why \notin {"running", "ok"}
  PROVE  Walked' = Walk!Failed(why)
  BY Zenon DEF Walked, Walk!Failed

-----------------------------------------------------------------------------
(* The steps of resolution: each keeps the invariant, and is a step of the *)
(* walk.                                                                   *)
LEMMA CounterFacts ==
  ASSUME ResolveInv, outcome = "running"
  PROVE  /\ num_symlinks \in Nat /\ num_symlinks <= MaxSymlinks /\ MaxSymlinks \in Nat
         /\ num_iterations \in Nat /\ num_iterations <= MaxIterations /\ MaxIterations \in Nat
         /\ MaxPathLen \in Nat /\ Len(path) <= MaxPathLen
         /\ index \in Nat /\ index \div 2 <= num_iterations
         /\ path \in Seq(Tokens) /\ Len(path) \in Nat
         /\ inode \in DOMAIN tree /\ tree \in Trees
  BY ResolveAssumption DEF ResolveInv, Running, TypeOK, Tokens

LEMMA FailStep ==
  ASSUME ResolveInv, outcome = "running", tree' = tree,
         path' \in Seq(Tokens), inode' \in DOMAIN tree,
         num_symlinks' \in 0 .. MaxSymlinks + 1, num_iterations' \in 0 .. MaxIterations + 1,
         outcome' \notin {"running", "ok"},
         outcome' = "panic" => num_iterations' > MaxIterations
  PROVE  ResolveInv'
  BY Zenon DEF ResolveInv, TypeOK, PanicsOnlyAtLimit, Tokens

LEMMA StopStep ==
  ASSUME ResolveInv, InLoop, Counted, NEW why, why \notin {"running", "ok"}, Stop(why),
         why = "panic" => ~ WithinLimit
  PROVE  ResolveInv' /\ Walked' = Walk!Failed(why)
<1>1. outcome = "running"
  BY Zenon DEF InLoop
<1>2. num_iterations' = num_iterations + 1
  BY Zenon DEF Counted
<1>3. /\ num_symlinks' \in 0 .. MaxSymlinks + 1
      /\ num_iterations' \in 0 .. MaxIterations + 1
      /\ why = "panic" => num_iterations' > MaxIterations
  <2>1. num_symlinks' = num_symlinks
    BY Zenon DEF Stop
  <2> QED
    BY <1>1, <1>2, <2>1, CounterFacts DEF WithinLimit
<1>4. ResolveInv'
  BY Zenon, <1>1, <1>3, CounterFacts, FailStep DEF Stop, args
<1> QED
  BY Zenon, <1>4, FailedFacts DEF Stop

LEMMA PanicStep ==
  ASSUME ResolveInv, Panic
  PROVE  ResolveInv' /\ Walk!Panic
<1>1. HasName /\ Walk!HasNext /\ Walked.steps = num_iterations /\ outcome = "running"
  BY Zenon, LoopFacts, WalkFacts DEF Panic, InLoop
<1>2. ~ WithinLimit
  BY Zenon, <1>1 DEF Panic
<1>3. num_iterations >= MaxIterations
  BY <1>1, <1>2, CounterFacts DEF WithinLimit
<1>4. ResolveInv' /\ Walked' = Walk!Failed("panic")
  BY Zenon, <1>2, StopStep DEF Panic
<1> QED
  BY Zenon, <1>1, <1>3, <1>4 DEF Walk!Panic

(* An iteration within the limit is a step the walk may take. *)
LEMMA GoesOn ==
  ASSUME ResolveInv, InLoop, WithinLimit
  PROVE  Walk!Goes
<1>1. Walk!HasNext /\ Walked.steps = num_iterations /\ outcome = "running"
  BY Zenon, WalkFacts DEF InLoop
<1>2. num_iterations < MaxIterations
  BY <1>1, CounterFacts DEF WithinLimit
<1> QED
  BY Zenon, <1>1, <1>2 DEF Walk!Goes

LEMMA LookUpFailsStep ==
  ASSUME ResolveInv, ParentNotADirectory \/ Encrypted \/ NotFound
  PROVE  ResolveInv' /\ Walk!LookUpFails
<1>1. InLoop /\ WithinLimit
  BY Zenon DEF ParentNotADirectory, Encrypted, NotFound, CanLookUp
<1>2. /\ Walked.inode = inode /\ Walk!Goes /\ Walk!comp = comp
  BY Zenon, <1>1, WalkFacts, GoesOn
<1>3. CASE ParentNotADirectory
  <2>1. ResolveInv' /\ Walked' = Walk!Failed("NotADirectory")
    BY Zenon, <1>1, <1>3, StopStep DEF ParentNotADirectory
  <2> QED
    BY Zenon, <1>2, <1>3, <2>1 DEF ParentNotADirectory, Walk!LookUpFails, Walk!IsDir, IsDir
<1>4. CASE Encrypted
  <2>1. ResolveInv' /\ Walked' = Walk!Failed("Encrypted")
    BY Zenon, <1>1, <1>4, StopStep DEF Encrypted
  <2> QED
    BY Zenon, <1>2, <1>4, <2>1 DEF Encrypted, CanLookUp, Walk!LookUpFails, Walk!IsDir, IsDir
<1>5. CASE NotFound
  <2>1. ResolveInv' /\ Walked' = Walk!Failed("NotFound")
    BY Zenon, <1>1, <1>5, StopStep DEF NotFound
  <2> QED
    BY Zenon, <1>2, <1>5, <2>1
       DEF NotFound, CanLookUp, Walk!LookUpFails, Walk!CanLookUp, Walk!Exists, Walk!IsDir, IsDir
<1> QED
  BY Zenon, <1>3, <1>4, <1>5

(* A component was found. *)
LEMMA FoundFacts ==
  ASSUME ResolveInv, Found
  PROVE  /\ InLoop /\ Walk!Exists /\ Walk!child = child_inode
         /\ inode \in DOMAIN tree /\ tree[inode].kind = "dir" /\ ~ tree[inode].encrypted
         /\ comp \in DOMAIN tree[inode].entries
         /\ child_inode \in DOMAIN tree
         /\ num_iterations' = num_iterations + 1 /\ num_iterations + 1 <= MaxIterations
<1>1. /\ InLoop /\ tree[inode].kind = "dir" /\ ~ tree[inode].encrypted
      /\ comp \in DOMAIN tree[inode].entries
      /\ num_iterations' = num_iterations + 1 /\ num_iterations + 1 <= MaxIterations
  BY Zenon DEF Found, CanLookUp, IsDir, Counted, WithinLimit
<1>2. inode \in DOMAIN tree /\ tree \in Trees
  BY Zenon DEF ResolveInv, TypeOK
<1>3. child_inode \in DOMAIN tree
  BY Zenon, <1>1, <1>2, TreeFacts DEF child_inode
<1>4. Walked.inode = inode /\ Walk!Goes /\ Walk!comp = comp
  BY Zenon, <1>1, WalkFacts, GoesOn DEF WithinLimit
<1>5. Walk!Exists /\ Walk!child = child_inode
  BY Zenon, <1>1, <1>4 DEF Walk!Exists, Walk!CanLookUp, Walk!IsDir, Walk!child, child_inode
<1> QED
  BY Zenon, <1>1, <1>2, <1>3, <1>5

LEMMA RunningStep ==
  ASSUME ResolveInv, outcome = "running", outcome' = "running",
         tree' = tree, follow' = follow,
         Located(path', index'), Leads(tree, Passed(path', index'), inode'),
         inode' \in DOMAIN tree, follow = "All" => tree[inode'].kind # "link",
         num_symlinks' \in Nat, num_symlinks' <= MaxSymlinks,
         num_iterations' \in Nat, num_iterations' <= MaxIterations,
         index' \div 2 <= num_iterations', Len(path') <= MaxPathLen
  PROVE  ResolveInv'
<1>1. tree' \in Trees
  BY Zenon DEF ResolveInv
<1>2. TypeOK'
  <2>1. path' \in Seq(Tokens) /\ index' \in 1 .. Len(path')
    BY Zenon DEF Located, Alternates
  <2>2. num_symlinks' \in 0 .. MaxSymlinks + 1 /\ num_iterations' \in 0 .. MaxIterations + 1
    BY ResolveAssumption
  <2> QED
    BY Zenon, <2>1, <2>2 DEF TypeOK, Tokens
<1>3. Running'
  BY Zenon DEF Running, IsSymlink
<1> QED
  BY Zenon, <1>1, <1>2, <1>3 DEF ResolveInv, PanicsOnlyAtLimit

(* What an iteration that is not at the end of resolution has at hand *)
LEMMA HereFacts ==
  ASSUME ResolveInv, InLoop
  PROVE  /\ Alternates(path) /\ path \in Seq(Tokens)
         /\ index \in 1 .. Len(path) /\ index % 2 = 1
         /\ EndWithSep(path, index) \in index .. Len(path)
         /\ EndWithSep(path, index) % 2 = 1 \/ EndWithSep(path, index) = Len(path)
         /\ EndWithSep(path, index) \div 2 = index \div 2 + 1
         /\ Ahead(path, EndWithSep(path, index)) = <<>> <=> EndWithSep(path, index) = Len(path)
         /\ Passed(path, EndWithSep(path, index)) = Append(Passed(path, index), comp)
         /\ Passed(path, index) \in Seq(Tokens)
         /\ Leads(tree, Passed(path, index), inode)
         /\ follow = "All" => ~ IsSymlink(inode)
<1>1. AtComponent(path, index)
  BY Zenon, LoopFacts
<1>2. /\ Alternates(path) /\ path \in Seq(Tokens) /\ Len(path) \in Nat /\ index \in Nat
      /\ index \in 1 .. Len(path) /\ index % 2 = 1 /\ index \in 0 .. Len(path)
  BY <1>1 DEF AtComponent, Alternates
<1>3. /\ EndWithSep(path, index) \in index + 1 .. Len(path)
      /\ EndWithSep(path, index) % 2 = 1 \/ EndWithSep(path, index) = Len(path)
      /\ EndWithSep(path, index) \div 2 = index \div 2 + 1
      /\ Ahead(path, EndWithSep(path, index)) = <<>> <=> EndWithSep(path, index) = Len(path)
      /\ Passed(path, EndWithSep(path, index)) = Append(Passed(path, index), comp)
  BY Zenon, <1>1, StepFacts DEF comp
<1>4. EndWithSep(path, index) \in index .. Len(path)
  BY <1>2, <1>3
<1>5. Passed(path, index) \in Seq(Tokens)
  BY Zenon, <1>2, PassedFacts
<1>6. Leads(tree, Passed(path, index), inode) /\ (follow = "All" => ~ IsSymlink(inode))
  BY Zenon DEF ResolveInv, Running, InLoop
<1> QED
  BY Zenon, <1>2, <1>3, <1>4, <1>5, <1>6

LEMMA DotStep ==
  ASSUME ResolveInv, Dot
  PROVE  ResolveInv' /\ Walk!Stay
<1> DEFINE c == EndWithSep(path, index)
<1>1. Found /\ InLoop /\ comp = "." /\ outcome = "running"
  BY Zenon, FoundFacts DEF Dot, InLoop
<1>2. /\ path' = Cut(path, index, c) /\ index' = index /\ inode' = inode /\ tree' = tree
      /\ follow' = follow /\ num_symlinks' = num_symlinks /\ outcome' = "running"
  BY Zenon, <1>1, LoopFacts DEF Dot, Splice, Cut, args
<1>3. /\ Alternates(path') /\ Len(path') \in index .. Len(path)
      /\ Passed(path', index) = Passed(path, index)
      /\ Ahead(path', index) = Ahead(path, c)
      /\ EndsInSep(path') <=> (EndsInSep(path) \/ c = Len(path))
  BY Zenon, <1>1, <1>2, HereFacts, CutFacts
<1>4. /\ Located(path', index') /\ Len(path') <= MaxPathLen /\ index' \div 2 <= num_iterations'
      /\ num_iterations' \in Nat /\ num_iterations' <= MaxIterations
  <2>1. index \in 1 .. Len(path')
    BY <1>1, <1>3, CounterFacts, HereFacts
  <2>2. Located(path', index')
    BY Zenon, <1>1, <1>2, <1>3, <2>1, HereFacts DEF Located
  <2>3. /\ num_iterations \in Nat /\ MaxIterations \in Nat /\ MaxPathLen \in Nat
        /\ num_iterations' = num_iterations + 1 /\ num_iterations + 1 <= MaxIterations
        /\ index' = index /\ index \in Nat /\ index \div 2 <= num_iterations
    BY Zenon, <1>1, <1>2, CounterFacts, FoundFacts
  <2>4. Len(path') \in Nat /\ Len(path') <= Len(path) /\ Len(path) \in Nat
    BY <1>1, <1>3, CounterFacts
  <2>5. Len(path') <= MaxPathLen
    BY <1>1, <2>3, <2>4, CounterFacts
  <2>6. index' \div 2 <= num_iterations' /\ num_iterations' \in Nat /\ num_iterations' <= MaxIterations
    BY <2>3
  <2> QED
    BY Zenon, <2>2, <2>5, <2>6
<1>5. ResolveInv'
  <2>1. Leads(tree, Passed(path', index'), inode') /\ (follow = "All" => tree[inode'].kind # "link")
    BY Zenon, <1>1, <1>2, <1>3, HereFacts DEF IsSymlink
  <2> QED
    BY Zenon, <1>1, <1>2, <1>4, <2>1, CounterFacts, RunningStep
<1>6. Walked' = Walk!Walking(inode, Passed(path, index), Ahead(path, c), Walked.slash, num_symlinks,
                            num_iterations + 1)
  <2>1. Ahead(path, c) = <<>> <=> c = Len(path)
    BY Zenon, <1>1, HereFacts
  <2>2. (Walked.slash <=> EndsInSep(path)) /\ tree[inode].kind = "dir"
    BY Zenon, <1>1, WalkFacts, FoundFacts
  <2> HIDE DEF c
  <2>3. (EndsInSep(path') /\ ~ (Ahead(path, c) = <<>> /\ tree[inode].kind = "dir"))
           <=> (Walked.slash /\ ~ (Ahead(path, c) = <<>> /\ tree[inode].kind = "dir"))
    BY Zenon, <1>3, <2>1, <2>2
  <2> QED
    BY Zenon, <1>1, <1>2, <1>3, <2>3, FoundFacts, WalkingFacts
<1> HIDE DEF c
<1>7. Walk!Stay
  BY Zenon, <1>1, <1>6, WalkFacts, FoundFacts DEF Walk!Stay, c
<1> QED
  BY Zenon, <1>5, <1>7

LEMMA DotDotStep ==
  ASSUME ResolveInv, DotDot
  PROVE  ResolveInv' /\ Walk!Up
<1> DEFINE c == EndWithSep(path, index)
           a == find_parent_component_start
           old == Passed(path, index)
           names == IF old = <<>> THEN <<>> ELSE SubSeq(old, 1, Len(old) - 1)
<1>1. Found /\ InLoop /\ comp = ".." /\ outcome = "running"
  BY Zenon, FoundFacts DEF DotDot, InLoop
<1>2. /\ path' = Cut(path, a, c) /\ index' = a /\ inode' = child_inode /\ tree' = tree
      /\ follow' = follow /\ num_symlinks' = num_symlinks /\ outcome' = "running"
  BY Zenon, <1>1, LoopFacts DEF DotDot, Splice, Cut, args
<1>3. /\ a \in 1 .. Len(path) /\ a % 2 = 1 /\ a <= index /\ a \in Nat
      /\ Passed(path, a) = names
      /\ old = <<>> <=> index = 1
  <2>1. a = IF index = 1 THEN 1 ELSE index - 2
    BY Zenon, <1>1, LoopFacts
  <2>2. /\ index \in 1 .. Len(path) /\ index % 2 = 1 /\ path \in Seq(Tokens) /\ index \in Nat
    BY <1>1, HereFacts
  <2>3. /\ index = 1 => old = <<>>
        /\ index # 1 => /\ index - 2 \in 1 .. Len(path) /\ (index - 2) % 2 = 1
                        /\ old # <<>>
                        /\ Passed(path, index - 2) = SubSeq(old, 1, Len(old) - 1)
    BY Zenon, <2>2, ParentFacts
  <2> HIDE DEF a, old
  <2>4. CASE index = 1
    <3>1. a = 1 /\ Passed(path, a) = <<>>
      BY Zenon, <2>1, <2>3, <2>4 DEF old
    <3> QED
      BY <2>2, <2>3, <2>4, <3>1
  <2>5. CASE index # 1
    BY <2>1, <2>2, <2>3, <2>5
  <2> QED
    BY Zenon, <2>4, <2>5
<1> HIDE DEF a, names
<1>4. /\ Alternates(path') /\ Len(path') \in a .. Len(path)
      /\ Passed(path', a) = names
      /\ Ahead(path', a) = Ahead(path, c)
      /\ EndsInSep(path') <=> (EndsInSep(path) \/ c = Len(path))
  <2>1. c \in a .. Len(path)
    <3>1. c \in index .. Len(path)
      BY Zenon, <1>1, HereFacts
    <3> HIDE DEF c
    <3> QED
      BY <1>1, <1>3, <3>1, CounterFacts
  <2>2. Alternates(path) /\ (c % 2 = 1 \/ c = Len(path))
    BY Zenon, <1>1, HereFacts
  <2> HIDE DEF c
  <2> QED
    BY Zenon, <1>2, <1>3, <2>1, <2>2, CutFacts
<1>5. /\ Located(path', index') /\ Len(path') <= MaxPathLen /\ index' \div 2 <= num_iterations'
      /\ num_iterations' \in Nat /\ num_iterations' <= MaxIterations
  <2>1. a \in 1 .. Len(path')
    BY <1>1, <1>3, <1>4, CounterFacts
  <2>2. Located(path', index')
    BY Zenon, <1>1, <1>2, <1>3, <1>4, <2>1 DEF Located
  <2>3. a \div 2 <= index \div 2
    BY <1>1, <1>3, CounterFacts
  <2>4. /\ num_iterations' = num_iterations + 1 /\ num_iterations + 1 <= MaxIterations
    BY Zenon, <1>1, FoundFacts
  <2>5. Len(path') <= MaxPathLen
    BY <1>1, <1>3, <1>4, CounterFacts
  <2>6. a \div 2 <= num_iterations + 1
    BY <1>1, <1>3, <2>3, CounterFacts
  <2> QED
    BY <1>1, <1>2, <2>2, <2>4, <2>5, <2>6, CounterFacts
<1>6. Leads(tree, names, child_inode) /\ tree[child_inode].kind = "dir" /\ child_inode \in DOMAIN tree
  <2>1. /\ Leads(tree, old, inode) /\ old \in Seq(Tokens) /\ tree \in Trees
        /\ tree[inode].kind = "dir" /\ ".." \in DOMAIN tree[inode].entries
        /\ child_inode = tree[inode].entries[".."] /\ child_inode \in DOMAIN tree
    BY Zenon, <1>1, CounterFacts, HereFacts, FoundFacts DEF child_inode
  <2> HIDE DEF old
  <2>2. CASE old = <<>>
    <3>1. inode = Root
      BY Zenon, <2>1, <2>2, LeadsNowhere
    <3>2. child_inode = Root /\ tree[Root].kind = "dir"
      BY Zenon, <2>1, <3>1, TreeFacts
    <3> QED
      BY Zenon, <2>1, <2>2, <3>2, LeadsToRoot DEF names
  <2>3. CASE old # <<>>
    BY Zenon, <2>1, <2>3, LeadsUp DEF names
  <2> QED
    BY Zenon, <2>2, <2>3
<1>7. ResolveInv'
  <2>1. Leads(tree, Passed(path', index'), inode') /\ (follow = "All" => tree[inode'].kind # "link")
        /\ inode' \in DOMAIN tree
    BY Zenon, <1>2, <1>4, <1>6
  <2> QED
    BY Zenon, <1>1, <1>2, <1>5, <2>1, CounterFacts, RunningStep
<1>8. Walked' = Walk!Walking(child_inode, names, Ahead(path, c), Walked.slash, num_symlinks,
                            num_iterations + 1)
  <2>1. Ahead(path, c) = <<>> <=> c = Len(path)
    BY Zenon, <1>1, HereFacts
  <2>2. (Walked.slash <=> EndsInSep(path)) /\ tree[child_inode].kind = "dir"
    BY Zenon, <1>1, <1>6, WalkFacts
  <2> HIDE DEF c
  <2>3. (EndsInSep(path') /\ ~ (Ahead(path, c) = <<>> /\ tree[child_inode].kind = "dir"))
           <=> (Walked.slash /\ ~ (Ahead(path, c) = <<>> /\ tree[child_inode].kind = "dir"))
    BY Zenon, <1>4, <2>1, <2>2
  <2>4. num_iterations' = num_iterations + 1
    BY Zenon, <1>1, FoundFacts
  <2> QED
    BY Zenon, <1>2, <1>4, <2>3, <2>4, WalkingFacts
<1> HIDE DEF c
<1>9. Walk!Up
  <2>1. /\ Walk!Exists /\ Walk!comp = ".." /\ Walk!child = child_inode
        /\ Walk!Rest = Ahead(path, c) /\ Walked.names = old /\ Walked.links = num_symlinks
        /\ Walked.steps = num_iterations
    BY Zenon, <1>1, WalkFacts, FoundFacts DEF c
  <2> HIDE DEF old
  <2> QED
    BY Zenon, <1>8, <2>1 DEF Walk!Up, names
<1> QED
  BY Zenon, <1>7, <1>9

LEMMA NameFacts ==
  ASSUME ResolveInv, Found, IsName
  PROVE  Walk!IsName /\ (Walk!Follows <=> Follows)
<1>1. InLoop /\ Walk!Exists /\ Walk!child = child_inode
  BY Zenon, FoundFacts
<1>2. Walk!comp = comp /\ (Walk!Rest = <<>> <=> is_last_component)
  BY Zenon, <1>1, WalkFacts
<1> QED
  BY Zenon, <1>1, <1>2
     DEF Walk!IsName, Walk!Follows, Follows, IsName, Walk!IsSymlink, IsSymlink

LEMMA EnterStep ==
  ASSUME ResolveInv, Enter
  PROVE  ResolveInv' /\ Walk!Down
<1> DEFINE c == EndWithSep(path, index)
           names == Append(Passed(path, index), comp)
<1>1. Found /\ InLoop /\ IsName /\ ~ Follows /\ outcome = "running"
  BY Zenon, FoundFacts DEF Enter, InLoop
<1>2. /\ path' = path /\ index' = c /\ inode' = child_inode /\ tree' = tree
      /\ follow' = follow /\ num_symlinks' = num_symlinks /\ outcome' = "running"
  BY Zenon, <1>1, LoopFacts DEF Enter, args
<1>3. /\ Located(path', index') /\ Len(path') <= MaxPathLen /\ index' \div 2 <= num_iterations'
      /\ num_iterations' \in Nat /\ num_iterations' <= MaxIterations
  <2>1. /\ Alternates(path) /\ index \in 1 .. Len(path) /\ c \in index .. Len(path)
        /\ (c % 2 = 1 \/ c = Len(path)) /\ c \div 2 = index \div 2 + 1
    BY Zenon, <1>1, HereFacts
  <2> HIDE DEF c
  <2>2. c \in 1 .. Len(path)
    BY <1>1, <2>1, CounterFacts
  <2>3. index \div 2 + 1 <= num_iterations + 1
    BY <1>1, CounterFacts
  <2>4. num_iterations' = num_iterations + 1 /\ num_iterations + 1 <= MaxIterations
    BY Zenon, <1>1, FoundFacts
  <2>5. Located(path', index')
    BY Zenon, <1>2, <2>1, <2>2 DEF Located
  <2> QED
    BY <1>1, <1>2, <2>1, <2>3, <2>4, <2>5, CounterFacts
<1>4. Passed(path, c) = names
  BY Zenon, <1>1, HereFacts
<1>5. Leads(tree, names, child_inode) /\ child_inode \in DOMAIN tree
  <2>1. /\ Passed(path, index) \in Seq(Tokens) /\ Leads(tree, Passed(path, index), inode)
        /\ tree[inode].kind = "dir" /\ ~ tree[inode].encrypted /\ tree \in Trees
        /\ comp \in DOMAIN tree[inode].entries \ {".", ".."}
    BY Zenon, <1>1, CounterFacts, HereFacts, FoundFacts DEF IsName
  <2>2. Leads(tree, Append(Passed(path, index), comp), tree[inode].entries[comp])
    BY Zenon, <2>1, LeadsDown
  <2> QED
    BY Zenon, <1>1, <2>2, FoundFacts DEF child_inode
<1>6. ResolveInv'
  <2>1. follow = "All" => tree[child_inode].kind # "link"
    BY Zenon, <1>1 DEF Follows, IsSymlink
  <2> HIDE DEF c, names
  <2> QED
    BY Zenon, <1>1, <1>2, <1>3, <1>4, <1>5, <2>1, CounterFacts, RunningStep
<1>7. Walked' = Walk!Walking(child_inode, names, Ahead(path, c), Walked.slash, num_symlinks,
                            num_iterations + 1)
  <2>1. Walked.slash <=> EndsInSep(path)
    BY Zenon, <1>1, WalkFacts
  <2> HIDE DEF c, names
  <2> QED
    BY Zenon, <1>1, <1>2, <1>4, <2>1, FoundFacts, WalkingFacts
<1> HIDE DEF c, names
<1>8. Walk!Down
  <2>1. /\ Walk!IsName /\ ~ Walk!Follows /\ Walk!comp = comp /\ Walk!child = child_inode
        /\ Walk!Rest = Ahead(path, c) /\ Walked.names = Passed(path, index)
        /\ Walked.links = num_symlinks /\ Walked.steps = num_iterations
    BY Zenon, <1>1, WalkFacts, FoundFacts, NameFacts DEF c
  <2> QED
    BY Zenon, <1>7, <2>1 DEF Walk!Down, names
<1> QED
  BY Zenon, <1>6, <1>8

LEMMA LinkFailsStep ==
  ASSUME ResolveInv, TooManySymlinks \/ BadTarget
  PROVE  ResolveInv' /\ (Walk!TooManyLinks \/ Walk!Follow)
<1>1. /\ Found /\ IsName /\ Follows /\ num_symlinks' = num_symlinks + 1 /\ path' = path
      /\ inode' = inode /\ tree' = tree /\ outcome' \in {"TooManySymlinks", "SymlinkTarget"}
  BY Zenon DEF TooManySymlinks, BadTarget, args
<1>2. InLoop /\ outcome = "running" /\ num_iterations' = num_iterations + 1
  BY Zenon, <1>1, FoundFacts DEF InLoop
<1>3. /\ num_symlinks' \in 0 .. MaxSymlinks + 1 /\ num_iterations' \in 0 .. MaxIterations + 1
      /\ num_symlinks \in Nat /\ MaxSymlinks \in Nat
  BY SMTT(40), <1>1, <1>2, CounterFacts
<1>4. ResolveInv'
  BY Zenon, <1>1, <1>2, <1>3, CounterFacts, FailStep
<1>5. /\ Walk!IsName /\ Walk!Follows /\ Walked.links = num_symlinks /\ Walk!child = child_inode
  BY Zenon, <1>1, <1>2, WalkFacts, FoundFacts, NameFacts
<1>6. CASE TooManySymlinks
  <2>1. Walked' = Walk!Failed("TooManySymlinks")
    BY Zenon, <1>6, FailedFacts DEF TooManySymlinks
  <2>2. num_symlinks >= MaxSymlinks
    BY <1>3, <1>6 DEF TooManySymlinks
  <2> QED
    BY Zenon, <1>4, <1>5, <2>1, <2>2 DEF Walk!TooManyLinks
<1>7. CASE BadTarget
  <2>1. Walked' = Walk!Failed("SymlinkTarget")
    BY Zenon, <1>7, FailedFacts DEF BadTarget
  <2>2. num_symlinks < MaxSymlinks
    BY <1>3, <1>7 DEF BadTarget
  <2>3. ~ Walk!IsTarget(tree[child_inode].target)
    BY Zenon, <1>7 DEF BadTarget, IsTarget, Malformed, Walk!IsTarget, Walk!Malformed
  <2> QED
    BY Zenon, <1>4, <1>5, <2>1, <2>2, <2>3 DEF Walk!Follow
<1> QED
  BY Zenon, <1>6, <1>7

(* The walk's text of the path with a target in it is what the splice      *)
(* makes of the path.                                                      *)
LEMMA WrittenFacts ==
  ASSUME ResolveInv, InLoop, NEW t \in Seq(Tokens)
  PROVE  Walk!Written(t) = Spliced(path, IF is_absolute(t) THEN 0 ELSE index, index, t)
<1> DEFINE n == Len(path)
           m == index \div 2
           names == Passed(path, index)
           rest == Ahead(path, EndWithSep(path, index))
           x == Walk!Alternating(names, 2 * Len(names) + 1)
           k == 2 * Len(rest) + (IF Walked.slash THEN 1 ELSE 0)
           z == Walk!Alternating(rest, k)
<1>1. /\ Alternates(path) /\ path \in Seq(Tokens) /\ n \in Nat /\ index \in 1 .. n - 1
      /\ index \in Nat /\ index % 2 = 1 /\ m \in Nat /\ index = 2 * m + 1 /\ index \in 0 .. n
      /\ \A i \in 1 .. n : path[i] = SEPARATOR <=> i % 2 = 1
  <2>1. AtComponent(path, index)
    BY Zenon, LoopFacts
  <2> QED
    BY <2>1 DEF AtComponent, Alternates
<1>2. /\ Walked.names = names /\ Walk!Rest = rest /\ (Walked.slash <=> EndsInSep(path))
  BY Zenon, WalkFacts
<1>3. /\ Len(names) = m /\ \A i \in 1 .. m : names[i] = path[2 * i]
  BY Zenon, <1>1, PassedFacts
<1>4. /\ EndWithSep(path, index) \in 0 .. n /\ EndWithSep(path, index) \div 2 = m + 1
  <2>1. EndWithSep(path, index) \in index .. n /\ EndWithSep(path, index) \div 2 = m + 1
    BY Zenon, HereFacts
  <2> QED
    BY <1>1, <2>1
<1>5. /\ Len(rest) = n \div 2 - (m + 1)
      /\ \A i \in 1 .. n \div 2 - (m + 1) : rest[i] = path[2 * ((m + 1) + i)]
  <2> DEFINE e == EndWithSep(path, index)
  <2>1. /\ Len(rest) = n \div 2 - e \div 2
        /\ \A i \in 1 .. n \div 2 - e \div 2 : rest[i] = path[2 * (e \div 2 + i)]
    BY Zenon, <1>1, <1>4, AheadFacts
  <2>2. e \div 2 = m + 1
    BY Zenon, <1>4
  <2> HIDE DEF e
  <2> QED
    BY Zenon, <2>1, <2>2
<1>6. k = n - (index + 1) /\ k \in Nat
  <2>1. Walked.slash <=> n % 2 = 1
    <3>1. EndsInSep(path) <=> path[n] = SEPARATOR
      BY <1>1 DEF EndsInSep
    <3>2. n \in 1 .. n
      BY <1>1
    <3> QED
      BY Zenon, <1>1, <1>2, <3>1, <3>2
  <2>2. n % 2 \in {0, 1} /\ n = 2 * (n \div 2) + (n % 2)
    BY <1>1
  <2> HIDE DEF m, n, rest
  <2> QED
    BY <1>1, <1>5, <2>1, <2>2
<1> HIDE DEF k
<1>7. x = SubSeq(path, 1, index)
  <2> DEFINE w == SubSeq(path, 1, index)
  <2>1. /\ w \in Seq(Tokens) /\ Len(w) = index
        /\ \A i \in 1 .. index : w[i] = path[i]
    BY Zenon, <1>1, SubSeqFacts
  <2>2. x = [i \in 1 .. index |-> IF i % 2 = 1 THEN SEPARATOR ELSE names[i \div 2]]
    BY Zenon, <1>1, <1>3 DEF Walk!Alternating
  <2>3. ASSUME NEW i \in 1 .. index
        PROVE  path[i] = IF i % 2 = 1 THEN SEPARATOR ELSE names[i \div 2]
    <3>1. i \in 1 .. n
      BY <1>1
    <3>2. i % 2 # 1 => i \div 2 \in 1 .. m /\ 2 * (i \div 2) = i
      BY <1>1
    <3> HIDE DEF m, n, names
    <3> QED
      BY Zenon, <1>1, <1>3, <3>1, <3>2
  <2> HIDE DEF w, x, names
  <2>4. w = [i \in 1 .. index |-> w[i]]
    BY <1>1, <2>1
  <2>5. w = x
    BY Zenon, <2>1, <2>2, <2>3, <2>4
  <2> QED
    BY Zenon, <2>5 DEF w
<1>8. z = SubSeq(path, (index + 1) + 1, n)
  <2> DEFINE w == SubSeq(path, (index + 1) + 1, n)
  <2>1. w \in Seq(Tokens) /\ Len(w) = k /\ \A i \in 1 .. k : w[i] = path[(index + 1) + i]
    <3>1. index + 1 \in 0 .. n
      BY <1>1
    <3> QED
      BY Zenon, <1>1, <1>6, <3>1, SubSeqFacts
  <2>2. z = [i \in 1 .. k |-> IF i % 2 = 1 THEN SEPARATOR ELSE rest[i \div 2]]
    BY Zenon DEF Walk!Alternating
  <2>3. ASSUME NEW i \in 1 .. k
        PROVE  w[i] = IF i % 2 = 1 THEN SEPARATOR ELSE rest[i \div 2]
    <3> HIDE DEF w, rest
    <3>1. (index + 1) + i \in 1 .. n
      BY <1>1, <1>6
    <3>2. i % 2 = 1 => ((index + 1) + i) % 2 = 1
      BY <1>1, <1>6
    <3>3. i % 2 # 1 => /\ i \div 2 \in 1 .. n \div 2 - (m + 1)
                       /\ 2 * ((m + 1) + i \div 2) = (index + 1) + i
      BY <1>1, <1>6
    <3> HIDE DEF m, n
    <3> QED
      BY Zenon, <1>1, <1>5, <2>1, <3>1, <3>2, <3>3
  <2> HIDE DEF w, z, rest
  <2>4. w = [i \in 1 .. k |-> w[i]]
    BY <1>6, <2>1
  <2>5. w = z
    BY Zenon, <2>2, <2>3, <2>4
  <2> QED
    BY Zenon, <2>5 DEF w
<1>9. Walk!Written(t) = (IF is_absolute(t) THEN <<>> ELSE x) \o t \o z
  BY Zenon, <1>2 DEF Walk!Written, Walk!Absolute, is_absolute, k
<1>10. SubSeq(path, 1, 0) = <<>>
  BY <1>1
<1> HIDE DEF x, z
<1> QED
  BY Zenon, <1>7, <1>8, <1>9, <1>10 DEF Spliced

LEMMA SymlinkStep ==
  ASSUME ResolveInv, Symlink
  PROVE  ResolveInv' /\ Walk!Follow
<1> DEFINE target == tree[child_inode].target
           a == IF is_absolute(target) THEN 0 ELSE index
           j == IF is_absolute(target) THEN 1 ELSE index
           n == IF is_absolute(target) THEN Root ELSE inode
           r == Spliced(path, a, index, target)
           rest == Ahead(path, EndWithSep(path, index))
<1>1. Found /\ InLoop /\ IsName /\ Follows /\ outcome = "running"
  BY Zenon, FoundFacts DEF Symlink, InLoop
<1>2. /\ num_symlinks + 1 <= MaxSymlinks /\ IsTarget(target) /\ target # <<>>
      /\ num_symlinks' = num_symlinks + 1
      /\ tree' = tree /\ follow' = follow /\ inode' = n /\ index' = j
      /\ path' = IF ByteLen(r) > MaxPathLen THEN r ELSE path_dedup_sep(r)
      /\ outcome' = IF ByteLen(r) > MaxPathLen THEN "PathTooLong" ELSE "running"
  BY Zenon, <1>1, LoopFacts DEF Symlink, Splice, Spliced, args, IsTarget
<1>3. /\ AtComponent(path, index) /\ IsPath(target) /\ child_inode \in DOMAIN tree
      /\ tree \in Trees /\ Root \in DOMAIN tree /\ tree[Root].kind = "dir"
  BY Zenon, <1>1, CounterFacts, FoundFacts, LoopFacts, TreeFacts DEF Follows, IsSymlink
<1>4. r \in Seq(Tokens)
  <2>1. IsPath(r)
    BY Zenon, <1>2, <1>3, SpliceFacts
  <2> QED
    BY Zenon, <2>1 DEF IsPath, Tokens
<1>5. n \in DOMAIN tree /\ tree[n].kind = "dir"
  BY Zenon, <1>1, <1>3, FoundFacts
<1>6. /\ num_symlinks' \in Nat /\ num_symlinks' <= MaxSymlinks
      /\ num_symlinks' \in 0 .. MaxSymlinks + 1 /\ num_symlinks < MaxSymlinks
      /\ num_iterations' \in Nat /\ num_iterations' <= MaxIterations
      /\ num_iterations' \in 0 .. MaxIterations + 1 /\ num_iterations' = num_iterations + 1
  <2>1. /\ num_symlinks \in Nat /\ MaxSymlinks \in Nat
        /\ num_iterations \in Nat /\ MaxIterations \in Nat
        /\ num_iterations' = num_iterations + 1 /\ num_iterations + 1 <= MaxIterations
    BY Zenon, <1>1, CounterFacts, FoundFacts
  <2>2. num_symlinks' = num_symlinks + 1 /\ num_symlinks + 1 <= MaxSymlinks
    BY Zenon, <1>1, <1>2
  <2> QED
    BY <2>1, <2>2
<1>7. /\ Walk!IsName /\ Walk!Follows /\ Walked.links = num_symlinks /\ Walk!child = child_inode
      /\ Walk!Rest = rest /\ Walked.names = Passed(path, index) /\ Walked.inode = inode
      /\ Walked.slash <=> EndsInSep(path)
      /\ Walked.steps = num_iterations
  BY Zenon, <1>1, WalkFacts, FoundFacts, NameFacts
<1>7a. /\ tree[Walk!child].target = target /\ Walk!IsTarget(target)
       /\ Walk!ByteLen(Walk!Written(target)) = ByteLen(r)
  <2>1. target \in Seq(Tokens)
    BY Zenon, <1>3 DEF IsPath, Tokens
  <2> HIDE DEF target
  <2>2. Walk!Written(target) = r
    BY Zenon, <1>1, <2>1, WrittenFacts
  <2>3. Walk!ByteLen(r) = ByteLen(r)
    BY Zenon DEF Walk!ByteLen, ByteLen
  <2>4. Walk!IsTarget(target)
    BY Zenon, <1>2 DEF IsTarget, Malformed, Walk!IsTarget, Walk!Malformed
  <2> QED
    BY Zenon, <1>7, <2>2, <2>3, <2>4 DEF target
<1> HIDE DEF n, r, target
<1>8. CASE ByteLen(r) > MaxPathLen
  <2>1. outcome' = "PathTooLong" /\ path' = r
    BY Zenon, <1>2, <1>8
  <2>2. ResolveInv'
    BY Zenon, <1>1, <1>2, <1>4, <1>5, <1>6, <2>1, FailStep
  <2>3. Walked' = Walk!Failed("PathTooLong")
    BY Zenon, <2>1, FailedFacts
  <2> QED
    BY Zenon, <1>6, <1>7, <1>8, <1>7a, <2>2, <2>3 DEF Walk!Follow
<1>9. CASE ~ (ByteLen(r) > MaxPathLen)
  <2> DEFINE comps == Walk!Components(target) \o rest
             names == IF is_absolute(target) THEN <<>> ELSE Passed(path, index)
             slash == Walked.slash \/ (rest = <<>> /\ EndsInSep(target))
  <2>1. outcome' = "running" /\ path' = path_dedup_sep(r)
    BY Zenon, <1>2, <1>9
  <2>2. /\ Alternates(path') /\ j \in 1 .. Len(path') /\ j % 2 = 1
        /\ Len(path') <= Len(r)
        /\ Passed(path', j) = Passed(path, a)
        /\ Ahead(path', j) = Walk!Components(target) \o Tail(Ahead(path, index))
        /\ EndsInSep(path') <=> EndsInSep(path)
                                  \/ (Tail(Ahead(path, index)) = <<>> /\ EndsInSep(target))
    <3>1. /\ a = IF is_absolute(target) THEN 0 ELSE index
          /\ j = IF is_absolute(target) THEN 1 ELSE index
      BY Zenon
    <3> HIDE DEF a, j
    <3>2. path' = path_dedup_sep(Spliced(path, a, index, target))
      BY Zenon, <2>1 DEF r
    <3>3. AtComponent(path, index) /\ IsPath(target) /\ target # <<>>
      BY Zenon, <1>2, <1>3
    <3>4. Followed(path, index, target, a, j, path')
      BY Zenon, <3>1, <3>2, <3>3 DEF Followed
    <3> QED
      BY Zenon, <3>4, FollowFacts DEF r
  <2>3. Tail(Ahead(path, index)) = rest
    BY Zenon, <1>3, StepFacts
  <2>4. Passed(path, a) = names
    <3>1. Passed(path, 0) = <<>>
      BY DEF Passed
    <3> QED
      BY Zenon, <3>1
  <2>5. Leads(tree, names, n)
    BY Zenon, <1>1, <1>3, HereFacts, LeadsToRoot DEF n
  <2> HIDE DEF a, names, rest
  <2>6. Len(path') <= MaxPathLen
    <3>1. ByteLen(r) \in Nat /\ Len(r) <= ByteLen(r) /\ Len(r) \in Nat /\ Len(path') \in Nat
      BY <1>4, <2>2, ByteLenFacts DEF Alternates
    <3> QED
      BY <1>1, <1>9, <2>2, <3>1, CounterFacts
  <2>7. j \div 2 <= num_iterations'
    BY <1>1, <1>6, CounterFacts
  <2> HIDE DEF j
  <2>8. ResolveInv'
    <3>1. Located(path', index')
      BY Zenon, <1>2, <2>2 DEF Located
    <3>2. Leads(tree, Passed(path', index'), inode') /\ (follow = "All" => tree[inode'].kind # "link")
          /\ inode' \in DOMAIN tree
      BY Zenon, <1>2, <1>5, <2>2, <2>4, <2>5
    <3> QED
      BY Zenon, <1>1, <1>2, <1>6, <2>1, <2>6, <2>7, <3>1, <3>2, RunningStep
  <2>9. Walked' = Walk!Walking(n, names, comps, slash, num_symlinks + 1, num_iterations + 1)
    <3>1. EndsInSep(path') <=> slash
      BY Zenon, <1>7, <2>2, <2>3
    <3>2. Ahead(path', index') = comps /\ Passed(path', index') = names
      BY Zenon, <1>2, <2>2, <2>3, <2>4
    <3> HIDE DEF comps, slash
    <3> QED
      BY Zenon, <1>2, <1>6, <2>1, <3>1, <3>2, WalkingFacts
  <2>10. Walk!Follow
    <3>1. (Walk!EndsInSep(target) <=> EndsInSep(target)) /\ (Walk!Absolute(target) <=> is_absolute(target))
      BY Zenon DEF Walk!EndsInSep, EndsInSep, Walk!Absolute, is_absolute
    <3>2. /\ n = IF Walk!Absolute(target) THEN Root ELSE Walked.inode
          /\ names = IF Walk!Absolute(target) THEN <<>> ELSE Walked.names
      BY Zenon, <1>7, <3>1 DEF n, names
    <3>3. Walked' = Walk!Walking(n, names, comps, slash, Walked.links + 1, Walked.steps + 1)
      <4> HIDE DEF comps, slash
      <4> QED
        BY Zenon, <1>7, <2>9
    <3>4. slash = (Walked.slash \/ (Walk!Rest = <<>> /\ Walk!EndsInSep(target)))
      <4>1. EndsInSep(target) = Walk!EndsInSep(target)
        BY Zenon DEF Walk!EndsInSep, EndsInSep
      <4> QED
        BY Zenon, <1>7, <4>1
    <3>5. comps = Walk!Components(target) \o Walk!Rest
      BY Zenon, <1>7
    <3> HIDE DEF comps, slash
    <3> QED
      BY Zenon, <1>6, <1>7, <1>9, <1>7a, <3>2, <3>3, <3>4, <3>5 DEF Walk!Follow
  <2> QED
    BY Zenon, <2>8, <2>10
<1> QED
  BY Zenon, <1>8, <1>9

LEMMA CanonicalFacts ==
  ASSUME NEW names \in Seq(Tokens)
  PROVE  /\ Walk!Canonical(names) \in Seq(Tokens)
         /\ Len(Walk!Canonical(names)) = IF names = <<>> THEN 1 ELSE 2 * Len(names)
         /\ \A i \in 1 .. Len(Walk!Canonical(names)) :
               Walk!Canonical(names)[i] = IF i % 2 = 1 THEN SEPARATOR ELSE names[i \div 2]
<1> DEFINE n == IF names = <<>> THEN 1 ELSE 2 * Len(names)
           q == Walk!Canonical(names)
<1>1. n \in Nat
  OBVIOUS
<1>2. q = [i \in 1 .. n |-> IF i % 2 = 1 THEN SEPARATOR ELSE names[i \div 2]]
  BY Zenon DEF Walk!Canonical, Walk!Alternating
<1>3. ASSUME NEW i \in 1 .. n
      PROVE  (IF i % 2 = 1 THEN SEPARATOR ELSE names[i \div 2]) \in Tokens
  <2>1. CASE i % 2 = 1
    BY Zenon, <2>1 DEF Tokens
  <2>2. CASE i % 2 # 1
    <3>1. i \div 2 \in 1 .. Len(names)
      BY <2>2
    <3> QED
      BY <2>2, <3>1
  <2> QED
    BY Zenon, <2>1, <2>2
<1> HIDE DEF n, q
<1>4. q \in [1 .. n -> Tokens] /\ \A i \in 1 .. n : q[i] = IF i % 2 = 1 THEN SEPARATOR ELSE names[i \div 2]
  BY Zenon, <1>2, <1>3
<1>5. q \in Seq(Tokens) /\ Len(q) = n
  BY <1>1, <1>4
<1> QED
  BY Zenon, <1>4, <1>5 DEF n, q

(* A path that alternates and does not end in a separator is canonical. *)
LEMMA AlternatingIsCanonical ==
  ASSUME NEW p, Alternates(p), Len(p) > 0, Len(p) = 1 \/ Len(p) % 2 = 0
  PROVE  p = Walk!Canonical(Comps(p))
<1> DEFINE q == Walk!Canonical(Comps(p))
<1>1. p \in Seq(Tokens) /\ Len(p) \in Nat
  BY DEF Alternates
<1>2. /\ Comps(p) \in Seq(Tokens) /\ Len(Comps(p)) = Len(p) \div 2
      /\ \A k \in 1 .. Len(p) \div 2 : Comps(p)[k] = p[2 * k]
  BY Zenon, <1>1, CompsFacts
<1>3. /\ q \in Seq(Tokens)
      /\ Len(q) = IF Comps(p) = <<>> THEN 1 ELSE 2 * Len(Comps(p))
      /\ \A i \in 1 .. Len(q) : q[i] = IF i % 2 = 1 THEN SEPARATOR ELSE Comps(p)[i \div 2]
  BY Zenon, <1>2, CanonicalFacts
<1> HIDE DEF q
<1>4. Len(q) = Len(p)
  <2>1. Comps(p) = <<>> <=> Len(p) \div 2 = 0
    BY <1>2
  <2> QED
    BY <1>1, <1>2, <1>3, <2>1
<1>5. ASSUME NEW i \in 1 .. Len(p) PROVE p[i] = q[i]
  <2>1. CASE i % 2 = 1
    BY Zenon, <1>3, <1>4, <2>1 DEF Alternates
  <2>2. CASE i % 2 # 1
    <3>1. i \div 2 \in 1 .. Len(p) \div 2 /\ 2 * (i \div 2) = i
      BY <1>1, <2>2
    <3>2. q[i] = Comps(p)[i \div 2]
      BY Zenon, <1>3, <1>4, <2>2
    <3> QED
      BY Zenon, <1>2, <3>1, <3>2
  <2> QED
    BY Zenon, <2>1, <2>2
<1>6. p = q
  BY Zenon, <1>1, <1>3, <1>4, <1>5, EqualSequences
<1> QED
  BY Zenon, <1>6 DEF q

LEMMA FinishStep ==
  ASSUME ResolveInv, Finish
  PROVE  ResolveInv' /\ Walk!Arrive
<1> DEFINE n == Len(path)
           names == Comps(path)
           trailing == n > 1 /\ path[n] = SEPARATOR
<1>1. /\ outcome = "running" /\ index >= n /\ tree' = tree /\ follow' = follow
      /\ inode' = inode /\ num_symlinks' = num_symlinks /\ num_iterations' = num_iterations
      /\ path' = IF trailing /\ IsDir(inode) THEN SubSeq(path, 1, n - 1) ELSE path
      /\ outcome' = IF trailing /\ ~ IsDir(inode) THEN "NotADirectory" ELSE "ok"
  BY Zenon DEF Finish, args
<1>2. /\ Alternates(path) /\ path \in Seq(Tokens) /\ n \in Nat \ {0} /\ index = n
      /\ Leads(tree, names, inode) /\ (follow = "All" => ~ IsSymlink(inode))
  <2>1. Located(path, index) /\ Leads(tree, Passed(path, index), inode)
        /\ (follow = "All" => ~ IsSymlink(inode))
    BY Zenon, <1>1 DEF ResolveInv, Running
  <2>2. Alternates(path) /\ path \in Seq(Tokens) /\ n \in Nat \ {0} /\ index = n
    BY <1>1, <2>1 DEF Located, Alternates
  <2> QED
    BY Zenon, <2>1, <2>2 DEF Comps
<1>3. /\ names \in Seq(Tokens) /\ Len(names) = n \div 2
  BY Zenon, <1>2, CompsFacts
<1>4. Ahead(path, index) = <<>>
  <2>1. Ahead(path, n) \in Seq(Tokens) /\ Len(Ahead(path, n)) = n \div 2 - n \div 2
    <3>1. n \in 0 .. n
      BY <1>2
    <3> QED
      BY Zenon, <1>2, <3>1, AheadFacts
  <2>2. n \div 2 - n \div 2 = 0
    BY <1>2
  <2> QED
    BY <1>2, <2>1, <2>2
<1>5. /\ Walked.at = "walking" /\ Walked.inode = inode /\ Walked.comps = <<>>
      /\ Walked.names = names
      /\ Walked.slash <=> EndsInSep(path) /\ ~ IsDir(inode)
  BY Zenon, <1>1, <1>2, <1>4 DEF Walked, Comps
<1>6. n = 1 => IsDir(inode)
  <2> SUFFICES ASSUME n = 1 PROVE IsDir(inode)
    BY Zenon
  <2>1. names = <<>>
    BY <1>3
  <2>2. inode = Root /\ tree \in Trees
    BY Zenon, <1>1, <1>2, <2>1, LeadsNowhere, CounterFacts
  <2> QED
    BY Zenon, <2>2, TreeFacts DEF IsDir
<1>7. Walked.slash <=> trailing /\ ~ IsDir(inode)
  <2>1. EndsInSep(path) <=> path[n] = SEPARATOR
    BY <1>2 DEF EndsInSep
  <2>2. n > 1 \/ n = 1
    BY <1>2
  <2> QED
    BY Zenon, <1>5, <1>6, <2>1, <2>2
<1> HIDE DEF names
<1>8. CASE trailing /\ ~ IsDir(inode)
  <2>1. outcome' = "NotADirectory" /\ path' = path
    BY Zenon, <1>1, <1>8
  <2>2. ResolveInv'
    <3>1. num_symlinks' \in 0 .. MaxSymlinks + 1 /\ num_iterations' \in 0 .. MaxIterations + 1
      BY <1>1, CounterFacts
    <3> QED
      BY Zenon, <1>1, <1>2, <2>1, <3>1, CounterFacts, FailStep
  <2>3. Walked' = Walk!Failed("NotADirectory")
    BY Zenon, <2>1, FailedFacts
  <2> QED
    BY Zenon, <1>5, <1>7, <1>8, <2>2, <2>3 DEF Walk!Arrive
<1>9. CASE ~ (trailing /\ ~ IsDir(inode))
  <2>1. outcome' = "ok"
    BY Zenon, <1>1, <1>9
  <2>2. Alternates(path') /\ Len(path') > 0 /\ (Len(path') = 1 \/ Len(path') % 2 = 0)
        /\ Comps(path') = names /\ Len(path') <= n
    <3>1. CASE trailing
      <4> DEFINE q == SubSeq(path, 1, n - 1)
      <4>1. path' = q
        BY Zenon, <1>1, <1>9, <3>1
      <4>2. n % 2 = 1 /\ n > 1
        BY <1>2, <3>1 DEF Alternates
      <4>3. q \in Seq(Tokens) /\ Len(q) = n - 1 /\ \A k \in 1 .. n - 1 : q[k] = path[k]
        <5>1. n - 1 \in 0 .. n
          BY <1>2
        <5> QED
          BY Zenon, <1>2, <5>1, SubSeqFacts
      <4> HIDE DEF q
      <4>4. Alternates(q)
        <5>1. \A k \in 1 .. n - 1 : k \in 1 .. n
          BY <1>2
        <5> QED
          BY Zenon, <1>2, <4>3, <5>1 DEF Alternates
      <4>5. Comps(q) = names
        <5>1. /\ Comps(q) \in Seq(Tokens) /\ Len(Comps(q)) = (n - 1) \div 2
              /\ \A k \in 1 .. (n - 1) \div 2 : Comps(q)[k] = q[2 * k]
          BY Zenon, <4>3, CompsFacts
        <5>2. \A k \in 1 .. n \div 2 : names[k] = path[2 * k]
          BY Zenon, <1>2, CompsFacts DEF names
        <5>3. (n - 1) \div 2 = n \div 2 /\ \A k \in 1 .. n \div 2 : 2 * k \in 1 .. n - 1
          BY <1>2, <4>2
        <5> HIDE DEF n
        <5> QED
          BY Zenon, <1>3, <4>3, <5>1, <5>2, <5>3, EqualSequences
      <4>6. Len(q) > 0 /\ Len(q) % 2 = 0 /\ Len(q) <= n
        <5>1. n - 1 > 0 /\ (n - 1) % 2 = 0 /\ n - 1 <= n
          BY <1>2, <4>2
        <5> QED
          BY Zenon, <4>3, <5>1
      <4> QED
        BY Zenon, <4>1, <4>4, <4>5, <4>6
    <3>2. CASE ~ trailing
      <4>1. path' = path
        BY Zenon, <1>1, <3>2
      <4>2. n = 1 \/ n % 2 = 0
        BY <1>2, <3>2 DEF Alternates
      <4> QED
        BY <1>2, <4>1, <4>2 DEF names
    <3> QED
      BY Zenon, <3>1, <3>2
  <2>3. path' = Walk!Canonical(names)
    BY Zenon, <2>2, AlternatingIsCanonical
  <2>4. Settled'
    <3>1. Len(names) <= MaxIterations /\ Len(path') <= MaxPathLen
      <4>1. n \div 2 <= num_iterations
        BY Zenon, <1>1, <1>2, CounterFacts
      <4>2. Len(path') \in Nat
        BY <2>2 DEF Alternates
      <4> QED
        BY <1>1, <1>2, <1>3, <2>2, <4>1, <4>2, CounterFacts
    <3> QED
      BY Zenon, <1>1, <1>2, <1>3, <2>3, <3>1 DEF Settled, IsSymlink
  <2>5. ResolveInv'
    <3>1. TypeOK'
      BY Zenon, <1>1, <2>1, <2>2 DEF ResolveInv, TypeOK, Alternates, Tokens
    <3> QED
      BY Zenon, <1>1, <2>1, <2>4, <3>1 DEF ResolveInv, PanicsOnlyAtLimit
  <2>6. Walked' = Walk!Arrived(inode, names)
    BY ZenonT(40), <1>1, <2>1, <2>3 DEF Walked, Walk!Arrived
  <2> QED
    BY Zenon, <1>5, <1>7, <1>9, <2>5, <2>6 DEF Walk!Arrive
<1> QED
  BY Zenon, <1>8, <1>9

LEMMA DedupType ==
  ASSUME NEW p \in Seq(Tokens)
  PROVE  path_dedup_sep(p) \in Seq(Tokens)
<1>1. Len(p) \in Nat
  OBVIOUS
<1>2. PICK d : IsDedup(p, d) /\ path_dedup_sep(p) = d[Len(p)]
  BY Zenon, DedupDef
<1> DEFINE S == {i \in 0 .. Len(p) : d[i] \in Seq(Tokens)}
<1>3. 0 \in S
  BY <1>1, <1>2 DEF IsDedup
<1>4. ASSUME NEW n \in S, n \in 0 .. Len(p) - 1 PROVE n + 1 \in S
  <2>1. n + 1 \in 0 .. Len(p) /\ n + 1 # 0 /\ (n + 1) - 1 = n /\ p[n + 1] \in Tokens
    BY <1>1, <1>4
  <2>2. d[n + 1] = IF p[n + 1] = SEPARATOR /\ EndsInSep(d[n]) THEN d[n]
                   ELSE Append(d[n], p[n + 1])
    BY Zenon, <1>2, <2>1 DEF IsDedup
  <2>3. d[n] \in Seq(Tokens)
    BY Zenon
  <2>4. d[n + 1] \in Seq(Tokens)
    BY <2>1, <2>2, <2>3
  <2> QED
    BY Zenon, <2>1, <2>4
<1>5. \A n \in 0 .. Len(p) : n \in S
  <2> HIDE DEF S
  <2> QED
    BY Zenon, <1>1, <1>3, <1>4, Induction
<1> QED
  BY <1>1, <1>2, <1>5

-----------------------------------------------------------------------------
(* A call on a path begins a walk. *)
LEMMA FirstFacts ==
  ASSUME NEW p, Alternates(p), Len(p) > 0
  PROVE  Located(p, 1) /\ Passed(p, 1) = <<>> /\ Ahead(p, 1) = Comps(p)
<1>1. p \in Seq(Tokens) /\ Len(p) \in Nat \ {0} /\ 1 \in 0 .. Len(p) /\ 1 \in 1 .. Len(p)
  BY DEF Alternates
<1>2. 1 \div 2 = 0 /\ 1 % 2 = 1
  OBVIOUS
<1>3. Passed(p, 1) \in Seq(Tokens) /\ Len(Passed(p, 1)) = 0
  BY Zenon, <1>1, <1>2, PassedFacts
<1>4. /\ Ahead(p, 1) \in Seq(Tokens) /\ Len(Ahead(p, 1)) = Len(p) \div 2
      /\ \A k \in 1 .. Len(p) \div 2 : Ahead(p, 1)[k] = p[2 * k]
  <2>1. Len(p) \div 2 - 1 \div 2 = Len(p) \div 2
    BY <1>1
  <2>2. \A k \in 1 .. Len(p) \div 2 : 2 * (1 \div 2 + k) = 2 * k
    BY <1>1
  <2>3. /\ Ahead(p, 1) \in Seq(Tokens) /\ Len(Ahead(p, 1)) = Len(p) \div 2 - 1 \div 2
        /\ \A k \in 1 .. Len(p) \div 2 - 1 \div 2 : Ahead(p, 1)[k] = p[2 * (1 \div 2 + k)]
    BY Zenon, <1>1, AheadFacts
  <2> QED
    BY Zenon, <2>1, <2>2, <2>3
<1>5. /\ Comps(p) \in Seq(Tokens) /\ Len(Comps(p)) = Len(p) \div 2
      /\ \A k \in 1 .. Len(p) \div 2 : Comps(p)[k] = p[2 * k]
  BY Zenon, <1>1, CompsFacts
<1>6. Ahead(p, 1) = Comps(p)
  BY Zenon, <1>4, <1>5, EqualSequences
<1> QED
  BY <1>1, <1>2, <1>3, <1>6 DEF Located

LEMMA CallStep ==
  ASSUME NEW o, NEW p, IsPath(p), Call(o, p), tree \in Trees,
         outcome # "running", outcome # "walking"
  PROVE  ResolveInv' /\ Walk!Begin
<1>1. /\ tree' = tree /\ input' = p /\ path' = path_dedup_sep(p) /\ index' = 1 /\ inode' = Root
      /\ num_symlinks' = 0 /\ num_iterations' = 0
      /\ outcome' = IF Malformed(p) THEN "MalformedPath" ELSE check_path(p)
  BY Zenon DEF Call
<1>2. p \in Seq(Tokens) /\ path' \in Seq(Tokens) /\ Len(p) \in Nat
  BY <1>1, DedupType DEF IsPath, Tokens
<1>3. Walked.at # "walking"
  BY Zenon DEF Walked
<1>4. /\ Root \in DOMAIN tree /\ tree[Root].kind = "dir"
      /\ MaxSymlinks \in Nat /\ MaxIterations \in Nat /\ MaxPathLen \in Nat
  BY Zenon, TreeFacts, ResolveAssumption
<1>5. outcome' \in {"MalformedPath", "NotAbsolute", "PathTooLong", "running"}
  BY Zenon, <1>1 DEF check_path
<1>5a. /\ Walk!Malformed(input') <=> Malformed(p)
       /\ Walk!Absolute(input') <=> is_absolute(p)
       /\ Walk!ByteLen(input') = ByteLen(p)
  BY Zenon, <1>1 DEF Walk!Malformed, Malformed, Walk!Absolute, is_absolute, Walk!ByteLen, ByteLen
<1>6. CASE outcome' # "running"
  <2>1. ResolveInv'
    <3>1. 0 \in 0 .. MaxSymlinks + 1 /\ 0 \in 0 .. MaxIterations + 1
      BY <1>4
    <3> QED
      BY Zenon, <1>1, <1>2, <1>4, <1>5, <1>6, <3>1
         DEF ResolveInv, TypeOK, PanicsOnlyAtLimit, Tokens
  <2>2. Walked' = Walk!Failed(outcome')
    BY Zenon, <1>5, <1>6 DEF Walked, Walk!Failed
  <2>3. Walked' = IF Walk!Malformed(input') THEN Walk!Failed("MalformedPath")
                  ELSE IF ~ Walk!Absolute(input') THEN Walk!Failed("NotAbsolute")
                  ELSE Walk!Failed("PathTooLong")
    BY Zenon, <1>1, <1>6, <1>5a, <2>2 DEF check_path
  <2>4. ~ Malformed(p) /\ is_absolute(p) => ByteLen(p) > MaxPathLen
    BY Zenon, <1>1, <1>6 DEF check_path
  <2> QED
    BY Zenon, <1>3, <1>5a, <2>1, <2>3, <2>4 DEF Walk!Begin
<1>7. CASE outcome' = "running"
  <2> DEFINE q == path_dedup_sep(p)
  <2>1. is_absolute(p) /\ ~ (ByteLen(p) > MaxPathLen) /\ ~ Malformed(p)
    BY Zenon, <1>1, <1>7 DEF check_path
  <2>2. /\ Alternates(q) /\ Len(q) \in 1 .. Len(p)
        /\ EndsInSep(q) <=> EndsInSep(p)
        /\ Comps(q) = Walk!Components(p)
    BY Zenon, <2>1, DedupFacts
  <2>3. path' = q
    BY Zenon, <1>1
  <2> HIDE DEF q
  <2>4. Len(q) \in Nat /\ Len(q) > 0 /\ Len(q) <= MaxPathLen
    <3>1. ByteLen(p) \in Nat /\ Len(p) <= ByteLen(p)
      BY Zenon, <1>2, ByteLenFacts
    <3> QED
      BY <1>2, <1>4, <2>1, <2>2, <3>1
  <2>5. Located(q, 1) /\ Passed(q, 1) = <<>> /\ Ahead(q, 1) = Walk!Components(p)
    BY Zenon, <2>2, <2>4, FirstFacts
  <2>6. Leads(tree, <<>>, Root)
    BY Zenon, LeadsToRoot
  <2>7. ResolveInv'
    <3>1. Running'
      <4>1. 1 \div 2 <= 0 /\ 0 <= MaxSymlinks /\ 0 <= MaxIterations
        BY <1>4
      <4>2. tree[Root].kind # "link"
        BY Zenon, <1>4
      <4> QED
        BY ZenonT(40), <1>1, <2>3, <2>4, <2>5, <2>6, <4>1, <4>2 DEF Running, IsSymlink
    <3>2. TypeOK'
      <4>1. 0 \in 0 .. MaxSymlinks + 1 /\ 0 \in 0 .. MaxIterations + 1 /\ 1 \in 1 .. Len(q)
        BY <1>4, <2>4
      <4> QED
        BY Zenon, <1>1, <1>2, <1>4, <2>3, <4>1 DEF TypeOK, Tokens
    <3> QED
      BY Zenon, <1>1, <1>7, <3>1, <3>2 DEF ResolveInv, PanicsOnlyAtLimit
  <2>8. Walked' = Walk!Walking(Root, <<>>, Walk!Components(p), Walk!EndsInSep(p), 0, 0)
    <3>1. EndsInSep(q) <=> Walk!EndsInSep(p)
      BY Zenon, <2>2 DEF Walk!EndsInSep, EndsInSep
    <3>2. Passed(path', index') = <<>> /\ Ahead(path', index') = Walk!Components(p)
      BY Zenon, <1>1, <2>3, <2>5
    <3>3. EndsInSep(path') <=> Walk!EndsInSep(p)
      BY Zenon, <2>3, <3>1
    <3> QED
      BY Zenon, <1>1, <1>7, <3>2, <3>3, WalkingFacts
  <2>9. Walked' = Walk!Walking(Root, <<>>, Walk!Components(input'),
                                Walk!EndsInSep(input'), 0, 0)
    BY Zenon, <1>1, <2>8
  <2>10. /\ ~ Walk!Malformed(input') /\ Walk!Absolute(input')
         /\ ~ (Walk!ByteLen(input') > MaxPathLen)
    BY Zenon, <1>5a, <2>1
  <2> QED
    BY Zenon, <1>3, <2>7, <2>9, <2>10 DEF Walk!Begin
<1> QED
  BY Zenon, <1>6, <1>7

(* Every iteration of the loop, and what follows it *)
LEMMA ResolutionStep ==
  ASSUME ResolveInv, outcome = "running", Next
  PROVE  /\ ResolveInv' /\ Walk!Next
         /\ tree' = tree /\ input' = input /\ follow' = follow
         /\ outcome' \notin {"idle", "walking"}
<1>1. ResolveInv' /\ Walk!Next
  <2>1. CASE Panic
    BY Zenon, <2>1, PanicStep DEF Walk!Next
  <2>2. CASE ParentNotADirectory \/ Encrypted \/ NotFound
    BY Zenon, <2>2, LookUpFailsStep DEF Walk!Next
  <2>3. CASE Dot
    BY Zenon, <2>3, DotStep DEF Walk!Next
  <2>4. CASE DotDot
    BY Zenon, <2>4, DotDotStep DEF Walk!Next
  <2>5. CASE TooManySymlinks \/ BadTarget
    BY Zenon, <2>5, LinkFailsStep DEF Walk!Next
  <2>6. CASE Symlink
    BY Zenon, <2>6, SymlinkStep DEF Walk!Next
  <2>7. CASE Enter
    BY Zenon, <2>7, EnterStep DEF Walk!Next
  <2>8. CASE Finish
    BY Zenon, <2>8, FinishStep DEF Walk!Next
  <2> QED
    BY Zenon, <2>1, <2>2, <2>3, <2>4, <2>5, <2>6, <2>7, <2>8 DEF Next, Returned
<1>2. UNCHANGED args
  BY Zenon
     DEF Next, Panic, ParentNotADirectory, Encrypted, NotFound, Dot, DotDot, TooManySymlinks,
         BadTarget, Symlink, Enter, Finish, Returned, Stop, args, vars
<1>3. outcome' \notin {"idle", "walking"}
  BY Zenon
     DEF Next, Panic, ParentNotADirectory, Encrypted, NotFound, Dot, DotDot, TooManySymlinks,
         BadTarget, Symlink, Enter, Finish, Returned, Stop
<1> QED
  BY Zenon, <1>1, <1>2, <1>3 DEF args

-----------------------------------------------------------------------------
(* A call on a canonical path: nothing is edited in the path, and every    *)
(* iteration enters the next of the directories that lead to the goal.     *)
Goes(names, r) ==
    /\ names \in Seq(Tokens)
    /\ Chain(tree, names, r) /\ Len(names) <= MaxIterations
    /\ r[Len(names)] = goal.inode /\ tree[goal.inode].kind # "link"
    /\ goal.path = Walk!Canonical(names)
    /\ path = goal.path
    /\ \/ /\ outcome = "running" /\ num_iterations = index \div 2
          /\ inode = r[index \div 2]
       \/ outcome = "ok" /\ inode = goal.inode

OnCanonical == \E names, r : Goes(names, r)

(* What the call returns *)
Reply == IF outcome = "ok" THEN Answered(inode)
         ELSE IF op = "exists" /\ outcome = "NotFound" THEN Ok(FALSE)
         ELSE Err(outcome)

ApiInv ==
    /\ ResolveInv
    /\ outcome # "walking"
    /\ IsPath(input)
    /\ outcome = "idle" => goal = None
    /\ outcome # "idle" => follow = FollowOf(op)
    /\ answer # None => outcome \notin {"idle", "running"} /\ answer = Reply
    /\ (goal # None /\ goal.from = "canonicalize") => OnCanonical

(* The names of a chain are names of directory entries. *)
LEMMA ChainNames ==
  ASSUME NEW t \in Trees, NEW names \in Seq(Tokens), NEW r, Chain(t, names, r),
         NEW k \in 1 .. Len(names)
  PROVE  names[k] \in Names /\ names[k] # SEPARATOR /\ names[k] # NULL /\ names[k] # ".."
<1>1. Len(names) \in Nat /\ k - 1 \in 0 .. Len(names)
  OBVIOUS
<1>2. /\ r[k - 1] \in DOMAIN t /\ t[r[k - 1]].kind = "dir"
      /\ names[k] \in DOMAIN t[r[k - 1]].entries /\ names[k] # ".."
  BY Zenon, <1>1 DEF Chain
<1>3. names[k] \in Names
  BY Zenon, <1>2, TreeFacts
<1>4. names[k] # NULL
  BY Zenon, <1>2, ApiAssumption
<1> QED
  BY Zenon, <1>2, <1>3, <1>4, SeparatorIsNoName

LEMMA Halves ==
  ASSUME NEW m \in Nat, NEW l, l = IF m = 0 THEN 1 ELSE 2 * m
  PROVE  (l = 1 \/ l % 2 = 0) /\ l \div 2 = m
  OBVIOUS

LEMMA DomainOfSequence ==
  ASSUME NEW x \in Seq(Tokens)
  PROVE  DOMAIN x = 1 .. Len(x)
  OBVIOUS

LEMMA CanonicalIsPath ==
  ASSUME NEW t \in Trees, NEW names \in Seq(Tokens), NEW r, Chain(t, names, r),
         NEW p, p = Walk!Canonical(names)
  PROVE  /\ Alternates(p) /\ IsPath(p) /\ is_absolute(p) /\ ~ Malformed(p)
         /\ ByteLen(p) = Len(p) /\ path_dedup_sep(p) = p
         /\ Len(p) = 1 \/ Len(p) % 2 = 0
         /\ Len(p) > 0 /\ Len(p) \div 2 = Len(names)
         /\ \A k \in 1 .. Len(names) : 2 * k \in 1 .. Len(p) /\ p[2 * k] = names[k]
<1>1. /\ p \in Seq(Tokens) /\ Len(p) = IF names = <<>> THEN 1 ELSE 2 * Len(names)
      /\ \A i \in 1 .. Len(p) : p[i] = IF i % 2 = 1 THEN SEPARATOR ELSE names[i \div 2]
  BY Zenon, CanonicalFacts
<1>2. Len(names) \in Nat /\ Len(p) \in Nat /\ Len(p) > 0
      /\ (names = <<>> => Len(names) = 0) /\ (names # <<>> => Len(names) > 0)
  BY <1>1
<1>3. ASSUME NEW i \in 1 .. Len(p), i % 2 # 1
      PROVE  p[i] # SEPARATOR /\ p[i] # NULL /\ p[i] # ".."
  <2>1. i \div 2 \in 1 .. Len(names)
    BY <1>1, <1>2, <1>3
  <2> QED
    BY Zenon, <1>1, <1>3, <2>1, ChainNames
<1>4. Alternates(p)
  BY Zenon, <1>1, <1>3 DEF Alternates
<1>5. IsPath(p) /\ is_absolute(p)
  BY <1>1, <1>2, <1>4, AlternatingIsPath
<1>6. \A i \in 1 .. Len(p) : p[i] # NULL /\ p[i] # ".."
  <2> SUFFICES ASSUME NEW i \in 1 .. Len(p) PROVE p[i] # NULL /\ p[i] # ".."
    BY Zenon
  <2>1. CASE i % 2 = 1
    BY Zenon, <1>1, <2>1, ApiAssumption DEF SEPARATOR
  <2>2. CASE i % 2 # 1
    BY Zenon, <1>3, <2>2
  <2> QED
    BY Zenon, <2>1, <2>2
<1>7. ~ Malformed(p)
  <2>1. DOMAIN p = 1 .. Len(p)
    BY Zenon, <1>1, DomainOfSequence
  <2> QED
    BY Zenon, <1>6, <2>1 DEF Malformed
<1>8. ByteLen(p) = Len(p)
  BY Zenon, <1>1, <1>6, ByteLenFacts
<1>9. path_dedup_sep(p) = p
  <2>1. /\ Alternates(path_dedup_sep(p)) /\ (EndsInSep(path_dedup_sep(p)) <=> EndsInSep(p))
        /\ Comps(path_dedup_sep(p)) = Walk!Components(p)
    BY Zenon, <1>5, DedupFacts
  <2>2. Walk!Components(p) = Comps(p)
    BY Zenon, <1>4, ComponentsOfAlternating
  <2> QED
    BY Zenon, <1>4, <2>1, <2>2, AlternatingEqual
<1>10. (Len(p) = 1 \/ Len(p) % 2 = 0) /\ Len(p) \div 2 = Len(names)
  <2>1. Len(p) = IF Len(names) = 0 THEN 1 ELSE 2 * Len(names)
    BY <1>1, <1>2
  <2> QED
    BY Zenon, <1>2, <2>1, Halves
<1>11. ASSUME NEW k \in 1 .. Len(names) PROVE 2 * k \in 1 .. Len(p) /\ p[2 * k] = names[k]
  <2>1. 2 * k \in 1 .. Len(p) /\ (2 * k) % 2 # 1 /\ (2 * k) \div 2 = k
    BY <1>1, <1>2
  <2> QED
    BY Zenon, <1>1, <2>1
<1> QED
  BY ZenonT(40), <1>2, <1>4, <1>5, <1>7, <1>8, <1>9, <1>10, <1>11

(* Where an iteration stands that goes along a canonical path *)
LEMMA GoesFacts ==
  ASSUME ResolveInv, InLoop, NEW names, NEW r, Goes(names, r)
  PROVE  /\ index \div 2 + 1 \in 1 .. Len(names)
         /\ WithinLimit /\ HasName /\ IsName /\ ~ Follows
         /\ IsDir(inode) /\ ~ tree[inode].encrypted /\ comp \in DOMAIN tree[inode].entries
         /\ child_inode = r[index \div 2 + 1]
         /\ comp_end_with_sep = EndWithSep(path, index)
         /\ EndWithSep(path, index) \div 2 = index \div 2 + 1
<1> DEFINE k == index \div 2
<1>1. /\ outcome = "running" /\ num_iterations = k /\ inode = r[k]
      /\ names \in Seq(Tokens) /\ Chain(tree, names, r) /\ Len(names) <= MaxIterations
      /\ path = Walk!Canonical(names) /\ r[Len(names)] = goal.inode
      /\ tree[goal.inode].kind # "link" /\ tree \in Trees
  BY Zenon DEF Goes, InLoop, ResolveInv
<1>2. /\ index \in 1 .. Len(path) /\ index % 2 = 1 /\ path \in Seq(Tokens)
      /\ EndWithSep(path, index) \div 2 = k + 1
      /\ HasName /\ comp_end_with_sep = EndWithSep(path, index) /\ index < Len(path)
  BY Zenon, LoopFacts, HereFacts DEF InLoop
<1>3. /\ Len(path) = 1 \/ Len(path) % 2 = 0
      /\ Len(path) \div 2 = Len(names) /\ Len(path) \in Nat /\ Len(names) \in Nat
      /\ \A j \in 1 .. Len(names) : path[2 * j] = names[j]
  <2>1. /\ names \in Seq(Tokens) /\ path \in Seq(Tokens)
        /\ path = Walk!Canonical(names) /\ Chain(tree, names, r) /\ tree \in Trees
    BY Zenon, <1>1, <1>2
  <2>2. Len(path) \in Nat /\ Len(names) \in Nat
    BY <2>1
  <2> QED
    BY Zenon, <2>1, <2>2, CanonicalIsPath
<1>4. k \in Nat /\ k + 1 \in 1 .. Len(names) /\ 2 * (k + 1) = index + 1 /\ (k + 1) - 1 = k
  BY <1>2, <1>3
<1>5. comp = names[k + 1]
  BY <1>3, <1>4 DEF comp
<1>6. WithinLimit
  BY <1>1, <1>3, <1>4, ResolveAssumption DEF WithinLimit
<1> HIDE DEF k
<1>7. /\ tree[inode].kind = "dir" /\ ~ tree[inode].encrypted
      /\ comp \in DOMAIN tree[inode].entries \ {".", ".."}
      /\ r[k + 1] = tree[inode].entries[comp]
  BY Zenon, <1>1, <1>4, <1>5 DEF Chain
<1>8. child_inode = r[k + 1]
  BY Zenon, <1>7 DEF child_inode
<1>9. tree[r[k + 1]].kind # "link"
  <2>1. CASE k + 1 = Len(names)
    BY Zenon, <1>1, <2>1
  <2>2. CASE k + 1 # Len(names)
    <3>1. k + 2 \in 1 .. Len(names) /\ (k + 2) - 1 = k + 1
      BY <1>3, <1>4, <2>2
    <3>2. tree[r[k + 1]].kind = "dir"
      BY Zenon, <1>1, <3>1 DEF Chain
    <3> QED
      BY Zenon, <3>2
  <2> QED
    BY Zenon, <2>1, <2>2
<1> QED
  BY Zenon, <1>2, <1>4, <1>6, <1>7, <1>8, <1>9 DEF Follows, IsSymlink, IsDir, IsName, k

LEMMA GoesStep ==
  ASSUME ResolveInv, outcome = "running", Next, goal' = goal,
         NEW names, NEW r, Goes(names, r)
  PROVE  Goes(names, r)'
<1>1. /\ num_iterations = index \div 2 /\ inode = r[index \div 2]
      /\ names \in Seq(Tokens) /\ Chain(tree, names, r) /\ Len(names) <= MaxIterations
      /\ goal.path = Walk!Canonical(names) /\ path = goal.path
      /\ r[Len(names)] = goal.inode /\ tree[goal.inode].kind # "link" /\ tree \in Trees
  BY Zenon DEF Goes, ResolveInv
<1>2. tree' = tree
  BY Zenon, ResolutionStep
<1>3. CASE InLoop
  <2>1. /\ WithinLimit /\ HasName /\ IsName /\ ~ Follows
        /\ IsDir(inode) /\ ~ tree[inode].encrypted /\ comp \in DOMAIN tree[inode].entries
        /\ child_inode = r[index \div 2 + 1]
        /\ comp_end_with_sep \div 2 = index \div 2 + 1
    BY Zenon, <1>3, GoesFacts
  <2>2. ~ (index >= Len(path))
    <3>1. index \in Nat /\ Len(path) \in Nat /\ index < Len(path)
      BY Zenon, <1>3, CounterFacts DEF InLoop
    <3> QED
      BY <3>1
  <2>3. Enter
    BY Zenon, <2>1, <2>2
       DEF Next, Panic, ParentNotADirectory, Encrypted, NotFound, Dot, DotDot,
                      TooManySymlinks, BadTarget, Symlink, Finish, Returned, IsName
  <2>4. /\ index' = comp_end_with_sep /\ inode' = child_inode /\ path' = path
        /\ outcome' = "running" /\ num_iterations' = num_iterations + 1
    BY Zenon, <2>3 DEF Enter, Found, Counted
  <2>5. num_iterations' = index' \div 2 /\ inode' = r[index' \div 2]
    BY Zenon, <1>1, <2>1, <2>4
  <2> QED
    BY Zenon, <1>1, <1>2, <2>4, <2>5 DEF Goes
<1>4. CASE ~ InLoop
  <2>1. index \in 1 .. Len(path) /\ index >= Len(path) /\ Len(path) \in Nat
    BY <1>4, CounterFacts DEF InLoop, ResolveInv, Running, Located
  <2>2. index = Len(path)
    BY <2>1
  <2>3. Finish
    BY Zenon, <1>4 DEF Next, Panic, ParentNotADirectory, Encrypted, NotFound, Dot, DotDot,
                TooManySymlinks, BadTarget, Symlink, Enter, Found, CanLookUp, Returned
  <2>4. /\ Alternates(path) /\ (Len(path) = 1 \/ Len(path) % 2 = 0)
        /\ Len(path) > 0 /\ Len(path) \div 2 = Len(names)
    BY Zenon, <1>1, CanonicalIsPath
  <2>5. ~ (Len(path) > 1 /\ path[Len(path)] = SEPARATOR)
    <3>1. Len(path) \in 1 .. Len(path)
      BY <2>1
    <3> QED
      BY <2>1, <2>4, <3>1 DEF Alternates
  <2>6. path' = path /\ outcome' = "ok" /\ inode' = inode
    BY Zenon, <2>3, <2>5 DEF Finish
  <2>7. inode = goal.inode
    BY Zenon, <1>1, <2>2, <2>4
  <2> QED
    BY Zenon, <1>1, <1>2, <2>6, <2>7 DEF Goes
<1> QED
  BY Zenon, <1>3, <1>4

-----------------------------------------------------------------------------
(* The methods *)
LEMMA ApiInvInit ==
  ASSUME ApiInit
  PROVE  ApiInv /\ Walk!Init
<1>1. /\ tree \in Trees /\ input = <<>> /\ path = <<>> /\ inode = Root
      /\ num_symlinks = 0 /\ num_iterations = 0 /\ outcome = "idle"
      /\ answer = None /\ goal = None
  BY Zenon DEF ApiInit
<1>2. /\ Root \in DOMAIN tree /\ 0 \in 0 .. MaxSymlinks + 1 /\ 0 \in 0 .. MaxIterations + 1
  BY <1>1, TreeFacts, ResolveAssumption
<1>3. IsPath(<<>>)
  BY DEF IsPath
<1>4. ResolveInv
  BY <1>1, <1>2 DEF ResolveInv, TypeOK, PanicsOnlyAtLimit
<1>5. Walk!Init
  BY Zenon, <1>1 DEF Walk!Init, Walked, Walk!Failed
<1> QED
  BY Zenon, <1>1, <1>3, <1>4, <1>5 DEF ApiInv

(* What a call changes, whatever path it is made on *)
LEMMA CallFacts ==
  ASSUME NEW o, NEW p, ApiInv, IsPath(p), Call(o, p), outcome # "running"
  PROVE  /\ ResolveInv' /\ Walk!Next
         /\ outcome' \notin {"walking", "idle"} /\ IsPath(input)'
         /\ follow' = FollowOf(op)' /\ answer' = None
<1>1. /\ op' = o /\ answer' = None /\ input' = p /\ follow' = FollowOf(o)
      /\ outcome' \in {"MalformedPath", "NotAbsolute", "PathTooLong", "running"}
  BY Zenon DEF Call, check_path
<1>2. ResolveInv' /\ (Walk!Begin)
  BY Zenon, CallStep DEF ApiInv, ResolveInv
<1>3. IsPath(input)' /\ FollowOf(op)' = FollowOf(o)
  BY Zenon, <1>1 DEF IsPath, FollowOf
<1> QED
  BY Zenon, <1>1, <1>2, <1>3 DEF Walk!Next

LEMMA FirstCallStep ==
  ASSUME ApiInv, FirstCall
  PROVE  ApiInv' /\ Walk!Next
<1>1. PICK o \in Ops, p \in Paths : Call(o, p)
  BY Zenon DEF FirstCall
<1>2. outcome = "idle" /\ goal' = None /\ goal = None
  BY Zenon DEF FirstCall, ApiInv
<1>3. IsPath(p)
  BY Zenon, ResolveAssumption
<1> QED
  BY Zenon, <1>1, <1>2, <1>3, CallFacts DEF ApiInv

LEMMA ResolutionKeeps ==
  ASSUME ApiInv, Resolution
  PROVE  ApiInv' /\ Walk!Next
<1>1. /\ outcome = "running" /\ Next /\ op' = op /\ answer' = answer /\ goal' = goal
      /\ ResolveInv
  BY Zenon DEF Resolution, apiVars, ApiInv
<1>2. /\ ResolveInv' /\ Walk!Next /\ tree' = tree /\ input' = input /\ follow' = follow
      /\ outcome' \notin {"idle", "walking"}
  BY Zenon, <1>1, ResolutionStep
<1>3. answer = None
  BY Zenon, <1>1 DEF ApiInv
<1>4. IsPath(input)' /\ follow' = FollowOf(op)'
  BY Zenon, <1>1, <1>2 DEF ApiInv, IsPath, FollowOf
<1>5. ASSUME goal' # None, goal.from' = "canonicalize" PROVE OnCanonical'
  <2>1. PICK names, r : Goes(names, r)
    BY Zenon, <1>1, <1>5 DEF ApiInv, OnCanonical
  <2>2. Goes(names, r)'
    BY Zenon, <1>1, <2>1, GoesStep
  <2> QED
    BY Zenon, <2>2 DEF OnCanonical
<1> QED
  BY Zenon, <1>1, <1>2, <1>3, <1>4, <1>5 DEF ApiInv

LEMMA StutterFacts ==
  ASSUME ApiInv, UNCHANGED <<vars, op, goal>>,
         answer' # None => outcome \notin {"idle", "running"} /\ answer' = Reply
  PROVE  ApiInv' /\ Walked' = Walked
<1>1. /\ tree' = tree /\ input' = input /\ follow' = follow /\ path' = path
      /\ index' = index /\ inode' = inode /\ num_symlinks' = num_symlinks
      /\ num_iterations' = num_iterations /\ outcome' = outcome /\ op' = op /\ goal' = goal
  BY Zenon DEF vars
<1>2. ResolveInv'
  BY Zenon, <1>1
     DEF ApiInv, ResolveInv, TypeOK, PanicsOnlyAtLimit, Running, Settled, IsSymlink
<1>3. IsPath(input)' /\ (outcome' # "idle" => follow' = FollowOf(op)')
  BY Zenon, <1>1 DEF ApiInv, IsPath, FollowOf
<1>4. Reply' = Reply
  BY <1>1
     DEF Reply, Answered, open, read, read_to_string, read_inode_file, read_link, read_dir,
              Ok, Err, IsDir, IsFile, IsSymlink
<1>5. ASSUME goal' # None, goal.from' = "canonicalize" PROVE OnCanonical'
  <2>1. PICK names, r : Goes(names, r)
    BY Zenon, <1>1, <1>5 DEF ApiInv, OnCanonical
  <2>2. Goes(names, r)'
    BY Zenon, <1>1, <2>1 DEF Goes
  <2> QED
    BY Zenon, <2>2 DEF OnCanonical
<1>6. Walked' = Walked
  BY Zenon, <1>1 DEF Walked, IsDir
<1> QED
  BY Zenon, <1>1, <1>2, <1>3, <1>4, <1>5, <1>6 DEF ApiInv

LEMMA CallOnCanonicalStep ==
  ASSUME ApiInv, CallOnCanonical
  PROVE  ApiInv' /\ Walk!Next
<1>1. /\ answer # None /\ op = "canonicalize" /\ answer.result = "ok"
      /\ goal' = [from |-> op, inode |-> inode, path |-> answer.value]
  BY Zenon DEF CallOnCanonical
<1>2. PICK o \in Ops : Call(o, answer.value)
  BY Zenon DEF CallOnCanonical
<1>3. outcome \notin {"idle", "running"} /\ answer = Reply
  BY Zenon, <1>1 DEF ApiInv
<1>4. outcome = "ok"
  BY Zenon, <1>1, <1>3 DEF Reply, Err
<1>5. answer.value = path
  BY Zenon, <1>1, <1>3, <1>4 DEF Reply, Answered, Ok
<1>6. follow = "All" /\ tree[inode].kind # "link" /\ tree \in Trees /\ Len(path) <= MaxPathLen
  BY Zenon, <1>1, <1>4 DEF ApiInv, ResolveInv, Settled, FollowOf, IsSymlink
<1>7. PICK names \in Seq(Tokens) :
         path = Walk!Canonical(names) /\ Leads(tree, names, inode) /\ Len(names) <= MaxIterations
  BY Zenon, <1>4 DEF ApiInv, ResolveInv, Settled
<1>8. PICK r : Chain(tree, names, r) /\ r[Len(names)] = inode
  BY Zenon, <1>7 DEF Leads
<1>9. /\ IsPath(path) /\ is_absolute(path) /\ ~ Malformed(path) /\ ByteLen(path) = Len(path)
      /\ path_dedup_sep(path) = path /\ Len(path) \in Nat
  <2>1. path \in Seq(Tokens)
    BY Zenon, <1>7, CanonicalFacts
  <2>2. Len(path) \in Nat
    BY <2>1
  <2> QED
    BY Zenon, <1>6, <1>7, <1>8, <2>2, CanonicalIsPath
<1>10. /\ ResolveInv' /\ Walk!Next /\ outcome' \notin {"walking", "idle"} /\ IsPath(input)'
       /\ follow' = FollowOf(op)' /\ answer' = None
  BY Zenon, <1>2, <1>3, <1>5, <1>9, CallFacts
<1>11. Goes(names, r)'
  <2>1. /\ tree' = tree /\ path' = path /\ index' = 1 /\ inode' = Root /\ num_iterations' = 0
    BY Zenon, <1>2, <1>5, <1>9 DEF Call
  <2>2. outcome' = "running"
    <3>1. outcome' = check_path(path)
      BY Zenon, <1>2, <1>5, <1>9 DEF Call
    <3>2. ~ (ByteLen(path) > MaxPathLen)
      BY <1>6, <1>9, ResolveAssumption
    <3> QED
      BY Zenon, <1>9, <3>1, <3>2 DEF check_path
  <2>3. goal'.inode = inode /\ goal'.path = path
    BY ZenonT(40), <1>1, <1>5
  <2>4. 1 \div 2 = 0 /\ r[0] = Root
    BY <1>8 DEF Chain
  <2> QED
    BY ZenonT(40), <1>6, <1>7, <1>8, <2>1, <2>2, <2>3, <2>4 DEF Goes
<1> QED
  BY Zenon, <1>10, <1>11 DEF ApiInv, OnCanonical

LEMMA JoinIsPath ==
  ASSUME NEW p, IsPath(p), NEW name \in Names
  PROVE  IsPath(join(p, name))
<1>1. IsPath(<<name>>)
  BY DEF IsPath
<1>2. IsPath(<<SEPARATOR, name>>) /\ is_absolute(<<SEPARATOR, name>>)
  <2>1. <<SEPARATOR, name>> \in Seq(Names \cup {SEPARATOR}) /\ Len(<<SEPARATOR, name>>) = 2
    OBVIOUS
  <2>2. <<SEPARATOR, name>>[1] = SEPARATOR
    BY Zenon
  <2> QED
    BY <2>1, <2>2 DEF IsPath, is_absolute
<1>3. CASE p = <<>> \/ EndsInSep(p)
  BY Zenon, <1>1, <1>3, ConcatIsPath DEF join
<1>4. CASE ~ (p = <<>> \/ EndsInSep(p))
  BY Zenon, <1>2, <1>4, ConcatIsPath DEF join
<1> QED
  BY Zenon, <1>3, <1>4

LEMMA CallOnEntryStep ==
  ASSUME ApiInv, CallOnEntry
  PROVE  ApiInv' /\ Walk!Next
<1>1. answer # None /\ op = "read_dir" /\ answer.result = "ok"
  BY Zenon DEF CallOnEntry
<1>2. PICK name \in DOMAIN answer.value.entries, o \in Ops :
         /\ goal' = [from |-> op, inode |-> answer.value.entries[name]]
         /\ Call(o, join(answer.value.path, name))
  BY Zenon DEF CallOnEntry
<1>3. outcome \notin {"idle", "running"} /\ answer = Reply
  BY Zenon, <1>1 DEF ApiInv
<1>4. outcome = "ok"
  BY Zenon, <1>1, <1>3 DEF Reply, Err
<1>5. answer = read_dir(inode)
  BY Zenon, <1>1, <1>3, <1>4 DEF Reply, Answered
<1>6. IsDir(inode) /\ answer.value.path = input /\ answer.value.entries = tree[inode].entries
  BY Zenon, <1>1, <1>5 DEF read_dir, Ok, Err
<1>7. name \in Names
  <2>1. tree \in Trees /\ inode \in DOMAIN tree
    BY Zenon DEF ApiInv, ResolveInv, TypeOK
  <2> QED
    BY Zenon, <1>2, <1>6, <2>1, TreeFacts DEF IsDir
<1>8. IsPath(join(input, name))
  BY Zenon, <1>7, JoinIsPath DEF ApiInv
<1>9. /\ ResolveInv' /\ Walk!Next /\ outcome' \notin {"walking", "idle"} /\ IsPath(input)'
      /\ follow' = FollowOf(op)' /\ answer' = None
  BY Zenon, <1>2, <1>3, <1>6, <1>8, CallFacts
<1>10. goal'.from # "canonicalize"
  BY Zenon, <1>1, <1>2
<1> QED
  BY Zenon, <1>9, <1>10 DEF ApiInv

LEMMA ApiStep ==
  ASSUME ApiInv, [ApiNext]_<<vars, apiVars>>
  PROVE  ApiInv' /\ [Walk!Next]_Walked
<1>1. CASE FirstCall
  BY Zenon, <1>1, FirstCallStep
<1>2. CASE Resolution
  BY Zenon, <1>2, ResolutionKeeps
<1>3. CASE Return
  BY Zenon, <1>3, StutterFacts DEF Return, Reply
<1>4. CASE CallOnCanonical
  BY Zenon, <1>4, CallOnCanonicalStep
<1>5. CASE CallOnEntry
  BY Zenon, <1>5, CallOnEntryStep
<1>6. CASE UNCHANGED <<vars, apiVars>>
  <2>1. UNCHANGED <<vars, op, goal>> /\ answer' = answer
    BY Zenon, <1>6 DEF apiVars
  <2>2. answer' # None => outcome \notin {"idle", "running"} /\ answer' = Reply
    BY Zenon, <2>1 DEF ApiInv
  <2> QED
    BY Zenon, <2>1, <2>2, StutterFacts
<1> QED
  BY Zenon, <1>1, <1>2, <1>3, <1>4, <1>5, <1>6 DEF ApiNext, Done

-----------------------------------------------------------------------------
(* Everything above together is an invariant of the methods: resolution    *)
(* stands at a component that its path leads to, answers are those of the  *)
(* inode it came to, and a call on a canonical path goes along that path.  *)
THEOREM ApiInvariant == ApiSpec => []ApiInv
<1>1. ApiInit => ApiInv
  BY Zenon, ApiInvInit
<1>2. ApiInv /\ [ApiNext]_<<vars, apiVars>> => ApiInv'
  BY Zenon, ApiStep
<1> QED
  BY <1>1, <1>2, PTL DEF ApiSpec

(* For all limits, trees and paths, and calls on paths that other calls    *)
(* returned: the unwrap of an empty name in resolve_path is unreachable,   *)
(* so that only the assertion on the number of iterations can fail.        *)
THEOREM ApiPanicsOnlyAtLimit == ApiSpec => []PanicsOnlyAtLimit
<1>1. ApiInv => PanicsOnlyAtLimit
  BY Zenon DEF ApiInv, ResolveInv
<1> QED
  BY <1>1, ApiInvariant, PTL

(* For all limits, trees and paths: in every iteration of resolve_path the *)
(* part of the path before the index leads to the current inode.           *)
THEOREM ApiPrefixLeadsToInode == ApiSpec => []PrefixLeadsToInode
<1>1. ApiInv => PrefixLeadsToInode
  <2>1. outcome # "running" => PrefixLeadsToInode
    BY Zenon DEF PrefixLeadsToInode
  <2> QED
    BY Zenon, <2>1, RunningLeads DEF ApiInv
<1> QED
  BY <1>1, ApiInvariant, PTL

(* For all limits, trees and paths: resolve_path, which splices targets    *)
(* into the path and cuts "." and ".." out of it, implements the walk of   *)
(* PathWalk, and returns its inode, its canonical path or its error.       *)
THEOREM ApiResolvesLikeWalk == ApiSpec => ResolvesLikeWalk
<1>1. ApiInit => Walk!Init
  BY Zenon, ApiInvInit
<1>2. ApiInv /\ [ApiNext]_<<vars, apiVars>> => [Walk!Next]_Walked
  BY Zenon, ApiStep
<1> QED
  BY <1>1, <1>2, ApiInvariant, PTL DEF ApiSpec, ResolvesLikeWalk, Walk!Spec

(* For all limits, trees and paths: whatever method is called on the path  *)
(* that canonicalize returned comes to the same inode and the same path,   *)
(* without an error and within the limits, and read_link refuses it.       *)
THEOREM ApiCanonicalIsStable == ApiSpec => []CanonicalIsStable
<1>1. ApiInv => CanonicalIsStable
  <2> SUFFICES ASSUME ApiInv, answer # None, goal # None, goal.from = "canonicalize"
               PROVE  /\ outcome = "ok" /\ inode = goal.inode /\ path = goal.path
                      /\ op = "read_link" => answer = Err("NotASymlink")
    BY Zenon DEF CanonicalIsStable
  <2>1. outcome # "running" /\ answer = Reply
    BY Zenon DEF ApiInv
  <2>2. PICK names, r : Goes(names, r)
    BY Zenon DEF ApiInv, OnCanonical
  <2>3. outcome = "ok" /\ inode = goal.inode /\ path = goal.path /\ tree[inode].kind # "link"
    BY Zenon, <2>1, <2>2 DEF Goes
  <2>4. op = "read_link" => answer = Err("NotASymlink")
    BY Zenon, <2>1, <2>3 DEF Reply, Answered, read_link, IsSymlink
  <2> QED
    BY Zenon, <2>3, <2>4
<1> QED
  BY <1>1, ApiInvariant, PTL
=============================================================================

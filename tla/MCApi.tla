-------------------------------- MODULE MCApi -------------------------------
(***************************************************************************)
(* The root has a directory a, a file f and the symlink l; a has the       *)
(* directory b and the symlink m.  The targets of l and m vary, and the    *)
(* paths are all of up to three components.  In further trees a is         *)
(* encrypted or not, f is of each kind of file and l and m are symlinks to *)
(* it.                                                                     *)
(***************************************************************************)
EXTENDS Api, TLC, SequencesExt

Dir(self, parent, entries) ==
    [kind |-> "dir", encrypted |-> FALSE, entries |-> ("." :> self) @@ (".." :> parent) @@ entries]
Link(target) == [kind |-> "link", target |-> target]

Tree(l, m) ==
    (2 :> Dir(2, 2, ("a" :> 3) @@ ("f" :> 4) @@ ("l" :> 5)))
    @@ (3 :> Dir(3, 2, ("b" :> 6) @@ ("m" :> 7)))
    @@ (4 :> [kind |-> "file", content |-> "text"])
    @@ (5 :> Link(l))
    @@ (6 :> Dir(6, 3, <<>>))
    @@ (7 :> Link(m))

MCTrees ==
    {Tree(l, m) :
        l \in {<<"a">>, <<"a", "/">>, <<"/">>, <<"l">>, <<"f">>,
               <<"a", "/", "/", "m">>, <<>>, <<"a", "/", NULL>>},
        m \in {<<"..">>, <<".", "/", "b">>, <<"/", "/", "l">>,
               <<"..", "/", "f", "/">>, <<"/", "a", "/", "m">>}}

Components == {"a", "b", "f", "l", "m", ".", ".."}
MCNames == Components \cup {NULL}
CompLists == UNION {[1 .. n -> Components] : n \in 0 .. 3}

(* Components with separators between them, doubled or not, and at the end *)
Joined(comps, sep, end) ==
    <<SEPARATOR>> \o FlattenSeq([i \in 1 .. Len(comps) |->
        IF i = 1 THEN <<comps[i]>> ELSE sep \o <<comps[i]>>]) \o end

MCPaths ==
    {Joined(c, <<SEPARATOR>>, e) : c \in CompLists, e \in {<<>>, <<SEPARATOR>>}}
    \cup {Joined(c, <<SEPARATOR, SEPARATOR>>, <<SEPARATOR, SEPARATOR>>) :
            c \in [1 .. 2 -> Components]}
    \cup {<<>>, <<"a">>, Joined([i \in 1 .. 7 |-> "a"], <<SEPARATOR>>, <<>>)}

(* A path of 1001 components "." is 2002 bytes long. *)
DotPaths == {[i \in 1 .. 2002 |-> IF i % 2 = 1 THEN SEPARATOR ELSE "."]}
OneTree == {Tree(<<"a">>, <<"..">>)}

KindTree(encrypted, f) ==
    (2 :> Dir(2, 2, ("a" :> 3) @@ ("f" :> 4) @@ ("l" :> 5)))
    @@ (3 :> [Dir(3, 2, ("b" :> 6) @@ ("m" :> 7)) EXCEPT !.encrypted = encrypted])
    @@ (4 :> f)
    @@ (5 :> Link(<<"f">>))
    @@ (6 :> f)
    @@ (7 :> Link(<<"/", "l">>))

MCApiTrees ==
    MCTrees \cup
    {KindTree(e, f) :
        e \in BOOLEAN,
        f \in {[kind |-> "file", content |-> c] : c \in {"text", "binary", "huge"}}
              \cup {[kind |-> "special"]}}

MCApiPaths == MCPaths \cup {<<SEPARATOR, NULL>>}

MCOps == {"canonicalize", "open", "read", "read_to_string", "read_link", "read_dir",
          "exists", "metadata", "symlink_metadata"}
=============================================================================

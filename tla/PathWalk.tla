------------------------------ MODULE PathWalk ------------------------------
(***************************************************************************)
(* What path resolution promises (resolve_path of src/resolve.rs): a walk  *)
(* over the components of a path.  The walk keeps the inode it has come to *)
(* and the names that lead to it, and never edits a path.                  *)
(***************************************************************************)
EXTENDS Integers, Sequences

CONSTANTS SEPARATOR, NULL, Root, MaxSymlinks, MaxPathLen, MaxIterations

VARIABLES tree, input, follow,  \* the arguments
          walk                  \* the walk, or what it ended in

IsDir(n) == tree[n].kind = "dir"
IsSymlink(n) == tree[n].kind = "link"

-----------------------------------------------------------------------------
(* A path as text: whether it begins and ends in a separator, and the      *)
(* components between separators                                           *)
Absolute(p) == p # <<>> /\ p[1] = SEPARATOR
EndsInSep(p) == p # <<>> /\ p[Len(p)] = SEPARATOR

Components(p) ==
    LET c[i \in 0 .. Len(p)] ==
            IF i = 0 THEN <<>>
            ELSE IF p[i] = SEPARATOR THEN c[i - 1] ELSE Append(c[i - 1], p[i])
    IN  c[Len(p)]

(* Bytes: a separator and a name have one, ".." has two. *)
ByteLen(p) ==
    LET len[i \in 0 .. Len(p)] ==
            IF i = 0 THEN 0 ELSE len[i - 1] + (IF p[i] = ".." THEN 2 ELSE 1)
    IN  len[Len(p)]

(* A path has no null byte, and a symlink's target is not empty. *)
Malformed(p) == \E i \in DOMAIN p : p[i] = NULL
IsTarget(p) == p # <<>> /\ ~ Malformed(p)

(* Separators and names in turn, n of them *)
Alternating(names, n) ==
    [i \in 1 .. n |-> IF i % 2 = 1 THEN SEPARATOR ELSE names[i \div 2]]

(* "/" and the names with single separators between them *)
Canonical(names) == Alternating(names, IF names = <<>> THEN 1 ELSE 2 * Len(names))

-----------------------------------------------------------------------------
(* The walk is at inode n, reached by `names`, with `comps` ahead of it.   *)
(* slash: what it comes to has to be a directory and may not be one.       *)
Walking(n, names, comps, slash, links, steps) ==
    [at |-> "walking", inode |-> n, names |-> names, comps |-> comps,
     slash |-> slash /\ ~ (comps = <<>> /\ IsDir(n)), links |-> links, steps |-> steps]

Arrived(n, names) == [at |-> "ok", inode |-> n, path |-> Canonical(names)]
Failed(why) == [at |-> why]

Init == walk = Failed("idle")

Begin ==
    /\ walk.at # "walking"
    /\ walk' = IF Malformed(input') THEN Failed("MalformedPath")
               ELSE IF ~ Absolute(input') THEN Failed("NotAbsolute")
               ELSE IF ByteLen(input') > MaxPathLen THEN Failed("PathTooLong")
               ELSE Walking(Root, <<>>, Components(input'), EndsInSep(input'), 0, 0)

(* The end of the path *)
Arrive ==
    /\ walk.at = "walking" /\ walk.comps = <<>>
    /\ walk' = IF walk.slash THEN Failed("NotADirectory")
               ELSE Arrived(walk.inode, walk.names)

HasNext == walk.at = "walking" /\ walk.comps # <<>>
Goes == HasNext /\ walk.steps < MaxIterations
comp == Head(walk.comps)
Rest == Tail(walk.comps)
CanLookUp == Goes /\ IsDir(walk.inode) /\ ~ tree[walk.inode].encrypted
Exists == CanLookUp /\ comp \in DOMAIN tree[walk.inode].entries
child == tree[walk.inode].entries[comp]

LookUpFails ==
    \/ Goes /\ ~ IsDir(walk.inode) /\ walk' = Failed("NotADirectory")
    \/ /\ Goes /\ IsDir(walk.inode) /\ tree[walk.inode].encrypted
       /\ walk' = Failed("Encrypted")
    \/ CanLookUp /\ ~ Exists /\ walk' = Failed("NotFound")

Stay ==
    /\ Exists /\ comp = "."
    /\ walk' = Walking(walk.inode, walk.names, Rest, walk.slash, walk.links, walk.steps + 1)

(* The parent of the root is the root. *)
Up ==
    /\ Exists /\ comp = ".."
    /\ LET names == IF walk.names = <<>> THEN <<>>
                    ELSE SubSeq(walk.names, 1, Len(walk.names) - 1)
       IN  walk' = Walking(child, names, Rest, walk.slash, walk.links, walk.steps + 1)

(* A symlink that ends the path may be what the caller asks for. *)
IsName == Exists /\ comp \notin {".", ".."}
Follows == IsSymlink(child) /\ (follow = "All" \/ Rest # <<>>)

Down ==
    /\ IsName /\ ~ Follows
    /\ walk' = Walking(child, Append(walk.names, comp), Rest, walk.slash, walk.links,
                       walk.steps + 1)

(* The path as it would be written with the target in the symlink's place: *)
(* the names so far or, if the target is absolute, nothing; the target;    *)
(* and the components that are left.                                       *)
Written(target) ==
    LET before == IF Absolute(target) THEN <<>>
                  ELSE Alternating(walk.names, 2 * Len(walk.names) + 1)
        after == Alternating(Rest, 2 * Len(Rest) + (IF walk.slash THEN 1 ELSE 0))
    IN  before \o target \o after

(* The walk goes on from the symlink's directory, or from the root. *)
Follow ==
    /\ IsName /\ Follows /\ walk.links < MaxSymlinks
    /\ LET target == tree[child].target
           slash == walk.slash \/ (Rest = <<>> /\ EndsInSep(target))
           comps == Components(target) \o Rest
           n == IF Absolute(target) THEN Root ELSE walk.inode
           names == IF Absolute(target) THEN <<>> ELSE walk.names
       IN  walk' = IF ~ IsTarget(target) THEN Failed("SymlinkTarget")
                   ELSE IF ByteLen(Written(target)) > MaxPathLen THEN Failed("PathTooLong")
                   ELSE Walking(n, names, comps, slash, walk.links + 1, walk.steps + 1)

TooManyLinks ==
    /\ IsName /\ Follows /\ walk.links >= MaxSymlinks
    /\ walk' = Failed("TooManySymlinks")

(* The assertion on the number of steps fails. *)
Panic == HasNext /\ walk.steps >= MaxIterations /\ walk' = Failed("panic")

Next == \/ Begin \/ Arrive \/ LookUpFails \/ Stay \/ Up \/ Down \/ Follow
        \/ TooManyLinks \/ Panic

Spec == Init /\ [][Next]_walk
=============================================================================

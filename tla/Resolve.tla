------------------------------ MODULE Resolve -------------------------------
(***************************************************************************)
(* Path resolution (src/resolve.rs).  The path that is being resolved is   *)
(* edited in place: components are removed and symlinks are replaced by    *)
(* their targets.  A step is one iteration of the loop.                    *)
(*                                                                         *)
(* A path is a sequence of tokens, each a separator or a component; a      *)
(* token is one byte long, ".." is two.  `index` counts tokens from 0.     *)
(***************************************************************************)
EXTENDS Integers, Sequences

CONSTANTS Trees,            \* directory trees: inode -> contents
          Paths,            \* the paths to resolve
          Names,            \* components of paths
          NULL,             \* a component that no path may have: a null byte
          MaxSymlinks, MaxPathLen, MaxIterations

SEPARATOR == "/"
Root == 2

(* Two components have a separator between them. *)
IsPath(p) ==
    /\ p \in Seq(Names \cup {SEPARATOR})
    /\ \A i \in 1 .. Len(p) - 1 : p[i] = SEPARATOR \/ p[i + 1] = SEPARATOR

(* The root is a directory and its own parent.  Entries lead to inodes,    *)
(* and ".." leads back to the directory that a directory is in.            *)
IsTree(t) ==
    LET IsDirectory(n) == n \in DOMAIN t /\ t[n].kind = "dir"
        Entries(n) == DOMAIN t[n].entries
    IN  /\ IsDirectory(Root)
        /\ ".." \in Entries(Root) => t[Root].entries[".."] = Root
        /\ \A n \in DOMAIN t :
              /\ t[n].kind = "link" => IsPath(t[n].target)
              /\ t[n].kind = "dir" =>
                    /\ Entries(n) \subseteq Names
                    /\ \A c \in Entries(n) : t[n].entries[c] \in DOMAIN t
        /\ \A n, k \in DOMAIN t :
              IsDirectory(n) /\ IsDirectory(k) =>
                 \A c \in Entries(n) \ {".", ".."} :
                    t[n].entries[c] = k /\ ".." \in Entries(k)
                       => t[k].entries[".."] = n

ASSUME ResolveAssumption ==
    /\ MaxSymlinks \in Nat /\ MaxPathLen \in Nat /\ MaxIterations \in Nat
    /\ SEPARATOR \notin Names
    /\ \A t \in Trees : IsTree(t)
    /\ \A p \in Paths : IsPath(p)

VARIABLES tree, input, follow,          \* the arguments
          path, index, inode,
          num_symlinks, num_iterations,
          outcome                       \* "running", "ok", "panic" or an error

args == <<tree, input, follow>>
vars == <<tree, input, follow, path, index, inode, num_symlinks,
          num_iterations, outcome>>

is_absolute(p) == p # <<>> /\ p[1] = SEPARATOR

ByteLen(p) ==
    LET len[i \in 0 .. Len(p)] ==
            IF i = 0 THEN 0 ELSE len[i - 1] + (IF p[i] = ".." THEN 2 ELSE 1)
    IN  len[Len(p)]

(* Path::try_from *)
Malformed(p) == \E i \in DOMAIN p : p[i] = NULL

(* symlink_target refuses an empty target and one that is no path. *)
IsTarget(p) == p # <<>> /\ ~ Malformed(p)

IsDir(n) == tree[n].kind = "dir"
IsSymlink(n) == tree[n].kind = "link"

(* Mistake: separators are not deduplicated. *)
path_dedup_nothing(p) == p

EndsInSep(p) == p # <<>> /\ p[Len(p)] = SEPARATOR

(* Every separator that follows a separator is removed. *)
path_dedup_sep(p) ==
    LET dedup[i \in 0 .. Len(p)] ==
            IF i = 0 THEN <<>>
            ELSE LET done == dedup[i - 1]
                 IN  IF p[i] = SEPARATOR /\ EndsInSep(done) THEN done
                     ELSE Append(done, p[i])
    IN  dedup[Len(p)]

(* What is returned before the loop, if anything *)
check_path(p) == IF ~ is_absolute(p) THEN "NotAbsolute"
                 ELSE IF ByteLen(p) > MaxPathLen THEN "PathTooLong"
                 ELSE "running"

Init ==
    /\ tree \in Trees
    /\ input \in Paths
    /\ follow \in {"All", "ExcludeFinalComponent"}
    /\ index = 1
    /\ inode = Root
    /\ num_symlinks = 0
    /\ num_iterations = 0
    /\ path = path_dedup_sep(input)
    /\ outcome = check_path(input)

-----------------------------------------------------------------------------
(* Where the component at index ends: at the next separator or at the end. *)
comp_end ==
    IF \E i \in index .. Len(path) - 1 : path[i + 1] = SEPARATOR
    THEN CHOOSE i \in index .. Len(path) - 1 :
            /\ path[i + 1] = SEPARATOR
            /\ \A j \in index .. i - 1 : path[j + 1] # SEPARATOR
    ELSE Len(path)

(* Mistake: a separator at the end makes another component. *)
is_last_without_sep == comp_end = Len(path)

is_last_component == comp_end >= Len(path) - 1

comp_end_with_sep == IF comp_end + 1 <= Len(path) THEN comp_end + 1 ELSE Len(path)

comp == path[index + 1]
child_inode == tree[inode].entries[comp]

(* path.splice: the tokens from `start` up to `end` become `new`. *)
Splice(start, end, new) ==
    SubSeq(path, 1, start) \o new \o SubSeq(path, end + 1, Len(path))

find_parent_component_start ==
    IF index = 1 THEN index
    ELSE LET seps == {i \in 0 .. index - 2 : path[i + 1] = SEPARATOR}
         IN  (CHOOSE i \in seps : \A j \in seps : j <= i) + 1

(* An iteration begins: the assertion on their number holds, and the       *)
(* component is a name.                                                    *)
InLoop == outcome = "running" /\ index < Len(path)
Counted == num_iterations' = num_iterations + 1
WithinLimit == num_iterations + 1 <= MaxIterations
HasName == comp_end > index
CanLookUp == InLoop /\ WithinLimit /\ IsDir(inode) /\ HasName

Stop(why) ==
    /\ outcome' = why
    /\ UNCHANGED <<args, path, index, inode, num_symlinks>>

(* The assertion fails, or the unwrap of the empty name in a directory *)
Panic ==
    /\ InLoop
    /\ ~ WithinLimit \/ (IsDir(inode) /\ ~ HasName)
    /\ Counted
    /\ Stop("panic")

ParentNotADirectory ==
    /\ InLoop /\ WithinLimit /\ Counted
    /\ ~ IsDir(inode)
    /\ Stop("NotADirectory")

(* get_dir_entry_inode_by_name *)
Encrypted ==
    /\ CanLookUp /\ Counted
    /\ tree[inode].encrypted
    /\ Stop("Encrypted")

NotFound ==
    /\ CanLookUp /\ Counted
    /\ ~ tree[inode].encrypted
    /\ comp \notin DOMAIN tree[inode].entries
    /\ Stop("NotFound")

Found == /\ CanLookUp /\ Counted
         /\ ~ tree[inode].encrypted
         /\ comp \in DOMAIN tree[inode].entries

Dot ==
    /\ Found
    /\ comp = "."
    /\ path' = Splice(index, comp_end_with_sep, <<>>)
    /\ UNCHANGED <<args, index, inode, num_symlinks, outcome>>

(* Mistake: the path goes up and the inode does not. *)
DotDotKeepsInode ==
    /\ Found
    /\ comp = ".."
    /\ path' = Splice(find_parent_component_start, comp_end_with_sep, <<>>)
    /\ index' = find_parent_component_start
    /\ UNCHANGED <<args, inode, num_symlinks, outcome>>

DotDot ==
    /\ Found
    /\ comp = ".."
    /\ path' = Splice(find_parent_component_start, comp_end_with_sep, <<>>)
    /\ index' = find_parent_component_start
    /\ inode' = child_inode
    /\ UNCHANGED <<args, num_symlinks, outcome>>

IsName == comp \notin {".", ".."}
Follows == IsSymlink(child_inode) /\ (follow = "All" \/ ~ is_last_component)

TooManySymlinks ==
    /\ Found /\ IsName /\ Follows
    /\ num_symlinks + 1 > MaxSymlinks
    /\ num_symlinks' = num_symlinks + 1
    /\ outcome' = "TooManySymlinks"
    /\ UNCHANGED <<args, path, index, inode>>

BadTarget ==
    /\ Found /\ IsName /\ Follows
    /\ num_symlinks + 1 <= MaxSymlinks
    /\ ~ IsTarget(tree[child_inode].target)
    /\ num_symlinks' = num_symlinks + 1
    /\ outcome' = "SymlinkTarget"
    /\ UNCHANGED <<args, path, index, inode>>

(* The target replaces the component, or everything up to it.  The length  *)
(* is checked before separators are deduplicated.                          *)
Symlink ==
    /\ Found /\ IsName /\ Follows
    /\ num_symlinks + 1 <= MaxSymlinks
    /\ IsTarget(tree[child_inode].target)
    /\ num_symlinks' = num_symlinks + 1
    /\ LET target == tree[child_inode].target
           replace_start == IF is_absolute(target) THEN 0 ELSE index
           replaced == Splice(replace_start, comp_end, target)
           too_long == ByteLen(replaced) > MaxPathLen
       IN  /\ inode' = IF is_absolute(target) THEN Root ELSE inode
           /\ index' = IF is_absolute(target) THEN 1 ELSE index
           /\ path' = IF too_long THEN replaced ELSE path_dedup_sep(replaced)
           /\ outcome' = IF too_long THEN "PathTooLong" ELSE outcome
    /\ UNCHANGED args

Enter ==
    /\ Found /\ IsName /\ ~ Follows
    /\ index' = comp_end_with_sep
    /\ inode' = child_inode
    /\ UNCHANGED <<args, path, num_symlinks, outcome>>

(* After the loop: a separator at the end is removed after a directory and *)
(* is an error after anything else.                                        *)
Finish ==
    /\ outcome = "running"
    /\ index >= Len(path)
    /\ LET trailing == Len(path) > 1 /\ path[Len(path)] = SEPARATOR
       IN  /\ path' = IF trailing /\ IsDir(inode)
                      THEN SubSeq(path, 1, Len(path) - 1) ELSE path
           /\ outcome' = IF trailing /\ ~ IsDir(inode)
                         THEN "NotADirectory" ELSE "ok"
    /\ UNCHANGED <<args, index, inode, num_symlinks, num_iterations>>

Returned == outcome # "running" /\ UNCHANGED vars

Next == \/ Panic \/ ParentNotADirectory \/ Encrypted \/ NotFound \/ Dot \/ DotDot
        \/ TooManySymlinks \/ BadTarget \/ Symlink \/ Enter \/ Finish \/ Returned

Spec == Init /\ [][Next]_vars

-----------------------------------------------------------------------------
TypeOK ==
    /\ path \in Seq(Names \cup {SEPARATOR})
    /\ inode \in DOMAIN tree
    /\ outcome = "running" => index \in 1 .. Len(path)
    /\ num_symlinks \in 0 .. MaxSymlinks + 1
    /\ num_iterations \in 0 .. MaxIterations + 1

(* The unwrap of DirEntryName never sees an empty name: whatever targets   *)
(* are put into the path and components taken out of it, only the limit on *)
(* the iterations makes resolution panic.                                  *)
PanicsOnlyAtLimit == outcome = "panic" => num_iterations > MaxIterations

(* "Max iterations should never be reachable in practice due to the other  *)
(* restrictions (MAX_SYMLINKS and MAX_PATH_LEN)" (resolve_path)            *)
NoPanic == outcome # "panic"

-----------------------------------------------------------------------------
(* The components before index i of p and those after it.  Separators have *)
(* been deduplicated, so that every other token is a component.            *)
Passed(p, i) == [k \in 1 .. i \div 2 |-> p[2 * k]]
Ahead(p, i) == [k \in 1 .. Len(p) \div 2 - i \div 2 |-> p[2 * (i \div 2 + k)]]

(* The part of the path before index holds names only, and going down by   *)
(* these names from the root leads, through directories that can be read,  *)
(* to the current inode, which is no symlink if symlinks are followed: the *)
(* edits of the path and the moves between inodes never drift apart.       *)
PrefixLeadsToInode ==
    outcome = "running" =>
        LET names == Passed(path, index)
            reached[k \in 0 .. Len(names)] ==
                IF k = 0 THEN Root ELSE tree[reached[k - 1]].entries[names[k]]
        IN  /\ \A k \in 1 .. Len(names) :
                  LET dir == tree[reached[k - 1]]
                  IN  /\ dir.kind = "dir" /\ ~ dir.encrypted
                      /\ names[k] \in DOMAIN dir.entries \ {".", ".."}
            /\ reached[Len(names)] = inode
            /\ index < Len(path) => path[index] = SEPARATOR
            /\ follow = "All" => ~ IsSymlink(inode)

(* Resolution is the walk of PathWalk: whatever is edited in the path, it  *)
(* comes to the inode, the error and the canonical path that the walk      *)
(* comes to ("Path separators deduplicated", "Trailing separators removed",*)
(* "." and ".." components and symlinks resolved).                         *)
Walked ==
    IF outcome = "running"
    THEN [at |-> "walking", inode |-> inode, names |-> Passed(path, index),
          comps |-> Ahead(path, index),
          slash |-> EndsInSep(path) /\ ~ (Ahead(path, index) = <<>> /\ IsDir(inode)),
          links |-> num_symlinks, steps |-> num_iterations]
    ELSE IF outcome = "ok" THEN [at |-> "ok", inode |-> inode, path |-> path]
    ELSE [at |-> outcome]

Walk == INSTANCE PathWalk WITH walk <- Walked

ResolvesLikeWalk == Walk!Spec
=============================================================================

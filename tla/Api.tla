-------------------------------- MODULE Api ---------------------------------
(***************************************************************************)
(* The methods of Ext4 that mirror std::fs (src/lib.rs, File::open in      *)
(* src/file.rs) over path resolution.  A client makes a call and may go on *)
(* with what it returned: with the canonical path, or with the path of a   *)
(* directory entry.                                                        *)
(*                                                                         *)
(* A regular file's contents are "text", "binary" (not UTF-8) or "huge"    *)
(* (not addressable); other kinds of inodes are "special".                 *)
(***************************************************************************)
EXTENDS Resolve

CONSTANTS Ops, None

(* No directory has an entry with a null byte. *)
ASSUME ApiAssumption ==
    /\ NULL # SEPARATOR
    /\ \A t \in Trees : \A n \in DOMAIN t :
          t[n].kind = "dir" => NULL \notin DOMAIN t[n].entries

VARIABLES op,
          answer,       \* None until the call returns
          goal          \* where the path of the call comes from, or None

apiVars == <<op, answer, goal>>

Ok(value) == [result |-> "ok", value |-> value]
Err(error) == [result |-> error]

IsFile(n) == tree[n].kind = "file"

(* Mistake: every method follows the final component. *)
FollowAll(o) == "All"

(* Mistake: canonicalize keeps a final symlink. *)
FollowOfCanonicalize(o) == IF o \in {"canonicalize", "read_link", "symlink_metadata"}
                           THEN "ExcludeFinalComponent" ELSE "All"

FollowOf(o) == IF o \in {"read_link", "symlink_metadata"}
               THEN "ExcludeFinalComponent" ELSE "All"

ApiInit ==
    /\ tree \in Trees
    /\ input = <<>> /\ follow = "All" /\ path = <<>> /\ index = 0 /\ inode = Root
    /\ num_symlinks = 0 /\ num_iterations = 0
    /\ outcome = "idle"
    /\ op = None /\ answer = None /\ goal = None

Call(o, p) ==
    /\ op' = o
    /\ answer' = None
    /\ input' = p
    /\ follow' = FollowOf(o)
    /\ path' = path_dedup_sep(p)
    /\ index' = 1
    /\ inode' = Root
    /\ num_symlinks' = 0
    /\ num_iterations' = 0
    /\ outcome' = IF Malformed(p) THEN "MalformedPath" ELSE check_path(p)
    /\ UNCHANGED tree

FirstCall ==
    /\ outcome = "idle"
    /\ \E o \in Ops, p \in Paths : Call(o, p)
    /\ UNCHANGED goal

Resolution ==
    /\ outcome = "running"
    /\ Next
    /\ UNCHANGED apiVars

-----------------------------------------------------------------------------
read_inode_file(n) ==
    IF tree[n].content = "huge" THEN Err("FileTooLarge") ELSE Ok(tree[n].content)

(* The checks of File::open, made by read as well *)
open(n) == IF IsDir(n) THEN Err("IsADirectory")
           ELSE IF ~ IsFile(n) THEN Err("IsASpecialFile")
           ELSE Ok(n)

read(n) == IF open(n).result = "ok" THEN read_inode_file(n) ELSE open(n)

read_to_string(n) == IF read(n) = Ok("binary") THEN Err("NotUtf8") ELSE read(n)

(* symlink_target *)
read_link(n) == IF ~ IsSymlink(n) THEN Err("NotASymlink")
                ELSE IF ~ IsTarget(tree[n].target) THEN Err("SymlinkTarget")
                ELSE Ok(tree[n].target)

(* ReadDir::new; the entries remember the path of the call. *)
read_dir(n) == IF ~ IsDir(n) THEN Err("NotADirectory")
               ELSE IF tree[n].encrypted THEN Err("Encrypted")
               ELSE Ok([path |-> input, entries |-> tree[n].entries])

Answered(n) ==
    CASE op = "canonicalize" -> Ok(path)
      [] op = "open" -> open(n)
      [] op = "read" -> read(n)
      [] op = "read_to_string" -> read_to_string(n)
      [] op = "read_link" -> read_link(n)
      [] op = "read_dir" -> read_dir(n)
      [] op = "exists" -> Ok(TRUE)
      [] op \in {"metadata", "symlink_metadata"} -> Ok(n)

Return ==
    /\ outcome \notin {"idle", "running"}
    /\ answer = None
    /\ answer' = IF outcome = "ok" THEN Answered(inode)
                 ELSE IF op = "exists" /\ outcome = "NotFound" THEN Ok(FALSE)
                 ELSE Err(outcome)
    /\ UNCHANGED <<vars, op, goal>>

-----------------------------------------------------------------------------
(* A call on the path that canonicalize returned *)
CallOnCanonical ==
    /\ answer # None /\ goal = None
    /\ op = "canonicalize" /\ answer.result = "ok"
    /\ goal' = [from |-> op, inode |-> inode, path |-> answer.value]
    /\ \E o \in Ops : Call(o, answer.value)

(* DirEntry::path: PathBuf::join of the path of the call and the name *)
join(p, name) == IF p = <<>> \/ EndsInSep(p) THEN p \o <<name>>
                 ELSE p \o <<SEPARATOR, name>>

(* A call on the path of an entry that read_dir listed *)
CallOnEntry ==
    /\ answer # None /\ goal = None
    /\ op = "read_dir" /\ answer.result = "ok"
    /\ \E name \in DOMAIN answer.value.entries, o \in Ops :
        /\ goal' = [from |-> op, inode |-> answer.value.entries[name]]
        /\ Call(o, join(answer.value.path, name))

Done == answer # None /\ UNCHANGED <<vars, apiVars>>

ApiNext == FirstCall \/ Resolution \/ Return \/ CallOnCanonical \/ CallOnEntry \/ Done

ApiSpec == ApiInit /\ [][ApiNext]_<<vars, apiVars>>

-----------------------------------------------------------------------------
(* The path that canonicalize returns is a fixed point, and it is not a    *)
(* symlink: whatever call is made on it, final symlinks followed or not,   *)
(* resolves it to itself and to the inode that it was computed for.        *)
CanonicalIsStable ==
    (answer # None /\ goal # None /\ goal.from = "canonicalize") =>
        /\ outcome = "ok" /\ inode = goal.inode /\ path = goal.path
        /\ op = "read_link" => answer = Err("NotASymlink")

(* "This appends the entry's name to the path that `Ext4::read_dir` was    *)
(* called with": that path, whether or not it ends in separators or goes   *)
(* through symlinks or "..", leads to the entry's own inode, so that       *)
(* symlink_metadata of the entry's path is the metadata of the entry.      *)
EntryPathsLeadToEntries ==
    (answer # None /\ goal # None /\ goal.from = "read_dir" /\ op = "symlink_metadata") =>
        answer = Ok(goal.inode) \/ answer.result \in {"PathTooLong", "panic"}
=============================================================================

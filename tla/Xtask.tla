------------------------------- MODULE Xtask --------------------------------
(***************************************************************************)
(* The tool that makes the test disks and compares the library with a      *)
(* mounted filesystem (xtask/src).  A run executes one step after another; *)
(* most steps run external commands, and each of them may fail.  Loop      *)
(* devices, device-mapper devices, mounts and temporary directories are    *)
(* held by guards: the `?` of a step that fails (and an unwrap that        *)
(* panics) drops them, the last one first, and the errors of drops are     *)
(* ignored.                                                                *)
(***************************************************************************)
EXTENDS Integers, FiniteSets, SequencesExt

CONSTANTS MaxAttempts,      \* of create_with_journal
          MaxRuns,          \* bound on the runs of the tool
          Listings,         \* the entries a walk may yield, in order
          Newline           \* the word that stands for a newline

ASSUME XtaskAssumption == MaxAttempts \in Nat \ {0} /\ MaxRuns \in Nat

Jobs == <<"raw_superblock", "test_disk1", "ext2", "journal", "ext3">>
BlockKinds == {"descriptor block", "revoke table", "commit block"}

(* The steps of a disk in create_test_data, and those of diff_walk *)
Steps(job) ==
    CASE job = "raw_superblock" -> <<"create", "truncate">>
      [] job = "test_disk1" -> <<"create", "mount", "write", "unmount", "check", "compress">>
      [] job = "ext2" -> <<"create", "mount", "write", "unmount", "compress">>
      [] job = "journal" ->
            <<"create", "losetup", "dmsetup", "mount", "write", "suspend", "load", "resume",
              "unmount", "remove", "detach", "logdump", "compress">>
      [] job = "ext3" -> <<"create", "mount", "write", "drop_mount", "check", "compress">>
      [] job = "diff_walk" ->
            <<"build", "decompress", "walk_with_lib", "mount", "walk_mounted", "unmount", "compare">>

VARIABLES action, jobs,     \* the subcommand, and the jobs that are left
          step, attempt,
          guards,           \* the live guards, the last one made last
          held,             \* what exists in the system
          suspended,        \* the flakey device
          image, log,       \* the current disk and the blocks in its journal
          raw,              \* the file raw_superblock.bin
          published,        \* the compressed disks
          refused,          \* releases that failed though nothing used the resource
          actual, mounted,  \* what the walks of diff_walk yield
          runs, status,
          failed_at         \* the step whose failure ends the run

disk == <<suspended, image, log, raw, published>>
listings == <<actual, mounted>>
position == <<jobs, step, attempt, status, failed_at>>
vars == <<action, runs, position, guards, held, refused, disk, listings>>

(* main: the subcommand decides; raw_superblock.bin is kept if it exists. *)
JobsOf(a, raw_exists) ==
    CASE a = "DiffWalk" -> <<"diff_walk">>
      [] a = "CreateTestData" /\ raw_exists -> Tail(Jobs)
      [] OTHER -> Jobs

Init ==
    /\ action \in {"CreateTestData", "DiffWalk"}
    /\ jobs = JobsOf(action, FALSE)
    /\ step = 1 /\ attempt = 1
    /\ guards = <<>> /\ held = {} /\ refused = {}
    /\ suspended = FALSE /\ image = "none" /\ log = {} /\ raw = "none" /\ published = {}
    /\ actual = <<>> /\ mounted = <<>>
    /\ runs = 1 /\ status = "running" /\ failed_at = "nothing"

Job == Head(jobs)
At(s) == status = "running" /\ jobs # <<>> /\ Steps(Job)[step] = s

Proceed ==
    /\ IF step < Len(Steps(Job)) THEN step' = step + 1 /\ UNCHANGED <<jobs, attempt>>
       ELSE jobs' = Tail(jobs) /\ step' = 1 /\ attempt' = 1
    /\ UNCHANGED <<status, failed_at>>

(* A `?` returns, or an unwrap panics: the guards are dropped. *)
Fail == /\ status' = "unwinding"
        /\ failed_at' = Steps(Job)[step]
        /\ UNCHANGED <<jobs, step, attempt>>

(* A step that makes no guard and releases none *)
Plain == UNCHANGED <<action, runs, guards, held, refused>>

(* mkfs, on a path whose old file is removed first *)
create ==
    /\ At("create") /\ Plain
    /\ \/ Proceed /\ image' = "empty"
       \/ Fail /\ image' \in {"none", "partial"}
    /\ raw' = IF Job = "raw_superblock" THEN image' ELSE raw
    /\ log' = {}
    /\ UNCHANGED <<suspended, published, listings>>

(* The file is read and written again with the superblock only. *)
truncate ==
    /\ At("truncate") /\ Plain
    /\ \/ Proceed /\ raw' = "superblock"
       \/ Fail /\ raw' \in {raw, "partial"}
    /\ UNCHANGED <<suspended, image, log, published, listings>>

(* A command makes a resource, and a guard holds it. *)
Acquire(r) ==
    /\ \/ Proceed /\ guards' = Append(guards, r) /\ held' = held \union {r}
       \/ Fail /\ UNCHANGED <<guards, held>>
    /\ UNCHANGED <<action, runs, refused, disk, listings>>

losetup == At("losetup") /\ Acquire("loop")
dmsetup == At("dmsetup") /\ Acquire("dm")
mount == At("mount") /\ Acquire("mount")

(* fill, fill_ext2, fill_ext3 and the directories for the journal *)
write ==
    /\ At("write") /\ Plain
    /\ \/ Proceed /\ image' = "full"
       \/ Fail /\ image' = "partial"
    /\ UNCHANGED <<suspended, log, raw, published, listings>>

suspend ==
    /\ At("suspend") /\ Plain
    /\ \/ Proceed /\ suspended' = TRUE
       \/ Fail /\ UNCHANGED suspended
    /\ UNCHANGED <<image, log, raw, published, listings>>

load_table ==
    /\ At("load") /\ Plain
    /\ Proceed \/ Fail
    /\ UNCHANGED <<disk, listings>>

(* From here on writes are dropped: the disk and its journal keep what they *)
(* got so far, and the rest is lost.                                        *)
resume ==
    /\ At("resume") /\ Plain
    /\ \/ /\ Proceed /\ suspended' = FALSE
          /\ image' \in {"full", "partial"} /\ log' \in SUBSET BlockKinds
       \/ Fail /\ UNCHANGED <<suspended, image, log>>
    /\ UNCHANGED <<raw, published, listings>>

-----------------------------------------------------------------------------
(* umount, dmsetup remove and losetup --detach on one of the resources *)

Above(r) == CASE r = "loop" -> {"dm", "mount"} [] r = "dm" -> {"mount"} [] OTHER -> {}

(* The filesystem on a suspended device cannot write what it still has to. *)
Blocked(r) == r = "mount" /\ suspended

Released(r) == ~Blocked(r) /\ held \intersect Above(r) = {}
               /\ held' = held \ {r} /\ UNCHANGED refused
NotReleased(r) == ~Blocked(r) /\ UNCHANGED held
                  /\ refused' = IF held \intersect Above(r) = {} THEN refused \union {r} ELSE refused

(* A call that consumes a guard; if the command fails the guard still holds *)
(* its resource when it is dropped.                                         *)
Release(r) ==
    /\ \/ Released(r) /\ Proceed /\ guards' = Front(guards)
       \/ NotReleased(r) /\ Fail /\ UNCHANGED guards
    /\ UNCHANGED <<action, runs, disk, listings>>

unmount == At("unmount") /\ Release("mount")
remove == At("remove") /\ Release("dm")
detach == At("detach") /\ Release("loop")

(* Mistake: the guards are dropped in the order in which they were made. *)
DropInOrder ==
    LET r == Head(guards) IN
    /\ guards' = Tail(guards)
    /\ \/ r = "tempdir" /\ held' = held \ {r} /\ UNCHANGED <<refused, image>>
       \/ r # "tempdir" /\ Released(r) /\ UNCHANGED image
       \/ /\ r # "tempdir" /\ NotReleased(r)
          /\ image' = IF r = "mount" /\ Job # "diff_walk" THEN "deleted" ELSE image
    /\ UNCHANGED <<action, runs, suspended, log, raw, published, listings>>

(* The drop of a guard ignores errors.  A mount drops its mount point,      *)
(* which deletes the files below it if the filesystem is still mounted.     *)
Drop ==
    LET r == Last(guards) IN
    /\ guards' = Front(guards)
    /\ \/ r = "tempdir" /\ held' = held \ {r} /\ UNCHANGED <<refused, image>>
       \/ r # "tempdir" /\ Released(r) /\ UNCHANGED image
       \/ /\ r # "tempdir" /\ NotReleased(r)
          /\ image' = IF r = "mount" /\ Job # "diff_walk" THEN "deleted" ELSE image
    /\ UNCHANGED <<action, runs, suspended, log, raw, published, listings>>

(* The scope of fill_ext3 ends, with no unmount of its own. *)
DropMount == At("drop_mount") /\ Drop /\ Proceed

Unwind ==
    /\ status = "unwinding"
    /\ \/ guards # <<>> /\ Drop /\ UNCHANGED position
       \/ /\ guards = <<>>
          /\ status' = "failed"
          /\ UNCHANGED <<action, runs, jobs, step, attempt, failed_at, guards, held, refused,
                         disk, listings>>

Block ==
    /\ status = "unwinding" /\ guards # <<>> /\ Blocked(Last(guards))
    /\ status' = "blocked"
    /\ UNCHANGED <<action, runs, jobs, step, attempt, failed_at, guards, held, refused,
                   disk, listings>>

-----------------------------------------------------------------------------
(* check: debugfs reads the image, whatever state the filesystem is in. *)
check ==
    /\ At("check") /\ Plain
    /\ Proceed \/ Fail
    /\ UNCHANGED <<disk, listings>>

(* Mistake: the log of the last attempt is taken as it is. *)
logdump_last_attempt ==
    /\ At("logdump") /\ Plain
    /\ \/ (log = BlockKinds \/ attempt = MaxAttempts) /\ Proceed
       \/ /\ log # BlockKinds /\ attempt < MaxAttempts
          /\ attempt' = attempt + 1 /\ step' = 1
          /\ UNCHANGED <<jobs, status, failed_at>>
       \/ Fail
    /\ UNCHANGED <<disk, listings>>

(* Mistake: attempts are made until one succeeds. *)
logdump_until_it_succeeds ==
    /\ At("logdump") /\ Plain
    /\ \/ log = BlockKinds /\ Proceed
       \/ log # BlockKinds /\ step' = 1 /\ UNCHANGED <<jobs, attempt, status, failed_at>>
       \/ Fail
    /\ UNCHANGED <<disk, listings>>

(* The journal must have the three kinds of blocks: another attempt is made *)
(* from the start if it has not.                                            *)
logdump ==
    /\ At("logdump") /\ Plain
    /\ \/ log = BlockKinds /\ Proceed
       \/ /\ log # BlockKinds /\ attempt < MaxAttempts
          /\ attempt' = attempt + 1 /\ step' = 1
          /\ UNCHANGED <<jobs, status, failed_at>>
       \/ Fail
    /\ UNCHANGED <<disk, listings>>

(* zstd_compress: what the image file holds then is what the tests get. *)
compress ==
    /\ At("compress") /\ Plain
    /\ \/ /\ Proceed
          /\ published' = published \union
                {[job |-> Job, image |-> image, log |-> log, mounted |-> "mount" \in held]}
          /\ image' = "none"
       \/ Fail /\ UNCHANGED <<published, image>>
    /\ UNCHANGED <<suspended, log, raw, listings>>

build ==
    /\ At("build") /\ Plain
    /\ Proceed \/ Fail
    /\ UNCHANGED <<disk, listings>>

(* A compressed input is decompressed into a temporary directory. *)
decompress ==
    /\ At("decompress")
    /\ Proceed \/ Fail
    /\ \/ UNCHANGED <<guards, held>>
       \/ /\ guards' = Append(guards, "tempdir")
          /\ held' = held \union {"tempdir"}
    /\ UNCHANGED <<action, runs, refused, disk, listings>>

walk_with_lib ==
    /\ At("walk_with_lib") /\ Plain
    /\ \/ Proceed /\ actual' \in Listings
       \/ Fail /\ UNCHANGED actual
    /\ UNCHANGED <<disk, mounted>>

(* In the program mount_and_walk, between its Mount::new and its unmount *)
walk_mounted ==
    /\ At("walk_mounted") /\ Plain
    /\ \/ Proceed /\ mounted' \in Listings
       \/ Fail /\ UNCHANGED mounted
    /\ UNCHANGED <<disk, actual>>

(* An entry has its path, its mode and owner, and its content (a symlink's  *)
(* target, say).  They are joined by spaces and may have spaces in them:    *)
(* each is a sequence of words here.                                        *)
format(e) == e.path \o e.mode_owner \o e.content

(* What mount_and_walk prints, and that text split at newlines, without the *)
(* empty line at the end                                                    *)
Text(listing) == FoldLeft(LAMBDA t, e : t \o format(e) \o <<Newline>>, <<>>, listing)
split(text) ==
    LET ends == {i \in 1..Len(text) : text[i] = Newline}
        end(k) == IF k = 0 THEN 0
                  ELSE CHOOSE i \in ends : Cardinality({j \in ends : j <= i}) = k
    IN  [k \in 1..Cardinality(ends) |-> SubSeq(text, end(k - 1) + 1, end(k) - 1)]

expected == split(Text(mounted))

(* Mistake: only the lines that both have are compared. *)
differ_in_common_lines ==
    LET lines == expected
    IN  \E i \in 1..Len(actual) : i <= Len(lines) /\ format(actual[i]) # lines[i]

differ ==
    LET lines == expected
    IN  \/ \E i \in 1..Len(actual) : i <= Len(lines) /\ format(actual[i]) # lines[i]
        \/ Len(actual) # Len(lines)

(* process::exit runs no drops. *)
compare ==
    /\ At("compare") /\ Plain
    /\ \/ ~differ /\ Proceed
       \/ differ /\ status' = "exited" /\ UNCHANGED <<jobs, step, attempt, failed_at>>
    /\ UNCHANGED <<disk, listings>>

(* Ok(()) is returned: the temporary directory of diff_walk is dropped. *)
Finish ==
    /\ status = "running" /\ jobs = <<>>
    /\ status' = "ok"
    /\ guards' = <<>> /\ held' = held \ {"tempdir"}
    /\ UNCHANGED <<action, runs, jobs, step, attempt, failed_at, refused, disk, listings>>

(* The tool is run again, after whatever was left behind is cleaned up. *)
RunAgain ==
    /\ status \in {"ok", "failed"} /\ runs < MaxRuns
    /\ runs' = runs + 1
    /\ jobs' = JobsOf(action, raw # "none")
    /\ step' = 1 /\ attempt' = 1 /\ status' = "running" /\ failed_at' = "nothing"
    /\ guards' = <<>> /\ held' = {} /\ refused' = {}
    /\ suspended' = FALSE /\ image' = "none" /\ log' = {} /\ published' = {}
    /\ actual' = <<>> /\ mounted' = <<>>
    /\ UNCHANGED <<action, raw>>

Run ==
    \/ create \/ truncate
    \/ losetup \/ dmsetup \/ mount
    \/ write \/ suspend \/ load_table \/ resume
    \/ unmount \/ remove \/ detach
    \/ DropMount \/ check \/ logdump \/ compress
    \/ build \/ decompress \/ walk_with_lib \/ walk_mounted \/ compare
    \/ Unwind \/ Block \/ Finish

Next == Run \/ RunAgain

(* Every command but the umount of a suspended device returns. *)
Spec == Init /\ [][Next]_vars /\ WF_vars(Run)

-----------------------------------------------------------------------------
(* Whatever step fails, each device, mount and temporary directory that is   *)
(* left when a run returns is there because the system refused to release   *)
(* it, or one stacked on it: the guards are dropped in the order in which    *)
(* releases can succeed.  process::exit leaves the temporary directory.      *)
CleansUp ==
    /\ status \in {"ok", "failed"} =>
          \A r \in held : ({r} \union Above(r)) \intersect refused # {}
    /\ status = "exited" => held \subseteq {"tempdir"}

(* A compressed disk is not mounted and holds all the files that were        *)
(* written.  The one made for the journal holds what reached it before the   *)
(* writes were dropped, but has the three kinds of blocks in its log.  The   *)
(* ext3 disk is complete unless its umount, left to a drop, was refused.     *)
PublishesCompleteDisks ==
    \A p \in published :
        \/ ~p.mounted /\ IF p.job = "journal" THEN p.log = BlockKinds ELSE p.image = "full"
        \/ p.job = "ext3" /\ p.mounted /\ "mount" \in refused

HasSpace(e) == Len(e.path) > 1 \/ Len(e.content) > 1
HasNewline(e) == \E i \in 1..Len(format(e)) : format(e)[i] = Newline

(* diff_walk reports success only if the two walks print the same text, and  *)
(* thus, unless a path or a target has a space in it, yield the same         *)
(* entries; and a difference only if the texts differ or a path has a        *)
(* newline in it.                                                            *)
DiffWalkDecides ==
    action = "DiffWalk" =>
        /\ status = "ok" =>
              /\ Text(actual) = Text(mounted)
              /\ \/ actual = mounted
                 \/ \E l \in {actual, mounted} : \E i \in 1..Len(l) : HasSpace(l[i])
        /\ status = "exited" =>
              \/ Text(actual) # Text(mounted)
              \/ \E l \in {actual, mounted} : \E i \in 1..Len(l) : HasNewline(l[i])

(* A run always ends, also when no attempt gives the journal its blocks,     *)
(* unless the device is suspended when the load or the resume fails: then    *)
(* the umount that cleans up waits for it.                                   *)
Finishes ==
    status = "running" ~>
        \/ status \in {"ok", "failed", "exited"}
        \/ status = "blocked" /\ failed_at \in {"load", "resume"}

(* main.rs: "Create a 1KiB file containing just the superblock data." *)
RawIsSuperblock == action = "CreateTestData" /\ status = "ok" => raw = "superblock"
=============================================================================

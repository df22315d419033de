------------------------------ MODULE MCXtask -------------------------------
(* The ten attempts of the code, two runs of the tool, and listings of up   *)
(* to two entries.  Words stand for what is between two spaces: a path and  *)
(* a target with spaces in them give two entries the same line, and one     *)
(* path has a newline in it.                                                *)
EXTENDS Xtask, TLC

Entry(path, content) == [path |-> path, mode_owner |-> <<"755", "0:0">>, content |-> content]

A == Entry(<<"/a">>, <<"dir">>)
B == Entry(<<"/b">>, <<"symlink=/a">>)
SpaceInTarget == Entry(<<"/s">>, <<"symlink=x", "755", "0:0", "dir">>)
SpaceInPath == Entry(<<"/s", "755", "0:0", "symlink=x">>, <<"dir">>)
NewlineInPath == Entry(<<"/n", "newline", "/n">>, <<"dir">>)

MCListings == UNION {[1..n -> {A, B}] : n \in 0..2}
              \union {<<A, e>> : e \in {SpaceInTarget, SpaceInPath, NewlineInPath}}
=============================================================================

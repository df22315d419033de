-------------------------------- MODULE Path --------------------------------
(***************************************************************************)
(* Paths and names (src/path.rs, src/dir_entry.rs): strings of bytes that  *)
(* are checked once, when they are made, and trusted afterwards.  A client *)
(* makes a PathBuf, pushes onto it, and iterates over its components.      *)
(***************************************************************************)
EXTENDS Integers, Sequences, FiniteSets

CONSTANTS Inputs,       \* strings of bytes a client passes in
          MAX_LEN,      \* DirEntryName::MAX_LEN
          MaxPushes     \* bound on the pushes onto one PathBuf

ASSUME PathAssumption ==
    /\ MAX_LEN \in Nat \ {0}
    /\ MaxPushes \in Nat
    /\ Inputs \subseteq Seq(0 .. 255)

NULL == 0
SEPARATOR == 47
DOT == 46

VARIABLES buf,          \* the PathBuf
          pushes,
          offset,       \* Components: where the next component is looked for
          items,        \* the components it has returned
          status        \* of the last call: "ok", "none", an error or "panic"

pathVars == <<buf, pushes, offset, items, status>>

ContainsNull(s) == \E i \in DOMAIN s : s[i] = NULL

(* Mistake: one byte more is allowed. *)
ComponentTooLongByOne(s) ==
    \E i \in DOMAIN s :
        /\ i = 1 \/ s[i - 1] = SEPARATOR
        /\ i + MAX_LEN + 1 <= Len(s)
        /\ \A j \in i .. i + MAX_LEN + 1 : s[j] # SEPARATOR

(* A component between separators is longer than MAX_LEN. *)
ComponentTooLong(s) ==
    \E i \in DOMAIN s :
        /\ i = 1 \/ s[i - 1] = SEPARATOR
        /\ i + MAX_LEN <= Len(s)
        /\ \A j \in i .. i + MAX_LEN : s[j] # SEPARATOR

try_from(s) == IF ContainsNull(s) THEN "ContainsNull"
               ELSE IF ComponentTooLong(s) THEN "ComponentTooLong"
               ELSE "ok"

(* DirEntryName::try_from *)
name_try_from(s) == IF s = <<>> THEN "Empty"
                    ELSE IF Len(s) > MAX_LEN THEN "TooLong"
                    ELSE IF ContainsNull(s) THEN "ContainsNull"
                    ELSE IF \E i \in DOMAIN s : s[i] = SEPARATOR
                         THEN "ContainsSeparator"
                    ELSE "ok"

is_absolute(p) == p # <<>> /\ p[1] = SEPARATOR

(* A change of the path ends the borrow of an iterator over it. *)
NewIterator == offset' = 0 /\ items' = <<>>

PathInit ==
    /\ buf = <<>>
    /\ pushes = 0
    /\ offset = 0
    /\ items = <<>>
    /\ status = "ok"

Running == status # "panic"

TryFrom(s) ==
    /\ Running
    /\ buf = <<>> /\ pushes = 0
    /\ status' = try_from(s)
    /\ IF try_from(s) = "ok" THEN buf' = s /\ NewIterator
                             ELSE UNCHANGED <<buf, offset, items>>
    /\ UNCHANGED pushes

(* Mistake: a separator is added only if the path has none. *)
pushed_onto_name(p) ==
    IF is_absolute(p) THEN p
    ELSE IF \A i \in DOMAIN buf : buf[i] # SEPARATOR
         THEN buf \o <<SEPARATOR>> \o p
    ELSE buf \o p

pushed(p) ==
    IF is_absolute(p) THEN p
    ELSE IF buf # <<>> /\ buf[Len(buf)] # SEPARATOR
         THEN buf \o <<SEPARATOR>> \o p
    ELSE buf \o p

(* push; join pushes onto a copy *)
Push(s) ==
    /\ Running
    /\ pushes < MaxPushes
    /\ pushes' = pushes + 1
    /\ IF try_from(s) = "ok"
       THEN buf' = pushed(s) /\ NewIterator /\ status' = "ok"
       ELSE status' = "panic" /\ UNCHANGED <<buf, offset, items>>

-----------------------------------------------------------------------------
(* Mistake: repeated separators are not coalesced. *)
SkipOneSeparator(i) == IF i < Len(buf) /\ buf[i + 1] = SEPARATOR THEN i + 1 ELSE i

(* Where the separators from byte i on end, as an offset *)
SkipSeparators(i) ==
    CHOOSE j \in i .. Len(buf) :
        /\ j = Len(buf) \/ buf[j + 1] # SEPARATOR
        /\ \A k \in i + 1 .. j : buf[k] = SEPARATOR

ComponentEnd(i) ==
    CHOOSE j \in i .. Len(buf) :
        /\ j = Len(buf) \/ buf[j + 1] = SEPARATOR
        /\ \A k \in i + 1 .. j : buf[k] # SEPARATOR

Component(s) == CASE s = <<DOT>> -> <<"CurDir">>
                  [] s = <<DOT, DOT>> -> <<"ParentDir">>
                  [] OTHER -> <<"Normal", s>>

(* Components::next *)
RootDir ==
    /\ Running
    /\ offset = 0 /\ is_absolute(buf)
    /\ offset' = 1
    /\ items' = Append(items, <<"RootDir">>)
    /\ status' = "ok"
    /\ UNCHANGED <<buf, pushes>>

NextName ==
    /\ Running
    /\ ~ (offset = 0 /\ is_absolute(buf))
    /\ SkipSeparators(offset) < Len(buf)
    /\ LET start == SkipSeparators(offset)
           end == ComponentEnd(start)
       IN  /\ items' = Append(items, Component(SubSeq(buf, start + 1, end)))
           /\ offset' = end
    /\ status' = "ok"
    /\ UNCHANGED <<buf, pushes>>

NoMoreNames ==
    /\ Running
    /\ ~ (offset = 0 /\ is_absolute(buf))
    /\ SkipSeparators(offset) = Len(buf)
    /\ offset' = Len(buf)
    /\ status' = "none"
    /\ UNCHANGED <<buf, pushes, items>>

PathNext == \/ \E s \in Inputs : TryFrom(s) \/ Push(s)
            \/ RootDir \/ NextName \/ NoMoreNames

PathSpec == PathInit /\ [][PathNext]_pathVars

-----------------------------------------------------------------------------
(* Path and PathBuf are "mostly arbitrary sequences of bytes" with no null *)
(* byte and no component longer than 255 bytes, however they were made.    *)
(* Components::next relies on it: it makes a DirEntryName of a component   *)
(* with no check.                                                          *)
BufIsValid == try_from(buf) = "ok"

(* Every name the iterator returns would pass the check of DirEntryName,   *)
(* which Components::next leaves out ("Paths are validated at construction *)
(* time") and which resolve_path unwraps.                                  *)
ComponentsAreNames ==
    \A i \in DOMAIN items :
        items[i][1] = "Normal" => name_try_from(items[i][2]) = "ok"

(* The components of a path by their definition: the root if it begins     *)
(* with a separator, and every longest run of other bytes, in order.       *)
Starts(p) == {i \in DOMAIN p : p[i] # SEPARATOR /\ (i = 1 \/ p[i - 1] = SEPARATOR)}
StartsTo(p, i) == {j \in Starts(p) : j <= i}
Start(p, k) == CHOOSE i \in Starts(p) : Cardinality(StartsTo(p, i)) = k

RunFrom(p, i) ==
    LET ends == {j \in i .. Len(p) : j = Len(p) \/ p[j + 1] = SEPARATOR}
    IN  SubSeq(p, i, CHOOSE j \in ends : \A k \in ends : j <= k)

RootOf(p) == IF is_absolute(p) THEN << <<"RootDir">> >> ELSE <<>>

Split(p) ==
    RootOf(p) \o [k \in 1 .. Cardinality(Starts(p)) |-> Component(RunFrom(p, Start(p, k)))]

(* The iterator returns the components in order, none of them empty, and   *)
(* ends after the last one, wherever separators are repeated.              *)
IteratesComponents ==
    /\ Len(items) <= Len(Split(buf))
    /\ \A i \in DOMAIN items : items[i] = Split(buf)[i]
    /\ status = "none" => Len(items) = Len(Split(buf))

(* push "will add a separator if needed": the components of the argument   *)
(* follow those of the path and none are joined or lost; an absolute       *)
(* argument replaces the path.                                             *)
PushAppends ==
    [][\A s \in Inputs : Push(s) /\ status' = "ok" =>
          Split(buf') = IF is_absolute(s) THEN Split(s) ELSE Split(buf) \o Split(s)
      ]_pathVars
=============================================================================

------------------------------- MODULE SafeRead -------------------------------
(***************************************************************************)
(* read_regular_file_bounded (safeio.py): a file is read whole through a     *)
(* path of one directory and one name while another process may rename       *)
(* things on the path, put links there or write the file anew in place.      *)
(* Every system call is a step; what it sees may have changed at the next.   *)
(*                                                                         *)
(* Two directories and two regular files exist; "top" is the path's first    *)
(* component, an entry says what a directory has under the path's name.      *)
(* Reproducer.tla reads the source of an export this way.                    *)
(***************************************************************************)
EXTENDS Integers, Sequences, FiniteSets

CONSTANT Moves        \* bound: what the other process may do during a read

ASSUME MovesAssumption == Moves \in Nat

Dirs == {"dir1", "dir2"}
RegularFiles == {"file1", "file2"}
Things == RegularFiles \union {"link to file2", "nothing"}
Tops == Dirs \union {"link to dir2"}

VARIABLES
    top,       \* what the first component is
    entry,     \* what each directory holds under the name
    rewritten, \* the files that have been written anew since the read began
    moves,     \* bound: how often the other process may act yet
    at,        \* the reader's place
    before,    \* the identities read before the file is opened
    opened,    \* the object the descriptor refers to
    data       \* per chunk read, whether the file had been rewritten

worldVars == <<top, entry, rewritten, moves>>
readVars == <<at, before, opened, data>>
fileVars == <<worldVars, readVars>>

DirOf(t) == IF t = "link to dir2" THEN "dir2" ELSE t
Name == entry[DirOf(top)]                   \* lstat of the whole path

ReadOver == at \in {"read", "refused"}

-----------------------------------------------------------------------------
(* The other process.                                                      *)

Disturb ==
    /\ moves > 0
    /\ ~ReadOver
    /\ moves' = moves - 1
    /\ UNCHANGED readVars

MoveTop ==
    /\ top' \in Tops \ {top}
    /\ UNCHANGED <<entry, rewritten>>
    /\ Disturb

MoveEntry ==
    /\ \E d \in Dirs, t \in Things :
          /\ t # entry[d]
          /\ entry' = [entry EXCEPT ![d] = t]
    /\ UNCHANGED <<top, rewritten>>
    /\ Disturb

Rewrite ==
    /\ \E f \in RegularFiles \ rewritten : rewritten' = rewritten \union {f}
    /\ UNCHANGED <<top, entry>>
    /\ Disturb

-----------------------------------------------------------------------------
(* The reader.                                                             *)

Step(place) ==
    /\ at' = place
    /\ UNCHANGED worldVars

Or(ok, place) == IF ok THEN place ELSE "refused"

\* ensure_regular_file, which the export command asks first.
EnsureRegular ==
    /\ at = "ensure"
    /\ Step(Or(/\ Name \in RegularFiles /\ top # "link to dir2", "reject name"))
    /\ UNCHANGED <<before, opened, data>>

\* _reject_link_ancestors: the path first, then what is above it.
RejectName ==
    /\ at = "reject name"
    /\ Step(Or(Name # "link to file2", "reject top"))
    /\ UNCHANGED <<before, opened, data>>

RejectTop ==
    /\ at = "reject top"
    /\ Step(Or(top # "link to dir2", "lstat name"))
    /\ UNCHANGED <<before, opened, data>>

\* What cannot be looked at is left out of `before'.
LstatName ==
    /\ at = "lstat name"
    /\ before' = [before EXCEPT !.name = Name]
    /\ Step("lstat top")
    /\ UNCHANGED <<opened, data>>

LstatTop ==
    /\ at = "lstat top"
    /\ before' = [before EXCEPT !.top = top]
    /\ Step("open")
    /\ UNCHANGED <<opened, data>>

\* O_NOFOLLOW concerns the last component alone.
Open ==
    /\ at = "open"
    /\ opened' = Name
    /\ Step(Or(Name \in RegularFiles, "compare name"))
    /\ UNCHANGED <<before, data>>

\* A mutant of CompareName: the identities of before are not looked at again.
CompareNameNever ==
    /\ at = "compare name"
    /\ Step("compare top")
    /\ UNCHANGED <<before, opened, data>>

CompareName ==
    /\ at = "compare name"
    /\ Step(Or(before.name \in {"nothing", Name}, "compare top"))
    /\ UNCHANGED <<before, opened, data>>

CompareTop ==
    /\ at = "compare top"
    /\ Step(Or(before.top = top, "compare opened"))
    /\ UNCHANGED <<before, opened, data>>

\* A mutant of CompareOpened: the path is not asked again what it leads to.
CompareOpenedNever ==
    /\ at = "compare opened"
    /\ Step("size")
    /\ UNCHANGED <<before, opened, data>>

CompareOpened ==
    /\ at = "compare opened"
    /\ Step(Or(Name = opened, "size"))
    /\ UNCHANGED <<before, opened, data>>

\* The size of the open file, and its content in two reads.
CheckSize(oversized) ==
    /\ at = "size"
    /\ Step(Or(opened \notin oversized, "first"))
    /\ UNCHANGED <<before, opened, data>>

ReadFirst ==
    /\ at = "first"
    /\ data' = <<opened \in rewritten>>
    /\ Step("rest")
    /\ UNCHANGED <<before, opened>>

ReadRest ==
    /\ at = "rest"
    /\ data' = Append(data, opened \in rewritten)
    /\ Step("read")
    /\ UNCHANGED <<before, opened>>

\* The path's first component, what it holds, and how often it is disturbed.
ReadInit(firstTop, firstName, disturbances) ==
    /\ top = firstTop
    /\ entry = [dir1 |-> firstName, dir2 |-> "file2"]
    /\ rewritten = {}
    /\ moves = disturbances
    /\ at = "ensure"
    /\ before = [name |-> "nothing", top |-> "nothing"]
    /\ opened = "nothing"
    /\ data = <<>>

WorldStep == MoveTop \/ MoveEntry \/ Rewrite

ReadStep(oversized) ==
    \/ EnsureRegular \/ RejectName \/ RejectTop \/ LstatName \/ LstatTop \/ Open
    \/ CompareName \/ CompareTop \/ CompareOpened \/ CheckSize(oversized)
    \/ ReadFirst \/ ReadRest
===============================================================================

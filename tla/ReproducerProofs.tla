-------------------------- MODULE ReproducerProofs --------------------------
(***************************************************************************)
(* `reprosieve export' and the exported reproduce.py, for any archives,      *)
(* children, sizes, numbers of trials and of what another process does: the  *)
(* README comes last, what is read is what the path named, the script's      *)
(* child sees what the runner's does, both loaders accept the same archives,  *)
(* and reproduce.py implements the promise of Verdicts.                      *)
(*                                                                         *)
(* The script walks what it has loaded as the package does: in the second     *)
(* half, for documents, limits, policies and patterns of any size, the walks  *)
(* of Documents are exact, the redactor leaves no secret and reports what it  *)
(* replaced, and the test of user patterns misses no quantifier.             *)
(***************************************************************************)
EXTENDS Reproducer, Documents, SequenceTheorems, FiniteSetTheorems, WellFoundedInduction, TLAPS

-----------------------------------------------------------------------------
(* The files.                                                              *)

\* How far the exporter is says which files there are; whoever is killed, is
\* killed before the README is whole.
FilesFollow ==
    /\ files \in [FileNames -> FileStates]
    /\ exporter \in FileNames \union {"check", "rmtree", "done", "raised", "killed"}
    /\ exporter \in {"check", "raised"} => \A f \in FileNames : files[f] = "absent"
    /\ exporter = "capsule" => files["script"] = "absent"
    /\ exporter = "script" => files["capsule"] = "whole"
    /\ exporter = "readme" => files["capsule"] = "whole" /\ files["script"] = "whole"
    /\ exporter = "done" => \A f \in FileNames : files[f] = "whole"
    /\ exporter \in {"capsule", "script"} => files["readme"] = "absent"
    /\ exporter \in {"readme", "rmtree", "killed"} => files["readme"] # "whole"

\* What is in the directory was exportable, unless somebody has replaced it.
ExportedIsExportable ==
    /\ capsule \in DOMAIN ArchiveDocs \union {"torn"}
    /\ exporter \in FileNames \/ files["capsule"] # "absent" =>
          \/ world.beside # "exported" /\ ExportOver
          \/ capsule # "torn" /\ Exportable(ArchiveDocs[capsule])

-----------------------------------------------------------------------------
(* The read of the source.                                                 *)

Used == world.moves - moves

BeforeOpen == {"ensure", "reject name", "reject top", "lstat name"}
Compared == {"size", "first", "rest", "read"}
Held == {"compare name", "compare top", "compare opened"} \union Compared

\* There was something of the name, and it is not what has been opened.
Displaced == before.name \notin {"nothing", opened}

ReadTyped ==
    /\ top \in Tops /\ entry \in [Dirs -> Things] /\ rewritten \subseteq RegularFiles
    /\ moves \in 0..world.moves
    /\ at \in BeforeOpen \union {"lstat top", "open", "refused"} \union Held
    /\ before \in [name : Things, top : Tops \union {"nothing"}]
    /\ opened \in Things
    /\ at \in Held => opened \in RegularFiles
    /\ data \in Seq(BOOLEAN)

\* Each time the name has to mean something else, somebody has made a move.
MovesAreCounted ==
    /\ at \in {"lstat top", "open"} /\ before.name \notin {"nothing", Name} => Used >= 1
    /\ at = "compare name" /\ Displaced =>
          Used >= 1 /\ (Name = before.name => Used >= 2)
    /\ at \in {"compare top", "compare opened"} /\ Displaced =>
          Used >= 2 /\ (Name = opened => Used >= 3)
    /\ at \in Compared /\ Displaced => Used >= 3

\* And what is seen when nobody makes one.
Undisturbed ==
    moves = world.moves =>
        /\ rewritten = {}
        /\ at \in {"lstat name", "lstat top", "open"} \union Held => top # "link to dir2"
        /\ at \in Held => opened = Name
        /\ at = "rest" => data = <<FALSE>>
        /\ at = "read" => data = <<FALSE, FALSE>>

-----------------------------------------------------------------------------
(* reproduce.py.                                                           *)

\* The places of a trial, from the start of its child to its record.
Ending == {"terminate", "reap", "none1", "none2", "none"}
Gone == {"join1", "join2", "result", "none1", "none2", "none"}
Busy == {"poll", "test"} \union Ending \union Gone

\* The locals of a trial that has not begun.
Fresh ==
    /\ child = "none"
    /\ ~deadline /\ ~killing /\ ~exceeded
    /\ left = Nothing /\ unread = Nothing /\ counts = Nothing
    /\ drain = [s \in Streams |-> "reading"]

FlagsTyped ==
    /\ embedded \in BOOLEAN /\ deadline \in BOOLEAN /\ killing \in BOOLEAN
    /\ exceeded \in BOOLEAN /\ timedOut \in BOOLEAN /\ late \in BOOLEAN

Values == {"reproduces", "absent", "invalid"}

CallTyped ==
    /\ world \in Worlds
    /\ pc \in Busy \union {"idle", "trial", "over"}
    /\ results \in Seq(Values)
    /\ exit \in {"none", "0", "1", "2"}
    /\ child \in Codes \union {"none", "running"}

UnitsTyped ==
    /\ left \in [Streams -> Nat]
    /\ unread \in [Streams -> 0..(PipeSize + Chunk)]
    /\ drain \in [Streams -> {"reading", "eof", "limit"}]
    /\ counts \in [Streams -> Nat]

\* Where the main thread is says what has become of the export, of the child
\* and of the results.
PlacesAgree ==
    /\ pc # "idle" => ExportOver
    /\ pc = "idle" => results = <<>>
    /\ pc \in Busy \union {"trial"} =>
          files["script"] = "whole" /\ Len(results) < Trials /\ (embedded <=> world.runs)
    /\ pc \notin Busy => Fresh
    /\ pc \in Busy => child # "none" /\ embedded
    /\ pc \in Gone => child \in Codes

\* Nobody kills a child without a reason, and each reason has its cause.
ReasonsHaveCauses ==
    /\ deadline => timedOut
    /\ pc \in Ending => exceeded \/ deadline
    /\ killing => pc \in Ending

\* A child that is over has ended as it would, with everything written, or was
\* killed.
EndsAreTrue ==
    pc \in Busy /\ child \in Codes =>
        \/ child = "signal" /\ killing
        \/ child = world.plan[Trial].end /\ left = Nothing

\* Every unit of a stream is at one place.
UnitsAreKept ==
    pc \in Busy =>
        \A s \in Streams : counts[s] + unread[s] + left[s] = world.plan[Trial].writes[s]

\* Why a drain thread has stopped.
DrainsAreTrue ==
    /\ \A s \in Streams : drain[s] = "eof" => child \in Codes /\ unread[s] = 0
    /\ \A s \in Streams : drain[s] = "limit" => exceeded
    /\ exceeded => Total(counts) > OutputLimit

\* And when it has not.
LateIsKnown ==
    ~late =>
        /\ pc = "join2" => drain[1] # "reading"
        /\ pc = "result" => \A s \in Streams : drain[s] # "reading"

EnvironmentAgrees ==
    /\ childEnv \in [Names -> {"unset", "host", "captured", "fixed", "empty"}]
    /\ child # "none" => childEnv = TrialEnvironment(HostNames, world.captured)

ExportInv == FilesFollow /\ ExportedIsExportable
ReadInv == ReadTyped /\ MovesAreCounted /\ Undisturbed
CallInv ==
    /\ FlagsTyped
    /\ CallTyped
    /\ UnitsTyped
    /\ PlacesAgree
    /\ ReasonsHaveCauses
    /\ EndsAreTrue
    /\ UnitsAreKept
    /\ DrainsAreTrue
    /\ LateIsKnown
    /\ EnvironmentAgrees

\* What every step of the export, the read and the script preserves.
IInv == ExportInv /\ ReadInv /\ CallInv


-----------------------------------------------------------------------------
(* Every step is one of the export's, which the script does not see, or one *)
(* of the script's, which touches no file.                                  *)

ExportMoves == ExportStep \/ ExporterKilled \/ ReplaceCapsule
ScriptMoves ==
    \/ \E trusted \in BOOLEAN : Launch(trusted)
    \/ MainStep \/ ChildEnds \/ ChildDies \/ DeadlinePasses
    \/ \E s \in Streams : ChildWrites(s) \/ Drain(s) \/ DrainEnds(s)
    \/ Finished

\* The steps of the export and around it leave the script alone.
LEMMA ExportKeeps == ExportMoves => UNCHANGED exporting
BY DEF ExportMoves, ExportStep, ExporterKilled, ReplaceCapsule, ReadSource, ExportChecks,
       RmtreeEnds, Create, Fill, WriteFails, RemoveFile

\* The steps of the script leave the files alone.
LEMMA ScriptKeeps == ScriptMoves => UNCHANGED <<world, exportVars>>
<1> USE DEF childVars
<1>1. \A trusted \in BOOLEAN : Launch(trusted) => UNCHANGED <<world, exportVars>>
  BY DEF Launch, mainKeeps
<1>2. MainStep => UNCHANGED <<world, exportVars>>
  BY DEF MainStep, StartTrial, MkdirFails, NoTrial, Poll, TestLimits, Terminate, Reap,
         JoinReturns, JoinTimesOut, Stopped, Returned, Record, Goto, mainKeeps
<1>3. ChildEnds \/ ChildDies \/ DeadlinePasses => UNCHANGED <<world, exportVars>>
  BY DEF ChildEnds, ChildDies, DeadlinePasses, others
<1>4. \A s \in Streams : ChildWrites(s) \/ Drain(s) \/ DrainEnds(s)
          => UNCHANGED <<world, exportVars>>
  BY DEF ChildWrites, Drain, DrainEnds, others
<1>5. Finished => UNCHANGED <<world, exportVars>>
  BY DEF Finished, vars
<1> QED BY <1>1, <1>2, <1>3, <1>4, <1>5 DEF ScriptMoves

\* There are no other steps.
LEMMA NextSplit ==
    ASSUME [Next]_vars
    PROVE  ExportMoves \/ ScriptMoves \/ UNCHANGED vars
BY DEF Next, ExportMoves, ScriptMoves

-----------------------------------------------------------------------------
(* The export.                                                             *)

\* One file after the other, and all of them go when one fails.
LEMMA StepFiles ==
    ASSUME FilesFollow, [Next]_vars
    PROVE  FilesFollow'
<1> USE DEF FilesFollow, FileNames, FileStates
<1>1. CASE ReadSource
  BY <1>1 DEF ReadSource
<1>2. CASE ExportChecks
  BY <1>2 DEF ExportChecks
<1>3. CASE RmtreeEnds
  BY <1>3 DEF RmtreeEnds
<1>4. ASSUME NEW f \in FileNames, Create(f)
      PROVE  FilesFollow'
  BY <1>4 DEF Create
<1>5. ASSUME NEW f \in FileNames, Fill(f)
      PROVE  FilesFollow'
  <2>1. CASE f = "capsule"
    BY <1>5, <2>1 DEF Fill, NextFile
  <2>2. CASE f = "script"
    BY <1>5, <2>2 DEF Fill, NextFile
  <2>3. CASE f = "readme"
    BY <1>5, <2>3 DEF Fill, NextFile
  <2> QED BY <2>1, <2>2, <2>3
<1>6. ASSUME NEW f \in FileNames, WriteFails(f)
      PROVE  FilesFollow'
  BY <1>6 DEF WriteFails
<1>7. ASSUME NEW f \in FileNames, RemoveFile(f)
      PROVE  FilesFollow'
  BY <1>7 DEF RemoveFile
<1>8. CASE ExporterKilled
  BY <1>8 DEF ExporterKilled
<1>9. CASE ReplaceCapsule
  BY <1>9 DEF ReplaceCapsule
<1>10. CASE UNCHANGED <<world, exportVars>>
  BY <1>10 DEF exportVars
<1>11. UNCHANGED vars => UNCHANGED <<world, exportVars>>
  BY DEF vars
<1> QED
  BY <1>1, <1>2, <1>3, <1>4, <1>5, <1>6, <1>7, <1>8, <1>9, <1>10, <1>11, NextSplit, ScriptKeeps
     DEF ExportMoves, ExportStep

\* Whatever somebody puts there, it is there after the export only.
LEMMA StepExported ==
    ASSUME FilesFollow, ExportedIsExportable, world \in Worlds, [Next]_vars
    PROVE  ExportedIsExportable'
<1> USE DEF ExportedIsExportable, FilesFollow, FileNames, ExportOver, exporting
<1>1. CASE ReadSource
  BY <1>1 DEF ReadSource
<1>2. CASE ExportChecks
  <2>1. DataRead \in DOMAIN ArchiveDocs \union {"torn"}
    BY WorldsAssumption DEF DataRead
  <2> QED BY <1>2, <2>1 DEF ExportChecks
<1>3. CASE RmtreeEnds
  BY <1>3 DEF RmtreeEnds
<1>4. ASSUME NEW f \in FileNames, Create(f)
      PROVE  ExportedIsExportable'
  BY <1>4 DEF Create
<1>5. ASSUME NEW f \in FileNames, Fill(f)
      PROVE  ExportedIsExportable'
  BY <1>5 DEF Fill
<1>6. ASSUME NEW f \in FileNames, WriteFails(f)
      PROVE  ExportedIsExportable'
  BY <1>6 DEF WriteFails
<1>7. ASSUME NEW f \in FileNames, RemoveFile(f)
      PROVE  ExportedIsExportable'
  BY <1>7 DEF RemoveFile
<1>8. CASE ExporterKilled
  BY <1>8 DEF ExporterKilled
<1>9. CASE ReplaceCapsule
  BY <1>9, WorldsAssumption DEF ReplaceCapsule, Replaced
<1>10. CASE UNCHANGED <<world, exportVars>>
  BY <1>10 DEF exportVars
<1>11. UNCHANGED vars => UNCHANGED <<world, exportVars>>
  BY DEF vars
<1> QED
  BY <1>1, <1>2, <1>3, <1>4, <1>5, <1>6, <1>7, <1>8, <1>9, <1>10, <1>11, NextSplit, ScriptKeeps
     DEF ExportMoves, ExportStep

-----------------------------------------------------------------------------
\* The second chunk after the first.
LEMMA AppendToOne == \A x, y : Append(<<x>>, y) = <<x, y>>
<1> TAKE x, y
<1>1. <<x>> \in Seq({x, y}) /\ <<x, y>> \in Seq({x, y}) /\ Append(<<x>>, y) \in Seq({x, y})
  OBVIOUS
<1>2. Len(Append(<<x>>, y)) = Len(<<x, y>>)
  OBVIOUS
<1>3. \A i \in 1..Len(<<x, y>>) : Append(<<x>>, y)[i] = <<x, y>>[i]
  OBVIOUS
<1> QED BY <1>1, <1>2, <1>3, SeqEqual

-----------------------------------------------------------------------------
(* The read.                                                               *)

\* Only the steps of the read and of the other process change what it knows.
LEMMA ReadOnly ==
    ASSUME [Next]_vars, ~ReadSource
    PROVE  UNCHANGED fileVars
<1>1. ExportMoves => UNCHANGED fileVars
  BY DEF ExportMoves, ExportStep, ExporterKilled, ReplaceCapsule, ExportChecks,
         RmtreeEnds, Create, Fill, WriteFails, RemoveFile
<1>2. UNCHANGED vars => UNCHANGED fileVars
  BY DEF vars, exportVars
<1> QED BY <1>1, <1>2, NextSplit, ScriptKeeps DEF exportVars

\* The path leads to something, or to nothing.
LEMMA NameTyped ==
    ASSUME ReadTyped
    PROVE  Name \in Things
BY DEF ReadTyped, Name, DirOf, Tops, Dirs

\* What a world is, without what its capsule does.
LEMMA WorldTyped ==
    ASSUME world \in Worlds
    PROVE  /\ world.plan \in Plans /\ world.layout \in Layouts /\ world.moves \in 0..Moves
           /\ world.source \in DOMAIN ArchiveDocs /\ Second \in DOMAIN ArchiveDocs
           /\ world.beside \in DOMAIN ArchiveDocs \union {"exported"}
           /\ world.top \in Tops /\ world.name \in Things
BY WorldsAssumption

\* A step of the other process, and the reader's steps, one by one.
LEMMA StepRead ==
    ASSUME ReadInv, world \in Worlds, [Next]_vars
    PROVE  ReadInv'
<1> USE DEF ReadInv
<1>0. world' = world /\ world.moves \in Nat
  <2>1. world' = world
    BY NextSplit, ExportKeeps, ScriptKeeps DEF exporting, vars
  <2> QED BY <2>1, WorldTyped, MovesAssumption
<1>00. moves \in Int /\ 0 <= moves /\ moves <= world.moves
  <2>1. moves \in 0..world.moves
    BY DEF ReadTyped
  <2> QED BY <1>0, <2>1
<1>1. CASE UNCHANGED fileVars
  <2>1. ReadTyped'
    BY <1>0, <1>1 DEF fileVars, worldVars, readVars, ReadTyped
  <2>2. MovesAreCounted' /\ Undisturbed'
    BY <1>0, <1>1 DEF fileVars, worldVars, readVars, MovesAreCounted, Undisturbed, Name,
                      Used, Displaced
  <2> QED BY <2>1, <2>2
<1>2. CASE ReadSource /\ WorldStep
  <2> USE DEF WorldStep, MoveTop, MoveEntry, Rewrite, Disturb, readVars
  <2>1. /\ moves' = moves - 1 /\ moves > 0
        /\ at' = at /\ before' = before /\ opened' = opened /\ data' = data
    BY <1>2
  <2>2. ReadTyped'
    <3>1. top' \in Tops /\ rewritten' \subseteq RegularFiles
      BY <1>2 DEF ReadTyped
    <3>2. entry' \in [Dirs -> Things]
      BY <1>2 DEF ReadTyped
    <3>3. moves' \in 0..world.moves'
      BY <1>0, <1>00, <2>1
    <3> QED BY <2>1, <3>1, <3>2, <3>3 DEF ReadTyped
  <2>3. MovesAreCounted'
    <3>1. Used \in Nat /\ Used' = Used + 1
      BY <1>0, <1>00, <2>1 DEF Used
    <3>3. before' = before /\ at' = at /\ opened' = opened
      BY <2>1
    <3>4. Used' >= 1 /\ (Used >= 1 => Used' >= 2) /\ (Used >= 2 => Used' >= 3)
          /\ (Used >= 3 => Used' >= 3)
          /\ (Used >= 2 => Used' >= 2)
      BY <3>1
    <3> HIDE DEF WorldStep, ReadInv
    <3>5. MovesAreCounted
      BY DEF ReadInv
    <3>6. at' \in {"lstat top", "open"} /\ before'.name \notin {"nothing", Name'} => Used' >= 1
      BY <3>4
    <3>7. at' = "compare name" /\ Displaced' => Used' >= 1 /\ (Name' = before'.name => Used' >= 2)
      BY <3>3, <3>4, <3>5 DEF MovesAreCounted, Displaced
    <3>8. at' \in {"compare top", "compare opened"} /\ Displaced' =>
             Used' >= 2 /\ (Name' = opened' => Used' >= 3)
      BY <3>3, <3>4, <3>5 DEF MovesAreCounted, Displaced
    <3>9. at' \in Compared /\ Displaced' => Used' >= 3
      BY <3>3, <3>4, <3>5 DEF MovesAreCounted, Displaced
    <3> QED BY <3>6, <3>7, <3>8, <3>9 DEF MovesAreCounted
  <2>4. Undisturbed'
    <3>1. moves' # world.moves'
      BY <1>0, <1>00, <2>1
    <3> QED BY <3>1 DEF Undisturbed
  <2> QED BY <2>2, <2>3, <2>4
<1>3. CASE ReadSource /\ ReadStep(Oversized)
  <2>1. PICK oversized : ReadStep(oversized)
    BY <1>3
  <2>2. UNCHANGED <<world, worldVars>>
    BY <1>0, <2>1 DEF ReadStep, EnsureRegular, RejectName, RejectTop, LstatName, LstatTop, Open,
       CompareName, CompareTop, CompareOpened, CheckSize, ReadFirst, ReadRest, Step
  <2>3. Name \in Things /\ Name' = Name
    BY <2>2, NameTyped DEF worldVars, Name
  <2>4. Used \in Nat /\ Used' = Used /\ world.moves' = world.moves /\ moves' = moves
    BY <1>0, <1>00, <2>2 DEF worldVars, Used
  <2> HIDE DEF ReadInv
  <2>5. ReadTyped /\ MovesAreCounted /\ Undisturbed
    BY DEF ReadInv
  <2> USE <2>1, <2>2, <2>3, <2>4, <2>5 DEF ReadInv, worldVars, Step, Or, BeforeOpen, Held, Compared
  <2>11. CASE EnsureRegular
    <3>1. ReadTyped'
      BY <2>11 DEF EnsureRegular, ReadTyped
    <3>2. MovesAreCounted'
      BY <2>11 DEF EnsureRegular, MovesAreCounted, Displaced
    <3>3. Undisturbed'
      BY <2>11 DEF EnsureRegular, Undisturbed
    <3> QED BY <3>1, <3>2, <3>3
  <2>12. CASE RejectName
    <3>1. ReadTyped'
      BY <2>12 DEF RejectName, ReadTyped
    <3>2. MovesAreCounted'
      BY <2>12 DEF RejectName, MovesAreCounted, Displaced
    <3>3. Undisturbed'
      BY <2>12 DEF RejectName, Undisturbed
    <3> QED BY <3>1, <3>2, <3>3
  <2>13. CASE RejectTop
    <3>1. ReadTyped'
      BY <2>13 DEF RejectTop, ReadTyped
    <3>2. MovesAreCounted'
      BY <2>13 DEF RejectTop, MovesAreCounted, Displaced
    <3>3. Undisturbed'
      BY <2>13 DEF RejectTop, Undisturbed
    <3> QED BY <3>1, <3>2, <3>3
  <2>14. CASE LstatName
    <3>1. ReadTyped'
      BY <2>14 DEF LstatName, ReadTyped
    <3>2. MovesAreCounted'
      BY <2>14 DEF LstatName, MovesAreCounted, Displaced, ReadTyped
    <3>3. Undisturbed'
      BY <2>14 DEF LstatName, Undisturbed
    <3> QED BY <3>1, <3>2, <3>3
  <2>15. CASE LstatTop
    <3>1. ReadTyped'
      BY <2>15 DEF LstatTop, ReadTyped
    <3>2. MovesAreCounted'
      BY <2>15 DEF LstatTop, MovesAreCounted, Displaced, ReadTyped
    <3>3. Undisturbed'
      BY <2>15 DEF LstatTop, Undisturbed
    <3> QED BY <3>1, <3>2, <3>3
  <2>16. CASE Open
    <3>1. ReadTyped'
      BY <2>16 DEF Open, ReadTyped
    <3>2. MovesAreCounted'
      BY <2>16 DEF Open, MovesAreCounted, Displaced
    <3>3. Undisturbed'
      BY <2>16 DEF Open, Undisturbed
    <3> QED BY <3>1, <3>2, <3>3
  <2>17. CASE CompareName
    <3>1. ReadTyped'
      BY <2>17 DEF CompareName, ReadTyped
    <3>2. MovesAreCounted'
      BY <2>17 DEF CompareName, MovesAreCounted, Displaced
    <3>3. Undisturbed'
      BY <2>17 DEF CompareName, Undisturbed
    <3> QED BY <3>1, <3>2, <3>3
  <2>18. CASE CompareTop
    <3>1. ReadTyped'
      BY <2>18 DEF CompareTop, ReadTyped
    <3>2. MovesAreCounted'
      BY <2>18 DEF CompareTop, MovesAreCounted, Displaced
    <3>3. Undisturbed'
      BY <2>18 DEF CompareTop, Undisturbed
    <3> QED BY <3>1, <3>2, <3>3
  <2>19. CASE CompareOpened
    <3>1. ReadTyped'
      BY <2>19 DEF CompareOpened, ReadTyped
    <3>2. MovesAreCounted'
      BY <2>19 DEF CompareOpened, MovesAreCounted, Displaced
    <3>3. Undisturbed'
      BY <2>19 DEF CompareOpened, Undisturbed
    <3> QED BY <3>1, <3>2, <3>3
  <2>20. CASE CheckSize(oversized)
    <3>1. ReadTyped'
      BY <2>20 DEF CheckSize, ReadTyped
    <3>2. MovesAreCounted'
      BY <2>20 DEF CheckSize, MovesAreCounted, Displaced
    <3>3. Undisturbed'
      BY <2>20 DEF CheckSize, Undisturbed
    <3> QED BY <3>1, <3>2, <3>3
  <2>21. CASE ReadFirst
    <3>1. ReadTyped'
      BY <2>21 DEF ReadFirst, ReadTyped
    <3>2. MovesAreCounted'
      BY <2>21 DEF ReadFirst, MovesAreCounted, Displaced
    <3>3. Undisturbed'
      <4>1. rewritten = {} => (opened \in rewritten) = FALSE
        OBVIOUS
      <4>2. moves = world.moves => data' = <<FALSE>>
        BY <2>21, <4>1 DEF ReadFirst, Undisturbed
      <4> QED BY <2>21, <4>2 DEF ReadFirst, Undisturbed
    <3> QED BY <3>1, <3>2, <3>3
  <2>22. CASE ReadRest
    <3>1. ReadTyped'
      BY <2>22 DEF ReadRest, ReadTyped
    <3>2. MovesAreCounted'
      BY <2>22 DEF ReadRest, MovesAreCounted, Displaced
    <3>3. Undisturbed'
      <4>1. rewritten = {} => (opened \in rewritten) = FALSE
        OBVIOUS
      <4>2. moves = world.moves => data' = <<FALSE, FALSE>>
        <5>1. moves = world.moves => data = <<FALSE>> /\ data' = Append(data, FALSE)
          BY <2>22, <4>1 DEF ReadRest, Undisturbed
        <5>2. Append(<<FALSE>>, FALSE) = <<FALSE, FALSE>>
          BY AppendToOne
        <5> QED BY <5>1, <5>2
      <4> QED BY <2>22, <4>2 DEF ReadRest, Undisturbed
    <3> QED BY <3>1, <3>2, <3>3
  <2> QED
    BY <2>11, <2>12, <2>13, <2>14, <2>15, <2>16, <2>17, <2>18, <2>19, <2>20, <2>21, <2>22 DEF ReadStep
<1> QED BY <1>1, <1>2, <1>3, ReadOnly DEF ReadSource


-----------------------------------------------------------------------------
(* The two loaders, the two environments, the two guards.                   *)

\* A set of numbers that is not empty has a least one.
LEMMA LeastNumber ==
    ASSUME NEW T \in SUBSET Nat, T # {}
    PROVE  \E x \in T : \A y \in T : x <= y
<1> DEFINE Less == {pair \in Nat \X Nat : pair[1] < pair[2]}
<1>1. IsWellFoundedOn(Less, Nat)
  BY NatLessThanWellFounded DEF OpToRel
<1>2. PICK x \in T : \A y \in T : ~(<<y, x>> \in Less)
  BY <1>1, WFMin
<1>3. ASSUME NEW y \in T PROVE x <= y
  <2>1. <<y, x>> \in Nat \X Nat
    OBVIOUS
  <2>2. ~(y < x)
    BY <2>1, <1>2
  <2>3. QED
    BY <2>2
<1>4. QED
  BY <1>3

\* The events before the i-th.
LEMMA EventsBefore ==
    ASSUME NEW T, NEW events \in Seq(T), NEW i \in DOMAIN events
    PROVE  Range(SubSeq(events, 1, i - 1)) = {events[j] : j \in 1..(i - 1)}
<1>1. i \in 1..Len(events)
  OBVIOUS
<1>2. Len(SubSeq(events, 1, i - 1)) = i - 1 /\ DOMAIN SubSeq(events, 1, i - 1) = 1..(i - 1)
  BY <1>1
<1>3. \A j \in 1..(i - 1) : SubSeq(events, 1, i - 1)[j] = events[j]
  BY <1>1
<1> QED BY <1>2, <1>3 DEF Range

\* What rises from each event to the next rises from any to any later one.
LEMMA SequenceRises ==
    ASSUME NEW T, NEW events \in Seq(T), \A k \in DOMAIN events : events[k].seq \in Int,
           \A k \in DOMAIN events : k > 1 => events[k].seq > events[k - 1].seq
    PROVE  \A i \in DOMAIN events : \A j \in 1..(i - 1) : events[j].seq < events[i].seq
<1> DEFINE Falls == {k \in Nat : k \in DOMAIN events /\
                          \E j \in 1..(k - 1) : ~(events[j].seq < events[k].seq)}
<1>1. SUFFICES Falls = {}
  <2>1. \A i \in DOMAIN events : i \in Nat
    OBVIOUS
  <2> QED BY <2>1
<1>2. SUFFICES ASSUME Falls # {}
               PROVE  FALSE
  OBVIOUS
<1>3. PICK i \in Falls : \A k \in Falls : i <= k
  <2>1. Falls \in SUBSET Nat
    OBVIOUS
  <2> HIDE DEF Falls
  <2> QED BY <1>2, <2>1, LeastNumber
<1>4. PICK j \in 1..(i - 1) : ~(events[j].seq < events[i].seq)
  OBVIOUS
<1>5. i \in 1..Len(events) /\ i \in Nat /\ i > 1 /\ j < i /\ i - 1 \in 1..Len(events)
  BY <1>4
<1>6. /\ events[i].seq \in Int /\ events[i - 1].seq \in Int /\ events[j].seq \in Int
      /\ events[i].seq > events[i - 1].seq
  <2>1. i \in DOMAIN events /\ i - 1 \in DOMAIN events /\ j \in DOMAIN events
    BY <1>5
  <2> QED BY <1>5, <2>1
<1>7. CASE j = i - 1
  BY <1>4, <1>6, <1>7
<1>8. CASE j # i - 1
  <2>1. i - 1 \notin Falls
    BY <1>3, <1>5
  <2>2. j \in 1..((i - 1) - 1)
    BY <1>4, <1>5, <1>8
  <2>3. events[j].seq < events[i - 1].seq
    BY <1>5, <2>1, <2>2
  <2> QED BY <1>4, <1>6, <2>3
<1> QED BY <1>7, <1>8

\* validate_capsule and the script's one pass accept the same events.
LEMMA SameEvents ==
    ASSUME NEW d \in DOMAIN EventDocs
    PROVE  Valid([events |-> EventDocs[d]]) <=> StandaloneEvents(EventDocs[d])
<1> DEFINE events == EventDocs[d]
           Before(i) == SubSeq(events, 1, i - 1)
           Seen(i) == {p.id : p \in Range(Before(i))}
           Kinds(i, k) == {p \in Range(Before(i)) : p.id \in events[i].deps /\ p.kind = k}
           Others(i) ==
               /\ events[i].id \notin Seen(i)
               /\ events[i].parent \in Seen(i) \union {None}
               /\ events[i].deps \subseteq Seen(i)
               /\ events[i].kind = "tool_result" => Cardinality(Kinds(i, "tool_call")) = 1
               /\ events[i].kind = "model_response" => Cardinality(Kinds(i, "model_request")) = 1
           Later(i) == \A p \in Range(Before(i)) : p.seq < events[i].seq
           Next1(i) == i > 1 => events[i].seq > events[i - 1].seq
<1>1. events \in Seq(Range(events)) /\ \A k \in DOMAIN events : events[k].seq \in Int
  BY DocsAssumption DEF Range
<1>2. Valid([events |-> events]) <=>
         events # <<>> /\ (\A i \in DOMAIN events : Others(i)) /\ \A i \in DOMAIN events : Later(i)
  <2>1. ASSUME NEW i \in DOMAIN events
        PROVE  ValidEvent(events[i], Before(i)) <=> Others(i) /\ Later(i)
    BY DEF ValidEvent, Producers
  <2>2. Valid([events |-> events]) <=>
           events # <<>> /\ \A i \in DOMAIN events : ValidEvent(events[i], Before(i))
    BY DEF Valid
  <2> HIDE DEF Others, Later
  <2> QED BY <2>1, <2>2
<1>3. StandaloneEvents(events) <=>
         events # <<>> /\ (\A i \in DOMAIN events : Others(i)) /\ \A i \in DOMAIN events : Next1(i)
  BY DEF StandaloneEvents
<1>4. ASSUME NEW i \in DOMAIN events
      PROVE  Later(i) <=> \A j \in 1..(i - 1) : events[j].seq < events[i].seq
  <2>1. Range(Before(i)) = {events[j] : j \in 1..(i - 1)}
    BY <1>1, EventsBefore
  <2> QED BY <2>1
<1>5. (\A i \in DOMAIN events : Later(i)) => \A i \in DOMAIN events : Next1(i)
  <2> SUFFICES ASSUME \A i \in DOMAIN events : Later(i), NEW i \in DOMAIN events, i > 1
               PROVE  events[i].seq > events[i - 1].seq
    OBVIOUS
  <2>1. i \in 1..Len(events) /\ i - 1 \in 1..Len(events) /\ i - 1 \in 1..(i - 1)
    BY <1>1
  <2>2. events[i - 1].seq < events[i].seq
    BY <1>4, <2>1
  <2> QED BY <1>1, <2>1, <2>2
<1>6. (\A i \in DOMAIN events : Next1(i)) => \A i \in DOMAIN events : Later(i)
  <2> SUFFICES ASSUME \A i \in DOMAIN events : Next1(i)
               PROVE  \A i \in DOMAIN events : Later(i)
    OBVIOUS
  <2> HIDE DEF Later
  <2>1. \A i \in DOMAIN events : \A j \in 1..(i - 1) : events[j].seq < events[i].seq
    BY <1>1, SequenceRises
  <2> QED BY <1>4, <2>1
<1> HIDE DEF Others, Later, Next1
<1> QED BY <1>2, <1>3, <1>5, <1>6

\* No two members of an archive whose index fits are one on a file system that
\* ignores case.
LEMMA MembersDiffer ==
    ASSUME NEW archive, ContentOf(archive, "index") \in DOMAIN IndexDocs, IndexMatches(archive),
           NEW m \in NamesOf(archive), NEW n \in NamesOf(archive), m # n
    PROVE  MemberIdentity(m) # MemberIdentity(n)
<1> SUFFICES ASSUME MemberIdentity(m) = MemberIdentity(n)
             PROVE  FALSE
  OBVIOUS
<1>1. Declared(archive) \in Seq(Paths)
  BY DocsAssumption DEF Declared
<1>2. {m, n} = {"file:A", "file:a"}
  BY DEF MemberIdentity
<1>3. "file:A" \in NamesOf(archive) \intersect FileMembers
      /\ "file:a" \in NamesOf(archive) \intersect FileMembers
  BY <1>2 DEF FileMembers, FileMember, Paths
<1>4. \A p \in Paths : /\ FileMember[p] = "file:A" => p = "A"
                       /\ FileMember[p] = "file:a" => p = "a"
  BY DEF FileMember, Paths
<1>5. "A" \in Range(Declared(archive)) /\ "a" \in Range(Declared(archive))
  <2>1. Range(Declared(archive)) \subseteq Paths
    BY <1>1 DEF Range
  <2> QED BY <1>3, <1>4, <2>1 DEF IndexMatches
<1>6. PICK i \in DOMAIN Declared(archive) : Declared(archive)[i] = "A"
  BY <1>5 DEF Range
<1>7. PICK j \in DOMAIN Declared(archive) : Declared(archive)[j] = "a"
  BY <1>5 DEF Range
<1> QED BY <1>6, <1>7 DEF IndexMatches, Identity

\* capsule.py and the loader in the exported script accept the same archives,
\* and the script can run what the command exports, and nothing else
\* (capsule.py:221-402, export.py:125-348).
THEOREM LoadersAcceptTheSame ==
    ASSUME NEW a \in DOMAIN ArchiveDocs
    PROVE  /\ Loads(ArchiveDocs[a]) <=> StandaloneLoads(ArchiveDocs[a])
           /\ Exportable(ArchiveDocs[a]) <=> Runnable(a)
<1> DEFINE archive == ArchiveDocs[a]
<1>1. Loads(archive) <=> StandaloneLoads(archive)
  <2>1. ASSUME Loads(archive)
        PROVE  StandaloneLoads(archive)
    <3>1. \A m, n \in NamesOf(archive) : m # n => MemberIdentity(m) # MemberIdentity(n)
      BY <2>1, MembersDiffer DEF Loads, CapsuleFromMembers
    <3>2. StandaloneMembers(archive)
      BY <2>1, <3>1 DEF Loads, ValidatedMembers, CapsuleFromMembers, StandaloneMembers
    <3>3. StandaloneDocuments(archive)
      BY <2>1, SameEvents DEF Loads, CapsuleFromMembers, StandaloneDocuments
    <3> QED BY <3>2, <3>3 DEF StandaloneLoads
  <2>2. ASSUME StandaloneLoads(archive)
        PROVE  Loads(archive)
    <3>1. ValidatedMembers(archive)
      BY <2>2 DEF StandaloneLoads, StandaloneMembers, ValidatedMembers
    <3>2. CapsuleFromMembers(archive)
      BY <2>2, SameEvents DEF StandaloneLoads, StandaloneMembers, StandaloneDocuments,
                              CapsuleFromMembers
    <3> QED BY <3>1, <3>2 DEF Loads
  <2> QED BY <2>1, <2>2
<1>2. PredicateSpecFromJson(ContentOf(archive, "predicate"))
         <=> StandaloneSpec(ContentOf(archive, "predicate"))
  BY DEF PredicateSpecFromJson, StandaloneSpec
<1>3. Exportable(archive) <=> Runnable(a)
  BY <1>1, <1>2 DEF Exportable, Runnable, Accepted, TrialRuns
<1> QED BY <1>1, <1>3

\* The two environments differ where the capsule and the host both have a
\* locale, and withhold the same names.
LEMMA SameEnvironment ==
    ASSUME NEW captured
    PROVE  /\ \A n \in Names \ Locale :
                 TrialEnvironment(HostNames, captured)[n] = MinimalEnvironment(HostNames, captured)[n]
           /\ captured \intersect HostNames \intersect Locale = {} =>
                 TrialEnvironment(HostNames, captured) = MinimalEnvironment(HostNames, captured)
           /\ \A n \in Withheld : TrialEnvironment(HostNames, captured)[n] \in {"unset", "empty"}
           /\ TrialEnvironment(HostNames, captured)
                 \in [Names -> {"unset", "host", "captured", "fixed", "empty"}]
<1> USE DEF TrialEnvironment, MinimalEnvironment, Overlay, Withheld, Names
<1>1. \A n \in Names \ Locale :
         TrialEnvironment(HostNames, captured)[n] = MinimalEnvironment(HostNames, captured)[n]
  OBVIOUS
<1>2. captured \intersect HostNames \intersect Locale = {} =>
         TrialEnvironment(HostNames, captured) = MinimalEnvironment(HostNames, captured)
  OBVIOUS
<1>3. ASSUME NEW n \in Withheld
      PROVE  TrialEnvironment(HostNames, captured)[n] \in {"unset", "empty"}
  BY <1>3 DEF Locale, Proxies, Providers, Fixed
<1>4. TrialEnvironment(HostNames, captured)
         \in [Names -> {"unset", "host", "captured", "fixed", "empty"}]
  OBVIOUS
<1> QED BY <1>1, <1>2, <1>3, <1>4

\* The two guards, and their limits of CPU time.
LEMMA SameGuard ==
    /\ \A op \in Operations :
          /\ RunnerDenies(op) => ScriptDenies(op)
          /\ ScriptDenies(op) => RunnerDenies(op) \/ OnCapsule(op)
    /\ \A tenths \in Nat :
          tenths < 10 * RunnerCpu(tenths) /\ tenths < 10 * ScriptCpu(tenths)
<1>1. ASSUME NEW op \in Operations
      PROVE  /\ RunnerDenies(op) => ScriptDenies(op)
             /\ ScriptDenies(op) => RunnerDenies(op) \/ OnCapsule(op)
  <2> USE DEF RunnerDenies, ScriptDenies, OnCapsule, Inside, RunnerRoot, ScriptRoot
  <2>1. RunnerDenies(op) => ScriptDenies(op)
    OBVIOUS
  <2>2. ScriptDenies(op) => RunnerDenies(op) \/ OnCapsule(op)
    OBVIOUS
  <2> QED BY <2>1, <2>2
<1>2. ASSUME NEW tenths \in Nat
      PROVE  tenths < 10 * RunnerCpu(tenths) /\ tenths < 10 * ScriptCpu(tenths)
  BY DEF RunnerCpu, ScriptCpu
<1> QED BY <1>1, <1>2


-----------------------------------------------------------------------------
(* The script: the invariant, one part at a time.  The export's steps leave *)
(* all of it alone but what it says of the files.                           *)

\* The steps that the lemmas below take one by one.
LEMMA StepSplit ==
    ASSUME [Next]_vars
    PROVE  \/ ExportMoves /\ UNCHANGED exporting
           \/ \E trusted \in BOOLEAN : Launch(trusted)
           \/ StartTrial \/ MkdirFails \/ NoTrial \/ Poll \/ TestLimits \/ Terminate \/ Reap
           \/ JoinReturns \/ JoinTimesOut \/ Stopped \/ Returned
           \/ ChildEnds \/ ChildDies \/ DeadlinePasses
           \/ \E s \in Streams : ChildWrites(s) \/ Drain(s) \/ DrainEnds(s)
           \/ UNCHANGED vars
BY NextSplit, ExportKeeps DEF ScriptMoves, MainStep, Finished

LEMMA WorldRuns ==
    ASSUME world \in Worlds
    PROVE  world.runs <=> (world.beside # "exported" /\ Accepted(world.beside)
                              => Runnable(world.beside))
BY WorldsAssumption

\* The child of the trial that is under way.
LEMMA PlanTyped ==
    ASSUME CallTyped, PlacesAgree, pc \in Busy \union {"trial"}
    PROVE  /\ Trial \in 1..Trials
           /\ world.plan[Trial].writes \in [Streams -> Nat]
           /\ world.plan[Trial].end \in Codes \union {"hang"}
<1>1. Trial \in 1..Trials
  BY TrialsAssumption DEF CallTyped, PlacesAgree, Trial
<1>2. world.plan \in [1..Trials -> ScriptsOfChild]
  BY WorldTyped, PlansAssumption DEF CallTyped
<1>3. world.plan[Trial] \in ScriptsOfChild
  BY <1>1, <1>2
<1> QED BY <1>1, <1>3 DEF ScriptsOfChild

\* The flags stay flags.
LEMMA StepFlags ==
    ASSUME FlagsTyped, [Next]_vars
    PROVE  FlagsTyped'
<1> USE DEF childVars, historyVars
<1>1. CASE ExportMoves /\ UNCHANGED exporting
  BY <1>1 DEF exporting, FlagsTyped
<1>2. ASSUME NEW trusted \in BOOLEAN, Launch(trusted)
      PROVE  FlagsTyped'
  BY <1>2 DEF Launch, FlagsTyped, mainKeeps, Leave
<1>3. CASE StartTrial
  BY <1>3 DEF StartTrial, mainKeeps, FlagsTyped
<1>4. CASE MkdirFails
  BY <1>4 DEF MkdirFails, mainKeeps, Leave, FlagsTyped
<1>5. CASE NoTrial
  BY <1>5 DEF NoTrial, Record, FreshTrial, Leave, FlagsTyped
<1>6. CASE Poll
  BY <1>6 DEF Poll, Goto, FlagsTyped
<1>7. CASE TestLimits
  BY <1>7 DEF TestLimits, Goto, FlagsTyped
<1>8. CASE Terminate
  BY <1>8 DEF Terminate, Goto, FlagsTyped
<1>9. CASE Reap
  BY <1>9 DEF Reap, Goto, FlagsTyped
<1>10. CASE JoinReturns
  BY <1>10 DEF JoinReturns, Goto, FlagsTyped
<1>11. CASE JoinTimesOut
  BY <1>11 DEF JoinTimesOut, FlagsTyped
<1>12. CASE Stopped
  BY <1>12 DEF Stopped, Record, FreshTrial, Leave, FlagsTyped
<1>13. CASE Returned
  BY <1>13 DEF Returned, Record, FreshTrial, Leave, FlagsTyped
<1>14. CASE ChildEnds
  BY <1>14 DEF ChildEnds, others, FlagsTyped
<1>15. CASE ChildDies
  BY <1>15 DEF ChildDies, others, FlagsTyped
<1>16. CASE DeadlinePasses
  BY <1>16 DEF DeadlinePasses, others, FlagsTyped
<1>17. ASSUME NEW s \in Streams, ChildWrites(s)
      PROVE  FlagsTyped'
  BY <1>17 DEF ChildWrites, others, FlagsTyped
<1>18. ASSUME NEW s \in Streams, Drain(s)
      PROVE  FlagsTyped'
  BY <1>18 DEF Drain, others, FlagsTyped
<1>19. ASSUME NEW s \in Streams, DrainEnds(s)
      PROVE  FlagsTyped'
  BY <1>19 DEF DrainEnds, others, FlagsTyped
<1>20. CASE UNCHANGED vars
  BY <1>20 DEF vars, exportVars, FlagsTyped
<1> QED
  BY <1>1, <1>2, <1>3, <1>4, <1>5, <1>6, <1>7, <1>8, <1>9, <1>10, <1>11, <1>12, <1>13, <1>14, <1>15, <1>16, <1>17, <1>18, <1>19, <1>20, StepSplit

\* The main thread's own variables keep their types.
LEMMA StepCallTyped ==
    ASSUME CallTyped, PlacesAgree, [Next]_vars
    PROVE  CallTyped'
<1> USE DEF childVars, historyVars
<1>1. CASE ExportMoves /\ UNCHANGED exporting
  BY <1>1 DEF exporting, CallTyped, Busy, Ending, Gone
<1>2. ASSUME NEW trusted \in BOOLEAN, Launch(trusted)
      PROVE  CallTyped'
  BY <1>2 DEF Launch, mainKeeps, Leave, CallTyped, Busy, Ending, Gone
<1>3. CASE StartTrial
  BY <1>3 DEF StartTrial, mainKeeps, CallTyped, Busy, Ending, Gone
<1>4. CASE MkdirFails
  BY <1>4 DEF MkdirFails, mainKeeps, Leave, CallTyped, Busy, Ending, Gone
<1>5. CASE NoTrial
  BY <1>5 DEF NoTrial, Record, FreshTrial, Leave, Verdict, CallTyped, Values
<1>6. CASE Poll
  BY <1>6 DEF Poll, Goto, CallTyped, Busy, Ending, Gone
<1>7. CASE TestLimits
  BY <1>7 DEF TestLimits, Goto, CallTyped, Busy, Ending, Gone
<1>8. CASE Terminate
  BY <1>8 DEF Terminate, Goto, CallTyped, Busy, Ending, Gone
<1>9. CASE Reap
  BY <1>9 DEF Reap, Goto, CallTyped, Busy, Ending, Gone
<1>10. CASE JoinReturns
  BY <1>10 DEF JoinReturns, Goto, After, CallTyped, Busy, Ending, Gone
<1>11. CASE JoinTimesOut
  BY <1>11 DEF JoinTimesOut, After, CallTyped, Busy, Ending, Gone
<1>12. CASE Stopped
  BY <1>12 DEF Stopped, Record, FreshTrial, Leave, Verdict, CallTyped, Values
<1>13. CASE Returned
  BY <1>13 DEF Returned, Record, FreshTrial, Leave, Verdict, CallTyped, Values
<1>14. CASE ChildEnds
  <2>1. world.plan[Trial].end \in Codes
    BY <1>14, PlanTyped DEF ChildEnds, PlacesAgree, Fresh
  <2> QED BY <1>14, <2>1 DEF ChildEnds, others, CallTyped
<1>15. CASE ChildDies
  BY <1>15 DEF ChildDies, others, CallTyped, Codes
<1>16. CASE DeadlinePasses
  BY <1>16 DEF DeadlinePasses, others, CallTyped, Busy, Ending, Gone
<1>17. ASSUME NEW s \in Streams, ChildWrites(s)
      PROVE  CallTyped'
  BY <1>17 DEF ChildWrites, others, CallTyped, Busy, Ending, Gone
<1>18. ASSUME NEW s \in Streams, Drain(s)
      PROVE  CallTyped'
  BY <1>18 DEF Drain, others, CallTyped, Busy, Ending, Gone
<1>19. ASSUME NEW s \in Streams, DrainEnds(s)
      PROVE  CallTyped'
  BY <1>19 DEF DrainEnds, others, CallTyped, Busy, Ending, Gone
<1>20. CASE UNCHANGED vars
  BY <1>20 DEF vars, exportVars, CallTyped, Busy, Ending, Gone
<1> QED
  BY <1>1, <1>2, <1>3, <1>4, <1>5, <1>6, <1>7, <1>8, <1>9, <1>10, <1>11, <1>12, <1>13, <1>14, <1>15, <1>16, <1>17, <1>18, <1>19, <1>20, StepSplit

\* Units move by one or by the chunk.
LEMMA StepUnits ==
    ASSUME UnitsTyped, CallTyped, PlacesAgree, [Next]_vars
    PROVE  UnitsTyped'
<1> USE DEF childVars, historyVars
<1>1. CASE ExportMoves /\ UNCHANGED exporting
  BY <1>1 DEF exporting, UnitsTyped, Nothing, Streams
<1>2. ASSUME NEW trusted \in BOOLEAN, Launch(trusted)
      PROVE  UnitsTyped'
  BY <1>2, SizesAssumption DEF Launch, mainKeeps, Leave, UnitsTyped, Nothing, Streams
<1>3. CASE StartTrial
  <2>1. world.plan[Trial].writes \in [Streams -> Nat]
    BY <1>3, PlanTyped DEF StartTrial
  <2> QED BY <1>3, <2>1 DEF StartTrial, mainKeeps, UnitsTyped
<1>4. CASE MkdirFails
  BY <1>4, SizesAssumption DEF MkdirFails, mainKeeps, Leave, UnitsTyped, Nothing, Streams
<1>5. CASE NoTrial
  BY <1>5, SizesAssumption DEF NoTrial, Record, FreshTrial, Leave, UnitsTyped, Nothing, Streams
<1>6. CASE Poll
  BY <1>6, SizesAssumption DEF Poll, Goto, UnitsTyped, Nothing, Streams
<1>7. CASE TestLimits
  BY <1>7, SizesAssumption DEF TestLimits, Goto, UnitsTyped, Nothing, Streams
<1>8. CASE Terminate
  BY <1>8, SizesAssumption DEF Terminate, Goto, UnitsTyped, Nothing, Streams
<1>9. CASE Reap
  BY <1>9, SizesAssumption DEF Reap, Goto, UnitsTyped, Nothing, Streams
<1>10. CASE JoinReturns
  BY <1>10, SizesAssumption DEF JoinReturns, Goto, UnitsTyped, Nothing, Streams
<1>11. CASE JoinTimesOut
  BY <1>11, SizesAssumption DEF JoinTimesOut, UnitsTyped, Nothing, Streams
<1>12. CASE Stopped
  BY <1>12, SizesAssumption DEF Stopped, Record, FreshTrial, Leave, UnitsTyped, Nothing, Streams
<1>13. CASE Returned
  BY <1>13, SizesAssumption DEF Returned, Record, FreshTrial, Leave, UnitsTyped, Nothing, Streams
<1>14. CASE ChildEnds
  BY <1>14, SizesAssumption DEF ChildEnds, others, UnitsTyped, Nothing, Streams
<1>15. CASE ChildDies
  BY <1>15, SizesAssumption DEF ChildDies, others, UnitsTyped, Nothing, Streams
<1>16. CASE DeadlinePasses
  BY <1>16, SizesAssumption DEF DeadlinePasses, others, UnitsTyped, Nothing, Streams
<1>17. ASSUME NEW s \in Streams, ChildWrites(s)
      PROVE  UnitsTyped'
  BY <1>17, SizesAssumption DEF ChildWrites, others, UnitsTyped, Nothing, Streams
<1>18. ASSUME NEW s \in Streams, Drain(s)
      PROVE  UnitsTyped'
  <2>1. Least(unread[s], Chunk) \in Nat /\ Least(unread[s], Chunk) <= unread[s]
    BY SizesAssumption DEF Least, UnitsTyped
  <2>2. unread' \in [Streams -> 0..(PipeSize + Chunk)] /\ counts' \in [Streams -> Nat]
    BY <1>18, <2>1, SizesAssumption DEF Drain, UnitsTyped
  <2>3. drain' \in [Streams -> {"reading", "eof", "limit"}]
    BY <1>18 DEF Drain, UnitsTyped
  <2> QED BY <1>18, <2>2, <2>3 DEF Drain, others, UnitsTyped
<1>19. ASSUME NEW s \in Streams, DrainEnds(s)
      PROVE  UnitsTyped'
  BY <1>19, SizesAssumption DEF DrainEnds, others, UnitsTyped, Nothing, Streams
<1>20. CASE UNCHANGED vars
  BY <1>20 DEF vars, exportVars, UnitsTyped, Nothing, Streams
<1> QED
  BY <1>1, <1>2, <1>3, <1>4, <1>5, <1>6, <1>7, <1>8, <1>9, <1>10, <1>11, <1>12, <1>13, <1>14, <1>15, <1>16, <1>17, <1>18, <1>19, <1>20, StepSplit

\* Each place keeps what it says of the export, the child and the results.
LEMMA StepPlaces ==
    ASSUME FilesFollow, ExportedIsExportable, FlagsTyped, CallTyped, PlacesAgree, [Next]_vars
    PROVE  PlacesAgree'
<1> USE DEF childVars, historyVars
<1>1. CASE ExportMoves /\ UNCHANGED exporting
  <2>1. pc # "idle" => UNCHANGED <<exporter, files>>
    BY <1>1 DEF PlacesAgree, ExportOver, FileNames, ExportMoves, ExportStep, ReadSource, ExportChecks,
       RmtreeEnds, Create, Fill, WriteFails, RemoveFile, ExporterKilled, ReplaceCapsule
  <2>2. UNCHANGED <<pc, results, embedded, world>> /\ (Fresh => Fresh') /\ UNCHANGED child
    BY <1>1 DEF exporting, Fresh
  <2>3. pc \notin Busy \union {"trial"} \/ pc # "idle"
    BY DEF Busy, Ending, Gone
  <2> QED BY <2>1, <2>2, <2>3 DEF PlacesAgree, ExportOver, Busy, Ending, Gone
<1>2. ASSUME NEW trusted \in BOOLEAN, Launch(trusted)
      PROVE  PlacesAgree'
  <2>1. UNCHANGED <<world, exporter, files, capsule, results, killing>> /\ (Fresh => Fresh')
        /\ pc = "idle" /\ ExportOver
    BY <1>2 DEF Launch, mainKeeps, exportVars, Fresh
  <2>2. pc' \in {"trial", "over"}
    BY <1>2 DEF Launch, Leave
  <2>3. pc' = "trial" => files["script"] = "whole" /\ (embedded' <=> world.runs)
    <3> SUFFICES ASSUME pc' = "trial"
                 PROVE  files["script"] = "whole" /\ (embedded' <=> world.runs)
      OBVIOUS
    <3>1. files["script"] = "whole" /\ files["capsule"] = "whole" /\ Accepted(capsule) /\ Replaced
      <4>1. files["script"] \in {"part", "whole"}
        BY <1>2 DEF Launch, FilesFollow, FileNames, FileStates
      <4>2. files["script"] # "part"
        BY <1>2 DEF Launch, Leave
      <4> QED BY <1>2, <4>1, <4>2 DEF Launch, Leave
    <3>2. embedded' <=> Runnable(capsule)
      <4>1. embedded' = (pc' = "trial" /\ Runnable(capsule))
        BY <1>2 DEF Launch
      <4> QED BY <4>1
    <3>3. capsule \in DOMAIN ArchiveDocs \/ capsule = "torn"
      BY DEF ExportedIsExportable
    <3>4. CASE world.beside = "exported"
      <4>1. capsule \in DOMAIN ArchiveDocs /\ Exportable(ArchiveDocs[capsule])
        BY <3>1, <3>3, <3>4 DEF ExportedIsExportable
      <4>2. Runnable(capsule)
        BY <4>1, LoadersAcceptTheSame
      <4> QED BY <3>1, <3>2, <3>4, <4>2, WorldRuns DEF CallTyped
    <3>5. CASE world.beside # "exported"
      <4>1. capsule = world.beside
        BY <3>1, <3>5 DEF Replaced
      <4> QED BY <3>1, <3>2, <3>5, <4>1, WorldRuns DEF CallTyped
    <3> QED BY <3>4, <3>5
  <2>4. pc' = "trial" => Len(results') < Trials
    BY <2>1, TrialsAssumption DEF PlacesAgree
  <2> QED BY <2>1, <2>2, <2>3, <2>4 DEF PlacesAgree, ExportOver, Busy, Ending, Gone
<1>3. CASE StartTrial
  BY <1>3 DEF StartTrial, mainKeeps, PlacesAgree, exportVars, Fresh, Busy, Ending, Gone, ExportOver
<1>4. CASE MkdirFails
  BY <1>4 DEF MkdirFails, mainKeeps, Leave, PlacesAgree, exportVars, Fresh, Busy, Ending, Gone, ExportOver
<1>5. CASE NoTrial
  <2>1. Len(results') = Len(results) + 1 /\ FreshTrial
    BY <1>5 DEF NoTrial, Record, CallTyped
  <2>2. Fresh'
    BY <2>1 DEF FreshTrial, Fresh
  <2>3. pc' \in {"trial", "over"} /\ UNCHANGED <<world, files, exporter, embedded>>
    BY <1>5 DEF NoTrial, Record, Leave, exportVars
  <2>4. pc' = "trial" => Len(results') < Trials
    BY <1>5, <2>1, TrialsAssumption DEF NoTrial, Record, Leave, PlacesAgree, CallTyped, Trial, Busy, Ending, Gone
  <2>5. pc \in Busy \union {"trial"}
    BY <1>5 DEF NoTrial, Busy, Ending, Gone
  <2> QED BY <2>2, <2>3, <2>4, <2>5 DEF PlacesAgree, ExportOver, Busy, Ending, Gone
<1>6. CASE Poll
  BY <1>6 DEF Poll, Goto, CallTyped, PlacesAgree, exportVars, Fresh, Codes, Busy, Ending, Gone, ExportOver
<1>7. CASE TestLimits
  BY <1>7 DEF TestLimits, Goto, PlacesAgree, exportVars, Fresh, Busy, Ending, Gone, ExportOver
<1>8. CASE Terminate
  BY <1>8 DEF Terminate, Goto, PlacesAgree, exportVars, Fresh, Busy, Ending, Gone, ExportOver
<1>9. CASE Reap
  BY <1>9 DEF Reap, Goto, CallTyped, PlacesAgree, exportVars, Fresh, Codes, Busy, Ending, Gone, ExportOver
<1>10. CASE JoinReturns
  BY <1>10 DEF JoinReturns, Goto, After, PlacesAgree, exportVars, Fresh, Busy, Ending, Gone, ExportOver
<1>11. CASE JoinTimesOut
  BY <1>11 DEF JoinTimesOut, After, PlacesAgree, exportVars, Fresh, Busy, Ending, Gone, ExportOver
<1>12. CASE Stopped
  <2>1. Len(results') = Len(results) + 1 /\ FreshTrial
    BY <1>12 DEF Stopped, Record, CallTyped
  <2>2. Fresh'
    BY <2>1 DEF FreshTrial, Fresh
  <2>3. pc' \in {"trial", "over"} /\ UNCHANGED <<world, files, exporter, embedded>>
    BY <1>12 DEF Stopped, Record, Leave, exportVars
  <2>4. pc' = "trial" => Len(results') < Trials
    BY <1>12, <2>1, TrialsAssumption DEF Stopped, Record, Leave, PlacesAgree, CallTyped, Trial, Busy, Ending, Gone
  <2>5. pc \in Busy \union {"trial"}
    BY <1>12 DEF Stopped, Busy, Ending, Gone
  <2> QED BY <2>2, <2>3, <2>4, <2>5 DEF PlacesAgree, ExportOver, Busy, Ending, Gone
<1>13. CASE Returned
  <2>1. Len(results') = Len(results) + 1 /\ FreshTrial
    BY <1>13 DEF Returned, Record, CallTyped
  <2>2. Fresh'
    BY <2>1 DEF FreshTrial, Fresh
  <2>3. pc' \in {"trial", "over"} /\ UNCHANGED <<world, files, exporter, embedded>>
    BY <1>13 DEF Returned, Record, Leave, exportVars
  <2>4. pc' = "trial" => Len(results') < Trials
    BY <1>13, <2>1, TrialsAssumption DEF Returned, Record, Leave, PlacesAgree, CallTyped, Trial, Busy, Ending, Gone
  <2>5. pc \in Busy \union {"trial"}
    BY <1>13 DEF Returned, Busy, Ending, Gone
  <2> QED BY <2>2, <2>3, <2>4, <2>5 DEF PlacesAgree, ExportOver, Busy, Ending, Gone
<1>14. CASE ChildEnds
  <2>1. child' \in Codes
    BY <1>14, PlanTyped DEF ChildEnds, PlacesAgree, Fresh
  <2> QED BY <1>14, <2>1 DEF ChildEnds, others, PlacesAgree, exportVars, Fresh, Codes, Busy, Ending, Gone, ExportOver
<1>15. CASE ChildDies
  BY <1>15 DEF ChildDies, others, PlacesAgree, exportVars, Fresh, Codes, Busy, Ending, Gone, ExportOver
<1>16. CASE DeadlinePasses
  BY <1>16 DEF DeadlinePasses, others, PlacesAgree, exportVars, Fresh, Busy, Ending, Gone, ExportOver
<1>17. ASSUME NEW s \in Streams, ChildWrites(s)
      PROVE  PlacesAgree'
  BY <1>17 DEF ChildWrites, others, PlacesAgree, exportVars, Fresh, Nothing, Streams, Busy, Ending, Gone, ExportOver
<1>18. ASSUME NEW s \in Streams, Drain(s)
      PROVE  PlacesAgree'
  <2>1. pc \in Busy
    BY <1>18, SizesAssumption DEF Drain, PlacesAgree, Fresh, Nothing, Streams
  <2> QED BY <1>18, <2>1 DEF Drain, others, PlacesAgree, exportVars, ExportOver, Busy, Ending, Gone
<1>19. ASSUME NEW s \in Streams, DrainEnds(s)
      PROVE  PlacesAgree'
  BY <1>19 DEF DrainEnds, ChildGone, others, PlacesAgree, exportVars, Fresh, Busy, Ending, Gone, ExportOver
<1>20. CASE UNCHANGED vars
  BY <1>20 DEF vars, exportVars, PlacesAgree, exportVars, Fresh, Busy, Ending, Gone, ExportOver
<1> QED
  BY <1>1, <1>2, <1>3, <1>4, <1>5, <1>6, <1>7, <1>8, <1>9, <1>10, <1>11, <1>12, <1>13, <1>14, <1>15, <1>16, <1>17, <1>18, <1>19, <1>20, StepSplit

\* A reason once given stays.
LEMMA StepReasons ==
    ASSUME FlagsTyped, CallTyped, PlacesAgree, ReasonsHaveCauses, [Next]_vars
    PROVE  ReasonsHaveCauses'
<1> USE DEF childVars, historyVars
<1>1. CASE ExportMoves /\ UNCHANGED exporting
  BY <1>1 DEF exporting, ReasonsHaveCauses, Ending
<1>2. ASSUME NEW trusted \in BOOLEAN, Launch(trusted)
      PROVE  ReasonsHaveCauses'
  BY <1>2 DEF Launch, mainKeeps, Leave, ReasonsHaveCauses, PlacesAgree, Fresh, Busy, Ending, Gone
<1>3. CASE StartTrial
  BY <1>3 DEF StartTrial, mainKeeps, ReasonsHaveCauses, Ending
<1>4. CASE MkdirFails
  BY <1>4 DEF MkdirFails, mainKeeps, Leave, ReasonsHaveCauses, PlacesAgree, Fresh, Busy, Ending, Gone
<1>5. CASE NoTrial
  BY <1>5 DEF NoTrial, Record, FreshTrial, Leave, ReasonsHaveCauses, FlagsTyped, Ending
<1>6. CASE Poll
  BY <1>6 DEF Poll, Goto, ReasonsHaveCauses, Ending
<1>7. CASE TestLimits
  BY <1>7 DEF TestLimits, Goto, ReasonsHaveCauses, FlagsTyped, Ending
<1>8. CASE Terminate
  BY <1>8 DEF Terminate, Goto, ReasonsHaveCauses, FlagsTyped, Ending
<1>9. CASE Reap
  BY <1>9 DEF Reap, Goto, ReasonsHaveCauses, FlagsTyped, Ending
<1>10. CASE JoinReturns
  BY <1>10 DEF JoinReturns, Goto, After, ReasonsHaveCauses, Ending
<1>11. CASE JoinTimesOut
  BY <1>11 DEF JoinTimesOut, After, ReasonsHaveCauses, Ending
<1>12. CASE Stopped
  BY <1>12 DEF Stopped, Record, FreshTrial, Leave, ReasonsHaveCauses, FlagsTyped, Ending
<1>13. CASE Returned
  BY <1>13 DEF Returned, Record, FreshTrial, Leave, ReasonsHaveCauses, Ending
<1>14. CASE ChildEnds
  BY <1>14 DEF ChildEnds, others, ReasonsHaveCauses, FlagsTyped, Ending
<1>15. CASE ChildDies
  BY <1>15 DEF ChildDies, others, ReasonsHaveCauses, FlagsTyped, Ending
<1>16. CASE DeadlinePasses
  BY <1>16 DEF DeadlinePasses, others, ReasonsHaveCauses, FlagsTyped, Ending
<1>17. ASSUME NEW s \in Streams, ChildWrites(s)
      PROVE  ReasonsHaveCauses'
  BY <1>17 DEF ChildWrites, others, ReasonsHaveCauses, FlagsTyped, Ending
<1>18. ASSUME NEW s \in Streams, Drain(s)
      PROVE  ReasonsHaveCauses'
  BY <1>18 DEF Drain, others, ReasonsHaveCauses, FlagsTyped, Ending
<1>19. ASSUME NEW s \in Streams, DrainEnds(s)
      PROVE  ReasonsHaveCauses'
  BY <1>19 DEF DrainEnds, others, ReasonsHaveCauses, FlagsTyped, Ending
<1>20. CASE UNCHANGED vars
  BY <1>20 DEF vars, exportVars, ReasonsHaveCauses, FlagsTyped, Ending
<1> QED
  BY <1>1, <1>2, <1>3, <1>4, <1>5, <1>6, <1>7, <1>8, <1>9, <1>10, <1>11, <1>12, <1>13, <1>14, <1>15, <1>16, <1>17, <1>18, <1>19, <1>20, StepSplit

\* A child ends by itself when it has written everything, or by a kill.
LEMMA StepEnds ==
    ASSUME CallTyped, PlacesAgree, EndsAreTrue, [Next]_vars
    PROVE  EndsAreTrue'
<1> USE DEF childVars, historyVars
<1>1. CASE ExportMoves /\ UNCHANGED exporting
  BY <1>1 DEF exporting, EndsAreTrue, Trial
<1>2. ASSUME NEW trusted \in BOOLEAN, Launch(trusted)
      PROVE  EndsAreTrue'
  BY <1>2 DEF Launch, Leave, EndsAreTrue, Busy, Ending, Gone
<1>3. CASE StartTrial
  BY <1>3 DEF StartTrial, mainKeeps, EndsAreTrue, PlacesAgree, Trial, Codes, Busy, Ending, Gone
<1>4. CASE MkdirFails
  BY <1>4 DEF MkdirFails, Leave, EndsAreTrue, Busy, Ending, Gone
<1>5. CASE NoTrial
  BY <1>5 DEF NoTrial, Record, FreshTrial, Leave, EndsAreTrue, Codes
<1>6. CASE Poll
  BY <1>6 DEF Poll, Goto, EndsAreTrue, Trial, Busy, Ending, Gone
<1>7. CASE TestLimits
  BY <1>7 DEF TestLimits, Goto, EndsAreTrue, Trial, Busy, Ending, Gone
<1>8. CASE Terminate
  BY <1>8 DEF Terminate, Goto, EndsAreTrue, Trial, Busy, Ending, Gone
<1>9. CASE Reap
  BY <1>9 DEF Reap, Goto, EndsAreTrue, Trial, Busy, Ending, Gone
<1>10. CASE JoinReturns
  BY <1>10 DEF JoinReturns, Goto, After, EndsAreTrue, Trial, Busy, Ending, Gone
<1>11. CASE JoinTimesOut
  BY <1>11 DEF JoinTimesOut, After, EndsAreTrue, Trial, Busy, Ending, Gone
<1>12. CASE Stopped
  BY <1>12 DEF Stopped, Record, FreshTrial, Leave, EndsAreTrue, Codes
<1>13. CASE Returned
  BY <1>13 DEF Returned, Record, FreshTrial, Leave, EndsAreTrue, Codes
<1>14. CASE ChildEnds
  BY <1>14 DEF ChildEnds, others, EndsAreTrue, PlacesAgree, Trial, Codes, Busy, Ending, Gone
<1>15. CASE ChildDies
  BY <1>15 DEF ChildDies, others, EndsAreTrue, PlacesAgree, Trial, Codes, Busy, Ending, Gone
<1>16. CASE DeadlinePasses
  BY <1>16 DEF DeadlinePasses, others, EndsAreTrue, PlacesAgree, Trial, Codes, Busy, Ending, Gone
<1>17. ASSUME NEW s \in Streams, ChildWrites(s)
      PROVE  EndsAreTrue'
  BY <1>17 DEF ChildWrites, others, EndsAreTrue, PlacesAgree, Trial, Codes, Busy, Ending, Gone
<1>18. ASSUME NEW s \in Streams, Drain(s)
      PROVE  EndsAreTrue'
  BY <1>18 DEF Drain, others, EndsAreTrue, PlacesAgree, Trial, Codes, Busy, Ending, Gone
<1>19. ASSUME NEW s \in Streams, DrainEnds(s)
      PROVE  EndsAreTrue'
  BY <1>19 DEF DrainEnds, others, EndsAreTrue, PlacesAgree, Trial, Codes, Busy, Ending, Gone
<1>20. CASE UNCHANGED vars
  BY <1>20 DEF vars, exportVars, EndsAreTrue, PlacesAgree, Trial, Codes, Busy, Ending, Gone
<1> QED
  BY <1>1, <1>2, <1>3, <1>4, <1>5, <1>6, <1>7, <1>8, <1>9, <1>10, <1>11, <1>12, <1>13, <1>14, <1>15, <1>16, <1>17, <1>18, <1>19, <1>20, StepSplit

\* No unit is lost or made up.
LEMMA StepUnitsKept ==
    ASSUME UnitsTyped, CallTyped, PlacesAgree, UnitsAreKept, [Next]_vars
    PROVE  UnitsAreKept'
<1> USE DEF childVars, historyVars
<1>1. CASE ExportMoves /\ UNCHANGED exporting
  BY <1>1 DEF exporting, UnitsAreKept, Trial
<1>2. ASSUME NEW trusted \in BOOLEAN, Launch(trusted)
      PROVE  UnitsAreKept'
  BY <1>2 DEF Launch, Leave, UnitsAreKept, Busy, Ending, Gone
<1>3. CASE StartTrial
  <2>1. \A s \in Streams : counts[s] = 0 /\ unread[s] = 0
    BY <1>3 DEF StartTrial, PlacesAgree, Fresh, Nothing, Busy, Ending, Gone
  <2>2. world.plan[Trial].writes \in [Streams -> Nat]
    BY <1>3, PlanTyped DEF StartTrial
  <2>3. /\ left' = world.plan[Trial].writes /\ UNCHANGED <<unread, counts>>
        /\ world' = world /\ Trial' = Trial
    BY <1>3 DEF StartTrial, mainKeeps, Trial
  <2>4. ASSUME NEW s \in Streams
        PROVE  counts'[s] + unread'[s] + left'[s] = world'.plan[Trial'].writes[s]
    BY <2>1, <2>2, <2>3
  <2> QED BY <2>4 DEF UnitsAreKept
<1>4. CASE MkdirFails
  BY <1>4 DEF MkdirFails, Leave, UnitsAreKept, Busy, Ending, Gone
<1>5. CASE NoTrial
  BY <1>5 DEF NoTrial, Record, Leave, UnitsAreKept, Busy, Ending, Gone
<1>6. CASE Poll
  BY <1>6 DEF Poll, Goto, UnitsAreKept, Trial, Busy, Ending, Gone
<1>7. CASE TestLimits
  BY <1>7 DEF TestLimits, Goto, UnitsAreKept, Trial, Busy, Ending, Gone
<1>8. CASE Terminate
  BY <1>8 DEF Terminate, Goto, UnitsAreKept, Trial, Busy, Ending, Gone
<1>9. CASE Reap
  BY <1>9 DEF Reap, Goto, UnitsAreKept, Trial, Busy, Ending, Gone
<1>10. CASE JoinReturns
  BY <1>10 DEF JoinReturns, Goto, After, UnitsAreKept, Trial, Busy, Ending, Gone
<1>11. CASE JoinTimesOut
  BY <1>11 DEF JoinTimesOut, After, UnitsAreKept, Trial, Busy, Ending, Gone
<1>12. CASE Stopped
  BY <1>12 DEF Stopped, Record, Leave, UnitsAreKept, Busy, Ending, Gone
<1>13. CASE Returned
  BY <1>13 DEF Returned, Record, Leave, UnitsAreKept, Busy, Ending, Gone
<1>14. CASE ChildEnds
  BY <1>14 DEF ChildEnds, others, UnitsAreKept, Trial
<1>15. CASE ChildDies
  BY <1>15 DEF ChildDies, others, UnitsAreKept, Trial
<1>16. CASE DeadlinePasses
  BY <1>16 DEF DeadlinePasses, others, UnitsAreKept, Trial
<1>17. ASSUME NEW s \in Streams, ChildWrites(s)
      PROVE  UnitsAreKept'
  <2>1. \A t \in Streams : counts'[t] + unread'[t] + left'[t] = counts[t] + unread[t] + left[t]
    BY <1>17 DEF ChildWrites, UnitsTyped
  <2> QED BY <1>17, <2>1 DEF ChildWrites, others, UnitsAreKept, Trial
<1>18. ASSUME NEW s \in Streams, Drain(s)
      PROVE  UnitsAreKept'
  <2>1. Least(unread[s], Chunk) \in Nat /\ Least(unread[s], Chunk) <= unread[s]
    BY SizesAssumption DEF Least, UnitsTyped
  <2>2. \A t \in Streams : counts'[t] + unread'[t] + left'[t] = counts[t] + unread[t] + left[t]
    BY <1>18, <2>1 DEF Drain, UnitsTyped
  <2> QED BY <1>18, <2>2 DEF Drain, others, UnitsAreKept, Trial
<1>19. ASSUME NEW s \in Streams, DrainEnds(s)
      PROVE  UnitsAreKept'
  BY <1>19 DEF DrainEnds, others, UnitsAreKept, Trial
<1>20. CASE UNCHANGED vars
  BY <1>20 DEF vars, exportVars, UnitsAreKept, Trial
<1> QED
  BY <1>1, <1>2, <1>3, <1>4, <1>5, <1>6, <1>7, <1>8, <1>9, <1>10, <1>11, <1>12, <1>13, <1>14, <1>15, <1>16, <1>17, <1>18, <1>19, <1>20, StepSplit

\* A thread stops at the end of its stream or at the limit.
LEMMA StepDrains ==
    ASSUME FlagsTyped, UnitsTyped, CallTyped, PlacesAgree, DrainsAreTrue, [Next]_vars
    PROVE  DrainsAreTrue'
<1> USE DEF childVars, historyVars
<1>1. CASE ExportMoves /\ UNCHANGED exporting
  BY <1>1 DEF exporting, DrainsAreTrue, Total
<1>2. ASSUME NEW trusted \in BOOLEAN, Launch(trusted)
      PROVE  DrainsAreTrue'
  BY <1>2 DEF Launch, DrainsAreTrue, Total
<1>3. CASE StartTrial
  <2>1. (\A s \in Streams : drain[s] = "reading") /\ ~exceeded
    BY <1>3 DEF StartTrial, PlacesAgree, Fresh, Busy, Ending, Gone
  <2> QED BY <1>3, <2>1 DEF StartTrial, DrainsAreTrue
<1>4. CASE MkdirFails
  BY <1>4 DEF MkdirFails, mainKeeps, Leave, DrainsAreTrue, Total
<1>5. CASE NoTrial
  BY <1>5 DEF NoTrial, Record, FreshTrial, DrainsAreTrue
<1>6. CASE Poll
  BY <1>6 DEF Poll, Goto, DrainsAreTrue, Total
<1>7. CASE TestLimits
  BY <1>7 DEF TestLimits, Goto, DrainsAreTrue, Total
<1>8. CASE Terminate
  BY <1>8 DEF Terminate, Goto, DrainsAreTrue, Total
<1>9. CASE Reap
  BY <1>9 DEF Reap, Goto, DrainsAreTrue, Total
<1>10. CASE JoinReturns
  BY <1>10 DEF JoinReturns, Goto, DrainsAreTrue, Total
<1>11. CASE JoinTimesOut
  BY <1>11 DEF JoinTimesOut, DrainsAreTrue, Total
<1>12. CASE Stopped
  BY <1>12 DEF Stopped, Record, FreshTrial, DrainsAreTrue
<1>13. CASE Returned
  BY <1>13 DEF Returned, Record, FreshTrial, DrainsAreTrue
<1>14. CASE ChildEnds
  BY <1>14 DEF ChildEnds, DrainsAreTrue, Total, Codes
<1>15. CASE ChildDies
  BY <1>15 DEF ChildDies, DrainsAreTrue, Total, Codes
<1>16. CASE DeadlinePasses
  BY <1>16 DEF DeadlinePasses, others, DrainsAreTrue, Total
<1>17. ASSUME NEW s \in Streams, ChildWrites(s)
      PROVE  DrainsAreTrue'
  BY <1>17 DEF ChildWrites, DrainsAreTrue, Total, Codes
<1>18. ASSUME NEW s \in Streams, Drain(s)
      PROVE  DrainsAreTrue'
  <2> DEFINE counted == [counts EXCEPT ![s] = counts[s] + Least(unread[s], Chunk)]
             over == Total(counted) > OutputLimit
  <2>1. Least(unread[s], Chunk) \in Nat
    BY SizesAssumption DEF Least, UnitsTyped
  <2>2. counted[1] >= counts[1] /\ counted[2] >= counts[2] /\ counted \in [Streams -> Nat]
    BY <2>1 DEF UnitsTyped, Streams
  <2>3. Total(counted) >= Total(counts) /\ Total(counted) \in Int /\ Total(counts) \in Int
    BY <2>2 DEF Total, UnitsTyped, Streams
  <2>4. /\ counts' = counted /\ child' = child
        /\ exceeded' <=> (exceeded \/ over)
        /\ drain' = [drain EXCEPT ![s] = IF over THEN "limit" ELSE drain[s]]
        /\ drain[s] = "reading"
        /\ unread' = [unread EXCEPT ![s] = unread[s] - Least(unread[s], Chunk)]
    BY <1>18 DEF Drain, others
  <2> HIDE DEF counted
  <2>5. exceeded' => Total(counts') > OutputLimit
    BY <2>3, <2>4, SizesAssumption DEF DrainsAreTrue
  <2>6. ASSUME NEW t \in Streams, drain'[t] = "eof"
        PROVE  child' \in Codes /\ unread'[t] = 0
    BY <2>4, <2>6 DEF DrainsAreTrue, UnitsTyped
  <2>7. ASSUME NEW t \in Streams, drain'[t] = "limit"
        PROVE  exceeded'
    BY <2>4, <2>7 DEF DrainsAreTrue, UnitsTyped
  <2> QED BY <2>5, <2>6, <2>7 DEF DrainsAreTrue
<1>19. ASSUME NEW s \in Streams, DrainEnds(s)
      PROVE  DrainsAreTrue'
  <2>1. child \in Codes
    BY <1>19 DEF DrainEnds, ChildGone, CallTyped
  <2> QED BY <1>19, <2>1 DEF DrainEnds, others, DrainsAreTrue, UnitsTyped, Total
<1>20. CASE UNCHANGED vars
  BY <1>20 DEF vars, exportVars, DrainsAreTrue, Total
<1> QED
  BY <1>1, <1>2, <1>3, <1>4, <1>5, <1>6, <1>7, <1>8, <1>9, <1>10, <1>11, <1>12, <1>13, <1>14, <1>15, <1>16, <1>17, <1>18, <1>19, <1>20, StepSplit

\* A thread that is not late has been waited for.
LEMMA StepLate ==
    ASSUME FlagsTyped, UnitsTyped, CallTyped, LateIsKnown, [Next]_vars
    PROVE  LateIsKnown'
<1> USE DEF childVars, historyVars
<1>1. CASE ExportMoves /\ UNCHANGED exporting
  BY <1>1 DEF exporting, LateIsKnown
<1>2. ASSUME NEW trusted \in BOOLEAN, Launch(trusted)
      PROVE  LateIsKnown'
  BY <1>2 DEF Launch, mainKeeps, Leave, LateIsKnown
<1>3. CASE StartTrial
  BY <1>3 DEF StartTrial, mainKeeps, LateIsKnown
<1>4. CASE MkdirFails
  BY <1>4 DEF MkdirFails, mainKeeps, Leave, LateIsKnown
<1>5. CASE NoTrial
  BY <1>5 DEF NoTrial, Record, FreshTrial, Leave, LateIsKnown
<1>6. CASE Poll
  BY <1>6 DEF Poll, Goto, LateIsKnown
<1>7. CASE TestLimits
  BY <1>7 DEF TestLimits, Goto, LateIsKnown
<1>8. CASE Terminate
  BY <1>8 DEF Terminate, Goto, LateIsKnown
<1>9. CASE Reap
  BY <1>9 DEF Reap, Goto, LateIsKnown
<1>10. CASE JoinReturns
  BY <1>10 DEF JoinReturns, Goto, After, StreamOf, LateIsKnown, Streams
<1>11. CASE JoinTimesOut
  BY <1>11 DEF JoinTimesOut, LateIsKnown
<1>12. CASE Stopped
  BY <1>12 DEF Stopped, Record, FreshTrial, Leave, LateIsKnown
<1>13. CASE Returned
  BY <1>13 DEF Returned, Record, FreshTrial, Leave, LateIsKnown
<1>14. CASE ChildEnds
  BY <1>14 DEF ChildEnds, others, LateIsKnown
<1>15. CASE ChildDies
  BY <1>15 DEF ChildDies, others, LateIsKnown
<1>16. CASE DeadlinePasses
  BY <1>16 DEF DeadlinePasses, others, LateIsKnown
<1>17. ASSUME NEW s \in Streams, ChildWrites(s)
      PROVE  LateIsKnown'
  BY <1>17 DEF ChildWrites, others, LateIsKnown
<1>18. ASSUME NEW s \in Streams, Drain(s)
      PROVE  LateIsKnown'
  BY <1>18 DEF Drain, others, LateIsKnown, UnitsTyped, Streams
<1>19. ASSUME NEW s \in Streams, DrainEnds(s)
      PROVE  LateIsKnown'
  BY <1>19 DEF DrainEnds, others, LateIsKnown, UnitsTyped, Streams
<1>20. CASE UNCHANGED vars
  BY <1>20 DEF vars, exportVars, LateIsKnown
<1> QED
  BY <1>1, <1>2, <1>3, <1>4, <1>5, <1>6, <1>7, <1>8, <1>9, <1>10, <1>11, <1>12, <1>13, <1>14, <1>15, <1>16, <1>17, <1>18, <1>19, <1>20, StepSplit

\* The environment of the child is made when it starts.
LEMMA StepEnvironment ==
    ASSUME CallTyped, PlacesAgree, EnvironmentAgrees, [Next]_vars
    PROVE  EnvironmentAgrees'
<1> USE DEF childVars, historyVars
<1>1. CASE ExportMoves /\ UNCHANGED exporting
  BY <1>1 DEF exporting, EnvironmentAgrees
<1>2. ASSUME NEW trusted \in BOOLEAN, Launch(trusted)
      PROVE  EnvironmentAgrees'
  BY <1>2 DEF Launch, mainKeeps, EnvironmentAgrees
<1>3. CASE StartTrial
  BY <1>3, SameEnvironment DEF StartTrial, mainKeeps, EnvironmentAgrees
<1>4. CASE MkdirFails
  BY <1>4 DEF MkdirFails, mainKeeps, EnvironmentAgrees
<1>5. CASE NoTrial
  BY <1>5 DEF NoTrial, Record, FreshTrial, Leave, EnvironmentAgrees, exportVars
<1>6. CASE Poll
  BY <1>6 DEF Poll, Goto, EnvironmentAgrees, exportVars
<1>7. CASE TestLimits
  BY <1>7 DEF TestLimits, Goto, EnvironmentAgrees, exportVars
<1>8. CASE Terminate
  BY <1>8 DEF Terminate, Goto, EnvironmentAgrees, exportVars
<1>9. CASE Reap
  BY <1>9 DEF Reap, Goto, EnvironmentAgrees, exportVars
<1>10. CASE JoinReturns
  BY <1>10 DEF JoinReturns, Goto, EnvironmentAgrees, exportVars
<1>11. CASE JoinTimesOut
  BY <1>11 DEF JoinTimesOut, EnvironmentAgrees, exportVars
<1>12. CASE Stopped
  BY <1>12 DEF Stopped, Record, FreshTrial, Leave, EnvironmentAgrees, exportVars
<1>13. CASE Returned
  BY <1>13 DEF Returned, Record, FreshTrial, Leave, EnvironmentAgrees, exportVars
<1>14. CASE ChildEnds
  BY <1>14 DEF ChildEnds, others, EnvironmentAgrees, exportVars
<1>15. CASE ChildDies
  BY <1>15 DEF ChildDies, others, EnvironmentAgrees, exportVars
<1>16. CASE DeadlinePasses
  BY <1>16 DEF DeadlinePasses, others, EnvironmentAgrees, exportVars
<1>17. ASSUME NEW s \in Streams, ChildWrites(s)
      PROVE  EnvironmentAgrees'
  BY <1>17 DEF ChildWrites, others, EnvironmentAgrees, exportVars
<1>18. ASSUME NEW s \in Streams, Drain(s)
      PROVE  EnvironmentAgrees'
  BY <1>18 DEF Drain, others, EnvironmentAgrees, exportVars
<1>19. ASSUME NEW s \in Streams, DrainEnds(s)
      PROVE  EnvironmentAgrees'
  BY <1>19 DEF DrainEnds, others, EnvironmentAgrees, exportVars
<1>20. CASE UNCHANGED vars
  BY <1>20 DEF vars, exportVars, EnvironmentAgrees, exportVars
<1> QED
  BY <1>1, <1>2, <1>3, <1>4, <1>5, <1>6, <1>7, <1>8, <1>9, <1>10, <1>11, <1>12, <1>13, <1>14, <1>15, <1>16, <1>17, <1>18, <1>19, <1>20, StepSplit


-----------------------------------------------------------------------------
\* Nothing has begun.
LEMMA InitHolds == Init => IInv
<1> SUFFICES ASSUME Init
             PROVE  IInv
  OBVIOUS
<1>0. world.moves \in 0..world.moves /\ world.top \in Tops /\ world.name \in Things
  BY WorldTyped, MovesAssumption DEF Init
<1>1. ExportInv
  BY DEF Init, ExportInv, FilesFollow, ExportedIsExportable, FileNames, FileStates
<1>2. ReadTyped
  <2>1. /\ top = world.top /\ entry = [dir1 |-> world.name, dir2 |-> "file2"] /\ rewritten = {}
        /\ moves = world.moves /\ at = "ensure" /\ before = [name |-> "nothing", top |-> "nothing"]
        /\ opened = "nothing" /\ data = <<>>
    BY DEF Init, ReadInit
  <2>2. entry \in [Dirs -> Things] /\ opened \in Things
    <3>1. [dir1 |-> world.name, dir2 |-> "file2"] \in [dir1 : Things, dir2 : Things]
      BY <1>0 DEF Things, RegularFiles
    <3>2. [dir1 : Things, dir2 : Things] \subseteq [Dirs -> Things]
      BY DEF Dirs
    <3> QED BY <2>1, <3>1, <3>2 DEF Things
  <2>3. before \in [name : Things, top : Tops \union {"nothing"}]
    BY <2>1 DEF Things
  <2>4. at \in BeforeOpen /\ at \notin Held
    BY <2>1 DEF BeforeOpen, Held, Compared
  <2> QED BY <1>0, <2>1, <2>2, <2>3, <2>4 DEF ReadTyped
<1>3. MovesAreCounted /\ Undisturbed
  BY DEF Init, ReadInit, MovesAreCounted, Undisturbed, Held, Compared
<1>4. FlagsTyped /\ CallTyped /\ UnitsTyped
  <2>1. FlagsTyped
    BY DEF Init, FlagsTyped
  <2>2. CallTyped
    BY DEF Init, CallTyped
  <2>3. UnitsTyped
    BY SizesAssumption DEF Init, UnitsTyped, Nothing
  <2> QED BY <2>1, <2>2, <2>3
<1>5. PlacesAgree
  BY DEF Init, PlacesAgree, Fresh, Busy, Ending, Gone
<1>6. ReasonsHaveCauses /\ EndsAreTrue /\ UnitsAreKept /\ DrainsAreTrue /\ LateIsKnown
  BY DEF Init, ReasonsHaveCauses, EndsAreTrue, UnitsAreKept, DrainsAreTrue, LateIsKnown,
         Busy, Ending, Gone
<1>7. EnvironmentAgrees
  BY DEF Init, EnvironmentAgrees
<1> QED BY <1>1, <1>2, <1>3, <1>4, <1>5, <1>6, <1>7 DEF IInv, ReadInv, CallInv

\* The parts together.
LEMMA StepHolds ==
    ASSUME IInv, [Next]_vars
    PROVE  IInv'
<1>1. ExportInv'
  BY StepFiles, StepExported DEF IInv, ExportInv, CallInv, CallTyped
<1>2. ReadInv'
  BY StepRead DEF IInv, CallInv, CallTyped
<1>3. FlagsTyped' /\ CallTyped' /\ UnitsTyped' /\ PlacesAgree'
  BY StepFlags, StepCallTyped, StepUnits, StepPlaces DEF IInv, ExportInv, CallInv
<1>4. ReasonsHaveCauses' /\ EndsAreTrue' /\ UnitsAreKept'
  BY StepReasons, StepEnds, StepUnitsKept DEF IInv, CallInv
<1>5. DrainsAreTrue' /\ LateIsKnown' /\ EnvironmentAgrees'
  BY StepDrains, StepLate, StepEnvironment DEF IInv, CallInv
<1> QED BY <1>1, <1>2, <1>3, <1>4, <1>5 DEF IInv, CallInv

\* For any archives, children, sizes and disturbances the invariant holds.
THEOREM ReproducerInvariant == Spec => []IInv
<1> QED BY InitHolds, StepHolds, PTL DEF Spec

\* The type invariant of the export, the read and the script.
THEOREM TypeCorrect == Spec => []TypeOK
<1>1. IInv => TypeOK
  <2> SUFFICES ASSUME IInv
               PROVE  TypeOK
    OBVIOUS
  <2>1. moves \in 0..Moves
    <3>1. moves \in 0..world.moves
      BY DEF IInv, ReadInv, ReadTyped
    <3>2. world.moves \in 0..Moves
      BY WorldTyped DEF IInv, CallInv, CallTyped
    <3> QED BY <3>1, <3>2, MovesAssumption
  <2>2. DOMAIN After = {"join1", "join2", "none1", "none2"}
    BY DEF After
  <2>3. /\ capsule \in DOMAIN ArchiveDocs \union {"torn"}
        /\ exporter \in FileNames \union {"check", "rmtree", "done", "raised", "killed"}
        /\ files \in [FileNames -> FileStates]
    BY DEF IInv, ExportInv, FilesFollow, ExportedIsExportable
  <2>4. /\ top \in Tops /\ entry \in [Dirs -> Things] /\ rewritten \subseteq RegularFiles
        /\ opened \in Things /\ data \in Seq(BOOLEAN)
    BY DEF IInv, ReadInv, ReadTyped
  <2>5. pc \in {"idle", "trial", "poll", "test", "terminate", "reap", "none",
                "result", "over"} \union DOMAIN After
    BY <2>2 DEF IInv, CallInv, CallTyped, Busy, Ending, Gone
  <2>6. FlagsTyped /\ CallTyped /\ UnitsTyped /\ EnvironmentAgrees
    BY DEF IInv, CallInv
  <2> QED BY <2>1, <2>3, <2>4, <2>5, <2>6
          DEF TypeOK, FlagsTyped, CallTyped, Values, UnitsTyped, EnvironmentAgrees
<1> QED BY <1>1, ReproducerInvariant, PTL

\* Whenever the command fails or is killed, no README is beside a script or a
\* capsule that is cut short, and a failed export leaves nothing
\* (export.py:682-703).
THEOREM ReadmeIsLast == Spec => []ReadmeComesLast
<1>1. IInv => ReadmeComesLast
  BY DEF IInv, ExportInv, FilesFollow, FileNames, ReadmeComesLast
<1> QED BY <1>1, ReproducerInvariant, PTL

\* A read that ends well is of the file the path named at first, against any
\* two steps of another process, for any sizes (safeio.py:68-145).
THEOREM ReadsAreOfThePath == Spec => []ReadIsOfThePath
<1>1. IInv => ReadIsOfThePath
  <2> SUFFICES ASSUME IInv, at = "read"
               PROVE  /\ opened \in RegularFiles
                      /\ world.moves <= 2 => before.name \in {"nothing", opened}
                      /\ moves = world.moves =>
                            top # "link to dir2" /\ opened = Name /\ data = <<FALSE, FALSE>>
    BY DEF ReadIsOfThePath
  <2>1. at \in Compared /\ at \in Held
    BY DEF Compared, Held
  <2>2. world.moves \in Nat /\ moves \in 0..world.moves
    BY WorldTyped, MovesAssumption DEF IInv, ReadInv, ReadTyped, CallInv, CallTyped
  <2>3. Displaced => Used >= 3
    BY <2>1 DEF IInv, ReadInv, MovesAreCounted
  <2>4. world.moves <= 2 => ~Displaced
    BY <2>2, <2>3 DEF Used
  <2> QED BY <2>1, <2>4 DEF IInv, ReadInv, ReadTyped, Undisturbed, Displaced
<1> QED BY <1>1, ReproducerInvariant, PTL

\* What the script shows its child is what the runner showed the predicate, for
\* any host, any captured environment and any time-out
\* (predicate.py:203-305, export.py:387-442, 571-608).
THEOREM ChildSeesTheSame == Spec => []ChildSeesWhatTheRunnerShows
<1>1. IInv => ChildSeesWhatTheRunnerShows
  <2> SUFFICES ASSUME IInv, child # "none"
               PROVE  ChildSeesWhatTheRunnerShows
    BY DEF ChildSeesWhatTheRunnerShows
  <2>1. childEnv = TrialEnvironment(HostNames, world.captured)
    BY DEF IInv, CallInv, EnvironmentAgrees
  <2>2. \A tenths \in 1..MaxTenths : tenths \in Nat
    OBVIOUS
  <2> QED BY <2>1, <2>2, SameEnvironment, SameGuard DEF ChildSeesWhatTheRunnerShows
<1> QED BY <1>1, ReproducerInvariant, PTL

-----------------------------------------------------------------------------
(* reproduce.py implements the promise.                                    *)

Verdicts1 == [t \in 1..Trials |-> EndVerdict(t)]
Floods == {t \in 1..Trials : Total(world.plan[t].writes) > OutputLimit}
Says(status) == CASE status = "0" -> "reproduces" [] status = "1" -> "absent"
                  [] status = "2" -> "invalid" [] OTHER -> "none"
Answer == IF ~Asked THEN "none" ELSE Says(exit)

\* The script's K-of-N is that of the protocol.
LEMMA SameCount ==
    ASSUME NEW rs
    PROVE  Says(Verdict(rs)) = Promise!KOfN(rs)
<1>1. Cardinality({t \in DOMAIN rs : rs[t] = "reproduces"}) = Promise!Zeros(rs)
  BY DEF Promise!Zeros, Cardinality, Promise!Cardinality
<1>2. CASE \E t \in DOMAIN rs : rs[t] = "invalid"
  <2>1. Verdict(rs) = "2" /\ Promise!KOfN(rs) = "invalid"
    BY <1>2 DEF Verdict, Promise!KOfN
  <2> QED BY <2>1 DEF Says
<1>3. CASE (~\E t \in DOMAIN rs : rs[t] = "invalid") /\ Promise!Zeros(rs) >= Required
  <2>1. Verdict(rs) = "0" /\ Promise!KOfN(rs) = "reproduces"
    BY <1>1, <1>3 DEF Verdict, Promise!KOfN
  <2> QED BY <2>1 DEF Says
<1>4. CASE (~\E t \in DOMAIN rs : rs[t] = "invalid") /\ ~(Promise!Zeros(rs) >= Required)
  <2>1. Verdict(rs) = "1" /\ Promise!KOfN(rs) = "absent"
    BY <1>1, <1>4 DEF Verdict, Promise!KOfN
  <2> QED BY <2>1 DEF Says
<1> QED BY <1>2, <1>3, <1>4

\* What a trial adds to the list is what Verdicts allows of it.
LEMMA TrialRecords ==
    ASSUME IInv, NoTrial \/ Stopped \/ Returned
    PROVE  \E r \in Promise!Recordable(Len(results) + 1, timedOut, late) : Record(r)
<1> DEFINE said == EndVerdict(Trial)
           over == exceeded \/ Total(counts) > OutputLimit
           r == IF NoTrial \/ Stopped THEN "invalid"
                ELSE IF over THEN "invalid"
                ELSE CASE child = "exit_0" -> "reproduces" [] child = "exit_1" -> "absent"
                       [] OTHER -> "invalid"
<1>1. Record(r)
  <2>1. CASE NoTrial \/ Stopped
    BY <2>1 DEF NoTrial, Stopped
  <2>2. CASE ~(NoTrial \/ Stopped)
    <3>1. Returned
      BY <2>2
    <3> QED BY <2>2, <3>1 DEF Returned
  <2> QED BY <2>1, <2>2
<1>2. pc \in {"trial", "none", "result"} /\ pc \in Busy \union {"trial"}
  BY DEF NoTrial, Stopped, Returned, Busy, Ending, Gone
<1>3. Trial \in 1..Trials /\ world.plan[Trial].writes \in [Streams -> Nat]
  BY <1>2, PlanTyped DEF IInv, CallInv
<1>4. pc # "trial" =>
         /\ Total(counts) \in Int /\ Total(world.plan[Trial].writes) \in Int
         /\ Total(counts) <= Total(world.plan[Trial].writes)
  BY <1>2, <1>3 DEF IInv, CallInv, UnitsAreKept, UnitsTyped, Total, Streams
<1>5. pc # "trial" /\ over => Total(world.plan[Trial].writes) > OutputLimit
  BY <1>4, SizesAssumption DEF IInv, CallInv, DrainsAreTrue
<1>6. r \in {IF Total(world.plan[Trial].writes) > OutputLimit THEN "invalid" ELSE said}
          \union (IF timedOut THEN {"invalid"} ELSE {})
          \union (IF late THEN {said} ELSE {})
  <2>1. CASE NoTrial
    <3>1. ~world.runs
      BY <1>2, <2>1 DEF NoTrial, IInv, CallInv, PlacesAgree
    <3>2. said = "invalid"
      BY <3>1 DEF EndVerdict
    <3> QED BY <2>1, <3>2
  <2>2. CASE Stopped
    <3>1. exceeded \/ timedOut
      BY <2>2 DEF Stopped, IInv, CallInv, ReasonsHaveCauses, Ending
    <3>2. pc # "trial"
      BY <2>2 DEF Stopped
    <3> QED BY <1>5, <2>2, <3>1, <3>2
  <2>3. CASE Returned /\ over
    <3>1. pc # "trial"
      BY <2>3 DEF Returned
    <3> QED BY <1>5, <2>3, <3>1
  <2>4. CASE Returned /\ ~over /\ ~NoTrial /\ ~Stopped
    <3>1. pc = "result" /\ pc \in Busy /\ pc \in Gone /\ pc \notin Ending
      BY <2>4 DEF Returned, Busy, Gone, Ending
    <3>2. child \in Codes /\ world.runs
      BY <3>1 DEF IInv, CallInv, PlacesAgree
    <3>3. child = world.plan[Trial].end /\ left = Nothing
      BY <3>1, <3>2 DEF IInv, CallInv, ReasonsHaveCauses, EndsAreTrue
    <3>4. r = said
      BY <2>4, <3>2, <3>3 DEF EndVerdict
    <3>5. ~late => ~(Total(world.plan[Trial].writes) > OutputLimit)
      <4> SUFFICES ASSUME ~late
                   PROVE  Total(counts) = Total(world.plan[Trial].writes)
        BY <1>4, <2>4, <3>1
      <4>1. \A s \in Streams : drain[s] = "eof"
        BY <2>4, <3>1 DEF IInv, CallInv, LateIsKnown, DrainsAreTrue, UnitsTyped
      <4>2. \A s \in Streams : unread[s] = 0 /\ left[s] = 0
        BY <3>3, <4>1 DEF IInv, CallInv, DrainsAreTrue, Nothing
      <4>3. \A s \in Streams : counts[s] = world.plan[Trial].writes[s]
        BY <1>3, <3>1, <4>2 DEF IInv, CallInv, UnitsAreKept, UnitsTyped
      <4> QED BY <4>3 DEF Total, Streams
    <3> HIDE DEF r, said
    <3> QED BY <3>4, <3>5
  <2> QED BY <2>1, <2>2, <2>3, <2>4
<1>7. r \in Promise!Recordable(Len(results) + 1, timedOut, late)
  BY <1>3, <1>6 DEF Promise!Recordable, Trial
<1> HIDE DEF r
<1> QED BY <1>1, <1>7

\* Before the first trial there is no answer.
LEMMA InitImplements == Init => Promise!Init
<1> SUFFICES ASSUME Init PROVE Promise!Init
  OBVIOUS
<1>1. [t \in 1..Trials |-> EndVerdict(t)] \in [1..Trials -> Promise!Results]
  BY DEF Promise!Results, EndVerdict
<1>2. ~Asked
  BY TrialsAssumption DEF Init, Asked
<1> QED BY <1>1, <1>2 DEF Init, Promise!Init

\* A step that records nothing only disturbs the run.
LEMMA QuietImplements ==
    ASSUME FlagsTyped, FlagsTyped', UNCHANGED <<world, results, Answer>>,
           timedOut => timedOut', late => late'
    PROVE  Promise!Disturb
<1>1. timedOut' \in {timedOut, TRUE}
  BY DEF FlagsTyped
<1>2. late' \in {late, TRUE}
  BY DEF FlagsTyped
<1>3. UNCHANGED <<Verdicts1, Floods, results, Answer>>
  BY DEF Verdicts1, Floods, EndVerdict
<1> QED BY <1>1, <1>2, <1>3 DEF Promise!Disturb, Verdicts1, Floods, Answer, Says

\* A recorded trial that Verdicts allows, with the exit status after the last.
LEMMA RecordImplements ==
    ASSUME IInv, pc \in Busy \union {"trial"},
           NEW r \in Promise!Recordable(Len(results) + 1, timedOut, late), Record(r)
    PROVE  Promise!Record
<1>1. /\ UNCHANGED <<world, files, timedOut, late>>
      /\ results' = Append(results, r)
      /\ Trial = Trials => exit' = Verdict(results')
  BY DEF Record, exportVars, historyVars, Leave
<1>2. UNCHANGED <<Verdicts1, Floods>>
  BY <1>1 DEF Verdicts1, Floods, EndVerdict
<1>3. files["script"] = "whole" /\ Len(results) < Trials /\ results \in Seq(Values)
  BY DEF IInv, CallInv, PlacesAgree, CallTyped
<1>4. Len(results') = Trial /\ Trial = Len(results) + 1
  BY <1>1, <1>3 DEF Trial
<1>5. Answer = "none"
  BY <1>3 DEF Answer, Asked
<1>6. Trial # Trials => Answer' = "none"
  BY <1>4 DEF Answer, Asked
<1>7. Trial = Trials => Answer' = Promise!KOfN(results')
  <2> SUFFICES ASSUME Trial = Trials
               PROVE  Answer' = Promise!KOfN(results')
    OBVIOUS
  <2>1. Asked'
    BY <1>1, <1>3, <1>4 DEF Asked
  <2>2. exit' = Verdict(results')
    BY <1>1
  <2>3. PICK rs : rs = results'
    OBVIOUS
  <2>4. exit' = Verdict(rs)
    BY <2>2, <2>3
  <2>5. Answer' = Says(exit')
    BY <2>1 DEF Answer
  <2>6. Answer' = Promise!KOfN(rs)
    BY <2>4, <2>5, SameCount
  <2> QED BY <2>3, <2>6
<1>8. Answer' \in {Answer} \union
         (IF Len(results') = Trials THEN {Promise!KOfN(results')} ELSE {})
  BY <1>4, <1>5, <1>6, <1>7
<1> QED BY <1>1, <1>2, <1>3, <1>8 DEF Promise!Record, Verdicts1, Floods, Answer, Says

\* The steps that record nothing leave the answer as it is.
LEMMA OthersAreQuiet ==
    ASSUME IInv, [Next]_vars, ~NoTrial, ~Stopped, ~Returned
    PROVE  /\ UNCHANGED <<world, results, Answer>>
           /\ timedOut => timedOut'
           /\ late => late'
<1> USE DEF childVars, historyVars
<1>0. IInv => (pc # "idle" => ExportOver) /\ (pc = "idle" => Len(results) # Trials)
  BY TrialsAssumption DEF IInv, CallInv, PlacesAgree
<1>1. CASE ExportMoves /\ UNCHANGED exporting
  <2>1. UNCHANGED <<world, results, exit, timedOut, late, pc>>
    BY <1>1 DEF exporting
  <2>2. pc # "idle" => UNCHANGED files
    BY <1>0, <1>1 DEF ExportOver, FileNames, ExportMoves, ExportStep, ReadSource, ExportChecks,
       RmtreeEnds, Create, Fill, WriteFails, RemoveFile, ExporterKilled, ReplaceCapsule
  <2>3. CASE pc = "idle"
    BY <1>0, <2>1, <2>3 DEF Answer, Asked
  <2>4. CASE pc # "idle"
    BY <2>1, <2>2, <2>4 DEF Answer, Asked
  <2> QED BY <2>1, <2>3, <2>4
<1>2. ASSUME NEW trusted \in BOOLEAN, Launch(trusted)
      PROVE  UNCHANGED <<world, results, Answer, timedOut, late>>
  <2>1. UNCHANGED <<world, results, timedOut, late>> /\ pc = "idle"
    BY <1>2 DEF Launch, mainKeeps
  <2> QED BY <1>0, <2>1 DEF Answer, Asked
<1>3. CASE MkdirFails
  <2>1. UNCHANGED <<world, results, timedOut, late>> /\ Len(results) # Trials
    BY <1>3, TrialsAssumption DEF MkdirFails, mainKeeps, IInv, CallInv, PlacesAgree, CallTyped
  <2> QED BY <2>1 DEF Answer, Asked
<1>4. CASE StartTrial
  BY <1>4 DEF StartTrial, mainKeeps, exportVars, Answer, Asked
<1>5. CASE Poll \/ TestLimits \/ Terminate \/ Reap \/ JoinReturns
  BY <1>5 DEF Poll, TestLimits, Terminate, Reap, JoinReturns, Goto, exportVars, Answer, Asked
<1>6. CASE JoinTimesOut
  BY <1>6 DEF JoinTimesOut, exportVars, Answer, Asked
<1>7. CASE ChildEnds \/ ChildDies \/ DeadlinePasses
  BY <1>7 DEF ChildEnds, ChildDies, DeadlinePasses, others, exportVars, Answer, Asked
<1>8. ASSUME NEW s \in Streams, ChildWrites(s) \/ Drain(s) \/ DrainEnds(s)
      PROVE  UNCHANGED <<world, results, Answer, timedOut, late>>
  BY <1>8 DEF ChildWrites, Drain, DrainEnds, others, exportVars, Answer, Asked
<1>9. CASE UNCHANGED vars
  BY <1>9 DEF vars, exportVars, Answer, Asked
<1> QED BY <1>1, <1>2, <1>3, <1>4, <1>5, <1>6, <1>7, <1>8, <1>9, StepSplit

\* A step records a trial, as Verdicts allows, or only disturbs.
LEMMA StepImplements ==
    ASSUME IInv, [Next]_vars
    PROVE  [Promise!Next]_(Promise!vars)
<1>1. CASE NoTrial \/ Stopped \/ Returned
  <2>1. pc \in Busy \union {"trial"}
    BY <1>1 DEF NoTrial, Stopped, Returned, Busy, Ending, Gone
  <2>2. PICK r \in Promise!Recordable(Len(results) + 1, timedOut, late) : Record(r)
    BY <1>1, TrialRecords
  <2>3. Promise!Record
    BY <2>1, <2>2, RecordImplements
  <2> QED BY <2>3 DEF Promise!Next
<1>2. CASE ~(NoTrial \/ Stopped \/ Returned)
  <2>1. FlagsTyped /\ FlagsTyped'
    BY StepHolds DEF IInv, CallInv
  <2>2. /\ UNCHANGED <<world, results, Answer>>
        /\ timedOut => timedOut'
        /\ late => late'
    BY <1>2, OthersAreQuiet
  <2>3. Promise!Disturb
    BY <2>1, <2>2, QuietImplements
  <2> QED BY <2>3 DEF Promise!Next
<1> QED BY <1>1, <1>2

\* reproduce.py keeps the promise of the predicate protocol, as run_predicate
\* does, whatever has become of its export and of the capsule beside it, for any
\* number of trials, any K, limits and children, and however its child, its two
\* drain threads, the clock and the kill race (export.py:445-645).
THEOREM ScriptImplementsVerdicts == Spec => ImplementsVerdicts
<1>1. Init => Promise!Init
  BY InitImplements
<1>2. IInv /\ [Next]_vars => [Promise!Next]_(Promise!vars)
  BY StepImplements
<1> QED BY <1>1, <1>2, ReproducerInvariant, PTL DEF Spec, ImplementsVerdicts, Promise!Spec

-----------------------------------------------------------------------------
(* And with it everything that is proved of the promise.                   *)

Sound == INSTANCE VerdictsProofs WITH
    verdicts <- Verdicts1,
    floods <- Floods,
    stopped <- timedOut,
    unread <- late,
    results <- results,
    answer <- Answer

\* An exit status 0 or 1 of the script that has run every trial counts the
\* zeros of children that all ended by themselves with 0 or 1, and with no
\* thread given up on none of them wrote too much; with no deadline passed, a 2
\* after every trial has its cause in a child (export.py:445-645).
THEOREM ExitStatusIsSound ==
    Spec => [](Sound!AnswerIsSound /\ Sound!AnswerIsExact)
<1> USE DEF Verdicts1, Floods, Answer, Says
<1>1. Promise!Init => Sound!Init
  BY DEF Promise!Init, Sound!Init, Promise!Results, Sound!Results
<1>2. [Promise!Next]_(Promise!vars) => [Sound!Next]_(Sound!vars)
  <2>1. \A rs : Promise!KOfN(rs) = Sound!KOfN(rs)
    <3> TAKE rs
    <3>1. Promise!Zeros(rs) = Sound!Zeros(rs)
      BY DEF Promise!Zeros, Sound!Zeros, Promise!Cardinality, Sound!Cardinality
    <3> QED BY <3>1 DEF Promise!KOfN, Sound!KOfN
  <2>2. Promise!Disturb => Sound!Disturb
    BY DEF Promise!Disturb, Sound!Disturb
  <2>3. Promise!Record => Sound!Record
    BY <2>1 DEF Promise!Record, Sound!Record, Promise!Recordable, Sound!Recordable
  <2>4. Promise!Answer => Sound!Answer
    BY <2>1 DEF Promise!Answer, Sound!Answer
  <2>5. UNCHANGED Promise!vars => UNCHANGED Sound!vars
    BY DEF Promise!vars, Sound!vars
  <2> QED BY <2>2, <2>3, <2>4, <2>5 DEF Promise!Next, Sound!Next
<1>3. Sound!Spec => []Sound!AnswerIsSound /\ []Sound!AnswerIsExact
  BY TrialsAssumption, Sound!AnswersAreSound, Sound!AnswersAreExact
<1> QED
  BY <1>1, <1>2, <1>3, ScriptImplementsVerdicts, PTL
     DEF ImplementsVerdicts, Promise!Spec, Sound!Spec
-----------------------------------------------------------------------------
(* The walks of Documents: what is defined by going through a text, a list or  *)
(* the levels of a document is reasoned about by counting.                    *)

\* What holds of zero, and of the successor of each number it holds of, holds
\* of every number.
LEMMA Counting ==
    ASSUME NEW T, 0 \in T, \A n \in Nat : n \in T => n + 1 \in T
    PROVE  Nat \subseteq T
<1>1. SUFFICES ASSUME ~(Nat \subseteq T) PROVE FALSE
  OBVIOUS
<1>2. PICK x \in Nat \ T : \A y \in Nat \ T : x <= y
  BY <1>1, LeastNumber
<1>3. x # 0 /\ x - 1 \in Nat /\ x - 1 \in T
  BY <1>2
<1>4. QED
  BY <1>2, <1>3

\* A function that starts as `base' and goes on by `step'.
Runs(f, n, base, step) ==
    f[0] = base /\ \A i \in 1..n : f[i] = step[<<f[i - 1], i>>]

\* There is one, whatever the step is.
LEMMA RunExists ==
    ASSUME NEW T, NEW n \in Nat, NEW base \in T, NEW step \in [T \X (1..n) -> T]
    PROVE  \E f \in [0..n -> T] : Runs(f, n, base, step)
<1> DEFINE Reached == {m \in Nat : m <= n => \E f \in [0..m -> T] : Runs(f, m, base, step)}
<1>1. 0 \in Reached
  <2>1. [i \in 0..0 |-> base] \in [0..0 -> T] /\ Runs([i \in 0..0 |-> base], 0, base, step)
    BY DEF Runs
  <2> QED
    BY <2>1
<1>2. ASSUME NEW m \in Nat, m \in Reached PROVE m + 1 \in Reached
  <2>1. SUFFICES ASSUME m + 1 <= n
                 PROVE  \E f \in [0..(m + 1) -> T] : Runs(f, m + 1, base, step)
    OBVIOUS
  <2>2. PICK f \in [0..m -> T] : Runs(f, m, base, step)
    BY <1>2, <2>1
  <2>3. PICK last \in T : last = step[<<f[m], m + 1>>]
    BY <2>1
  <2> DEFINE g == [i \in 0..(m + 1) |-> IF i <= m THEN f[i] ELSE last]
  <2>4. g \in [0..(m + 1) -> T] /\ g[m + 1] = last /\ \A i \in 0..m : g[i] = f[i]
    OBVIOUS
  <2> HIDE DEF g
  <2>5. g[0] = base
    BY <2>2, <2>4 DEF Runs
  <2>6. ASSUME NEW i \in 1..(m + 1) PROVE g[i] = step[<<g[i - 1], i>>]
    <3>1. CASE i = m + 1
      BY SMTT(60), <2>3, <2>4, <3>1
    <3>2. CASE i <= m
      <4>1. i \in 1..m /\ i \in 0..m /\ i - 1 \in 0..m
        BY <3>2
      <4> QED
        BY <2>2, <2>4, <4>1 DEF Runs
    <3> QED
      BY <3>1, <3>2
  <2>7. Runs(g, m + 1, base, step)
    BY <2>5, <2>6 DEF Runs
  <2> QED
    BY <2>4, <2>7
<1>3. n \in Reached
  BY <1>1, <1>2, Counting
<1> QED
  BY <1>3

\* Two functions that start alike and go on alike are alike.
LEMMA RunsAgree ==
    ASSUME NEW n \in Nat, NEW f, NEW g, f[0] = g[0],
           \A i \in 1..n : f[i - 1] = g[i - 1] => f[i] = g[i]
    PROVE  \A i \in 0..n : f[i] = g[i]
<1> DEFINE Same == {m \in Nat : m <= n => f[m] = g[m]}
<1>1. 0 \in Same
  OBVIOUS
<1>2. ASSUME NEW m \in Nat, m \in Same PROVE m + 1 \in Same
  <2>1. SUFFICES ASSUME m + 1 <= n PROVE f[m + 1] = g[m + 1]
    OBVIOUS
  <2>2. m + 1 \in 1..n /\ (m + 1) - 1 = m /\ f[m] = g[m]
    BY <1>2, <2>1
  <2> QED
    BY <2>2
<1>3. Nat \subseteq Same
  BY <1>1, <1>2, Counting
<1> QED
  BY <1>3
-----------------------------------------------------------------------------
(* What the command and the script make of a capsule.                       *)

\* The names of workspace files in an archive.
LEMMA FilesAreNamed ==
    /\ \A p, q \in Paths : FileMember[p] = FileMember[q] => p = q
    /\ \A p \in Paths : FileMember[p] \notin Required6 \union {"manifest"}
    /\ FileMembers = {FileMember[p] : p \in Paths}
BY DEF FileMember, Paths, Required6, FileMembers

\* What is written again has the same members, the index perhaps as another document.
LEMMA WrittenMembers ==
    ASSUME NEW archive, Loads(archive)
    PROVE  LET again == CapsuleBytes(Loaded(archive)) IN
           /\ NamesOf(again) = NamesOf(archive)
           /\ \A n \in NamesOf(archive) \ {"manifest", "index"} :
                 ContentOf(again, n) = ContentOf(archive, n)
           /\ ContentOf(again, "index") \in DOMAIN IndexDocs
           /\ Range(Declared(again)) = Range(Declared(archive))
           /\ IsInjective(Declared(again))
<1> DEFINE D == Declared(archive)
           loaded == Loaded(archive)
           W == loaded.workspace
           M == PayloadMembers(loaded)
           again == CapsuleBytes(loaded)
           d == IndexOf(W)
           Files == {FileMember[p] : p \in Range(D)}
<1>1. /\ ContentOf(archive, "index") \in DOMAIN IndexDocs /\ IndexMatches(archive)
      /\ KnownMembers(archive) /\ "manifest" \in NamesOf(archive)
  BY DEF Loads, ValidatedMembers, CapsuleFromMembers
<1>2. D \in Seq(Paths)
  BY <1>1, DocsAssumption DEF Declared
<1>3. Range(D) \subseteq Paths
  BY <1>2 DEF Range
<1>4. W = [p \in Range(D) |-> ContentOf(archive, FileMember[p])]
  BY DEF Loaded
<1>5. /\ d \in DOMAIN IndexDocs /\ Range(IndexDocs[d]) = Range(D)
      /\ IsInjective(IndexDocs[d])
  <2>1. IsInjective(D)
    <3>1. \A i, j \in DOMAIN D : i # j => Identity(D[i]) # Identity(D[j])
      BY <1>1 DEF IndexMatches
    <3> QED BY <3>1 DEF IsInjective
  <2>2. \E e \in DOMAIN IndexDocs : Range(IndexDocs[e]) = DOMAIN W /\ IsInjective(IndexDocs[e])
    BY <1>1, <1>4, <2>1 DEF Declared
  <2>3. /\ d \in DOMAIN IndexDocs /\ Range(IndexDocs[d]) = DOMAIN W
        /\ IsInjective(IndexDocs[d])
    BY <2>2, Zenon DEF IndexOf
  <2> QED BY <1>4, <2>3
<1>6. DOMAIN W = Range(D)
  BY <1>4
<1>7. M = [n \in Required6 \union Files |->
              CASE n = "events" -> loaded.events
                [] n = "metadata" -> loaded.metadata
                [] n = "environment" -> loaded.environment
                [] n = "index" -> d
                [] n = "redaction" -> loaded.redaction
                [] n = "predicate" -> loaded.predicate
                [] OTHER -> W[CHOOSE p \in Paths : FileMember[p] = n]]
  BY <1>6, Zenon DEF PayloadMembers
<1>8. again.members = [n \in DOMAIN M \union {"manifest"} |->
                          IF n = "manifest" THEN "manifest" ELSE M[n]]
  BY DEF CapsuleBytes, Archive
<1>9. NamesOf(archive) \intersect FileMembers = Files
  BY <1>1 DEF IndexMatches
<1>10. NamesOf(archive) = Required6 \union Files \union {"manifest"}
  BY <1>1, <1>9 DEF KnownMembers
<1>11. /\ loaded.events = ContentOf(archive, "events")
       /\ loaded.metadata = ContentOf(archive, "metadata")
       /\ loaded.environment = ContentOf(archive, "environment")
       /\ loaded.redaction = ContentOf(archive, "redaction")
       /\ loaded.predicate = ContentOf(archive, "predicate")
  BY DEF Loaded
<1> HIDE DEF loaded, M, again, d, W, D, Files
<1>12. NamesOf(again) = NamesOf(archive)
  BY <1>7, <1>8, <1>10 DEF NamesOf
<1>13. ASSUME NEW n \in Required6 \union Files
       PROVE  ContentOf(again, n) = M[n]
  <2>1. n # "manifest"
    BY <1>3, FilesAreNamed DEF Files, Required6
  <2> QED BY <1>7, <1>8, <1>13, <2>1 DEF ContentOf
<1>14. ASSUME NEW n \in NamesOf(archive) \ {"manifest", "index"}
       PROVE  ContentOf(again, n) = ContentOf(archive, n)
  <2>1. CASE n \in Required6
    BY <1>7, <1>11, <1>13, <1>14, <2>1 DEF Required6
  <2>2. CASE n \notin Required6
    <3>1. PICK p \in Range(D) : n = FileMember[p]
      BY <1>10, <1>14, <2>2 DEF Files
    <3>2. n \in Files
      BY <3>1 DEF Files
    <3>3. (CHOOSE q \in Paths : FileMember[q] = n) = p
      <4>1. p \in Paths /\ FileMember[p] = n
        BY <1>3, <3>1
      <4>2. \A q \in Paths : FileMember[q] = n => q = p
        BY <4>1, FilesAreNamed
      <4> QED BY <4>1, <4>2
    <3>4. M[n] = W[CHOOSE q \in Paths : FileMember[q] = n]
      BY <1>7, <2>2, <3>2 DEF Required6
    <3>5. M[n] = W[p]
      BY <3>3, <3>4
    <3> QED BY <1>4, <1>13, <3>1, <3>2, <3>5
  <2> QED BY <2>1, <2>2
<1>15. ContentOf(again, "index") = d
  BY <1>7, <1>13 DEF Required6
<1>16. Declared(again) = IndexDocs[d]
  BY <1>15 DEF Declared
<1> QED BY <1>5, <1>12, <1>14, <1>15, <1>16 DEF loaded, again, D

\* A capsule that is loaded, written and loaded again is the same capsule.
LEMMA RoundTrip ==
    ASSUME NEW archive, Loads(archive)
    PROVE  LET again == CapsuleBytes(Loaded(archive))
           IN Loads(again) /\ Loaded(again) = Loaded(archive)
<1> DEFINE loaded == Loaded(archive)
           again == CapsuleBytes(loaded)
           D == Declared(archive)
           E == Declared(again)
<1>1. /\ NamesOf(again) = NamesOf(archive)
      /\ \A n \in NamesOf(archive) \ {"manifest", "index"} :
            ContentOf(again, n) = ContentOf(archive, n)
      /\ ContentOf(again, "index") \in DOMAIN IndexDocs
      /\ Range(E) = Range(D)
      /\ IsInjective(E)
  BY WrittenMembers
<1>2. /\ again.zip /\ ~again.large /\ again.twice = {} /\ again.marks = {}
      /\ again.manifest.form = "current" /\ again.manifest.schema = "1"
      /\ again.manifest.entries = PayloadMembers(loaded)
      /\ again.manifest.digest = PayloadMembers(loaded)
      /\ again.members = [n \in DOMAIN PayloadMembers(loaded) \union {"manifest"} |->
                             IF n = "manifest" THEN "manifest" ELSE PayloadMembers(loaded)[n]]
  BY DEF CapsuleBytes, Archive
<1>3. /\ Limited(archive) /\ IndexMatches(archive) /\ KnownMembers(archive)
      /\ "manifest" \in NamesOf(archive)
      /\ ContentOf(archive, "index") \in DOMAIN IndexDocs
      /\ ContentOf(archive, "events") \in DOMAIN EventDocs
      /\ \A n \in {"metadata", "environment", "redaction", "predicate"} :
            ObjectDoc(ContentOf(archive, n))
      /\ Valid([events |-> EventDocs[ContentOf(archive, "events")]])
      /\ \A n \in NamesOf(archive) : ContentOf(archive, n) # "over a limit"
  BY DEF Loads, ValidatedMembers, CapsuleFromMembers
<1>4. D \in Seq(Paths) /\ E \in Seq(Paths)
  BY <1>1, <1>3, DocsAssumption DEF Declared
<1>5. Range(D) \subseteq Paths
  BY <1>4 DEF Range
<1>6. \A p \in Range(D) : /\ SafePath(p) /\ FileMember[p] \in NamesOf(archive)
                          /\ FileMember[p] \in NamesOf(archive) \ {"manifest", "index"}
                          /\ ContentOf(archive, FileMember[p]) # "not UTF-8"
  <2>1. \A i \in DOMAIN D : /\ SafePath(D[i]) /\ FileMember[D[i]] \in NamesOf(archive)
                            /\ ContentOf(archive, FileMember[D[i]]) # "not UTF-8"
    BY <1>3 DEF IndexMatches
  <2>2. \A p \in Range(D) : FileMember[p] \notin {"manifest", "index"}
    BY <1>5, FilesAreNamed DEF Required6
  <2> QED BY <2>1, <2>2 DEF Range
<1>7. \A p, q \in Range(D) : p # q => Identity(p) # Identity(q)
  <2>1. \A i, j \in DOMAIN D : i # j => Identity(D[i]) # Identity(D[j])
    BY <1>3 DEF IndexMatches
  <2> QED BY <2>1 DEF Range
<1>8. DOMAIN PayloadMembers(loaded) = NamesOf(again) \ {"manifest"}
  <2>1. DOMAIN PayloadMembers(loaded) = Required6 \union {FileMember[p] : p \in Range(D)}
    BY DEF PayloadMembers, Loaded
  <2>2. "manifest" \notin DOMAIN PayloadMembers(loaded)
    BY <1>5, <2>1, FilesAreNamed DEF Required6
  <2>3. NamesOf(again) = DOMAIN PayloadMembers(loaded) \union {"manifest"}
    BY <1>2 DEF NamesOf
  <2> QED BY <2>2, <2>3
<1>9. PayloadMembers(loaded) = [n \in DOMAIN PayloadMembers(loaded) |-> PayloadMembers(loaded)[n]]
  BY DEF PayloadMembers
<1> HIDE DEF loaded, again, D, E
<1>10. ManifestCovers(again)
  <2>1. \A n \in DOMAIN PayloadMembers(loaded) : again.members[n] = PayloadMembers(loaded)[n]
    BY <1>2, <1>8
  <2>2. Restrict(again.members, NamesOf(again) \ {"manifest"}) = PayloadMembers(loaded)
    BY <1>8, <1>9, <2>1 DEF Restrict
  <2> QED BY <1>2, <2>2 DEF ManifestCovers
<1>11. IndexMatches(again)
  <2>1. ASSUME NEW i \in DOMAIN E
        PROVE  /\ SafePath(E[i]) /\ FileMember[E[i]] \in NamesOf(again)
               /\ ContentOf(again, FileMember[E[i]]) # "not UTF-8"
    <3>1. E[i] \in Range(D)
      BY <1>1 DEF Range
    <3> QED BY <1>1, <1>6, <3>1
  <2>2. ASSUME NEW i \in DOMAIN E, NEW j \in DOMAIN E, i # j
        PROVE  Identity(E[i]) # Identity(E[j])
    <3>1. E[i] \in Range(D) /\ E[j] \in Range(D) /\ E[i] # E[j]
      BY <1>1, <2>2 DEF Range, IsInjective
    <3> QED BY <1>7, <3>1
  <2>3. NamesOf(again) \intersect FileMembers = {FileMember[p] : p \in Range(E)}
    BY <1>1, <1>3 DEF IndexMatches, D
  <2> QED BY <2>1, <2>2, <2>3 DEF IndexMatches, E
<1>12. ValidatedMembers(again)
  <2>1. Limited(again)
    BY <1>1, <1>2, <1>3 DEF Limited
  <2> QED BY <1>1, <1>2, <1>3, <1>10, <2>1 DEF ValidatedMembers
<1>13. /\ ContentOf(again, "events") = ContentOf(archive, "events")
       /\ ContentOf(again, "metadata") = ContentOf(archive, "metadata")
       /\ ContentOf(again, "environment") = ContentOf(archive, "environment")
       /\ ContentOf(again, "redaction") = ContentOf(archive, "redaction")
       /\ ContentOf(again, "predicate") = ContentOf(archive, "predicate")
  BY <1>1, <1>3 DEF KnownMembers, Required6
<1>14. CapsuleFromMembers(again)
  <2>1. KnownMembers(again)
    BY <1>1, <1>3 DEF KnownMembers
  <2>2. \A n \in NamesOf(again) : ContentOf(again, n) # "over a limit"
    <3>1. ASSUME NEW n \in NamesOf(again) PROVE ContentOf(again, n) # "over a limit"
      <4>1. CASE n = "index"
        BY <1>1, <4>1, DocsAssumption
      <4>2. CASE n = "manifest"
        BY <1>2, <4>2 DEF ContentOf
      <4>3. CASE n \notin {"index", "manifest"}
        BY <1>1, <1>3, <4>3
      <4> QED BY <4>1, <4>2, <4>3
    <3> QED BY <3>1
  <2> QED BY <1>1, <1>2, <1>3, <1>11, <1>13, <2>1, <2>2 DEF CapsuleFromMembers
<1>15. Loaded(again) = Loaded(archive)
  <2>1. [p \in Range(E) |-> ContentOf(again, FileMember[p])]
           = [p \in Range(D) |-> ContentOf(archive, FileMember[p])]
    BY <1>1, <1>6
  <2> QED BY <1>13, <2>1 DEF Loaded, D, E
<1>16. Loads(again)
  BY <1>12, <1>14 DEF Loads
<1> QED BY <1>15, <1>16 DEF again, loaded
\* No two events of a valid capsule have one ID.
LEMMA IdsDiffer ==
    ASSUME NEW events, events \in Seq(Range(events)), Valid([events |-> events]),
           NEW i \in 1..Len(events), NEW j \in 1..Len(events), events[i].id = events[j].id
    PROVE  i = j
<1>1. ASSUME NEW m \in DOMAIN events, NEW k \in 1..(m - 1)
      PROVE  events[k].id # events[m].id
  <2>1. events[m].id \notin {p.id : p \in Range(SubSeq(events, 1, m - 1))}
    BY DEF Valid, ValidEvent
  <2>2. Range(SubSeq(events, 1, m - 1)) = {events[l] : l \in 1..(m - 1)}
    BY EventsBefore
  <2> QED BY <2>1, <2>2
<1>2. DOMAIN events = 1..Len(events)
  OBVIOUS
<1>3. ~(i < j) /\ ~(j < i)
  <2>1. i < j => i \in 1..(j - 1)
    OBVIOUS
  <2>2. j < i => j \in 1..(i - 1)
    OBVIOUS
  <2> QED BY <1>1, <1>2, <2>1, <2>2
<1> QED BY <1>3

\* A result has one call among all the events, and a response one request.
LEMMA OneProducer ==
    ASSUME NEW events, events \in Seq(Range(events)), Valid([events |-> events]),
           NEW i \in 1..Len(events), NEW kind,
           \/ events[i].kind = "tool_result" /\ kind = "tool_call"
           \/ events[i].kind = "model_response" /\ kind = "model_request"
    PROVE  \E p \in Range(events) :
              /\ p.id \in events[i].deps /\ p.kind = kind
              /\ \A q \in Range(events) : q.id \in events[i].deps /\ q.kind = kind => q = p
<1> DEFINE e == events[i]
           Earlier == {events[j] : j \in 1..(i - 1)}
           P == Producers(e, SubSeq(events, 1, i - 1), kind)
<1>1. i \in DOMAIN events /\ DOMAIN events = 1..Len(events)
  OBVIOUS
<1>2. Range(SubSeq(events, 1, i - 1)) = Earlier
  BY <1>1, EventsBefore
<1>3. ValidEvent(e, SubSeq(events, 1, i - 1))
  BY <1>1 DEF Valid
<1>4. Cardinality(P) = 1 /\ e.deps \subseteq {p.id : p \in Earlier}
  BY <1>2, <1>3 DEF ValidEvent
<1>5. P = {p \in Earlier : p.id \in e.deps /\ p.kind = kind}
  BY <1>2 DEF Producers
<1>6. Earlier \subseteq Range(events)
  BY <1>1 DEF Range
<1>7. IsFiniteSet(P)
  <2>1. IsFiniteSet(1..(i - 1))
    BY FS_Interval
  <2>2. IsFiniteSet(Earlier)
    <3> DEFINE g == [j \in 1..(i - 1) |-> events[j]]
    <3>1. g \in [1..(i - 1) -> Earlier] /\ \A b \in Earlier : \E j \in 1..(i - 1) : g[j] = b
      OBVIOUS
    <3>2. g \in Surjection(1..(i - 1), Earlier)
      BY <3>1, Zenon DEF Surjection
    <3> HIDE DEF g, Earlier
    <3> QED BY <2>1, <3>2, FS_Surjection
  <2> QED BY <1>5, <2>2, FS_Subset
<1>8. PICK p : P = {p}
  BY <1>4, <1>7, FS_Singleton
<1>9. p \in Range(events) /\ p.id \in e.deps /\ p.kind = kind
  BY <1>5, <1>6, <1>8
<1>10. ASSUME NEW q \in Range(events), q.id \in e.deps, q.kind = kind
       PROVE  q = p
  <2>1. PICK j \in 1..Len(events) : q = events[j]
    BY <1>1 DEF Range
  <2>2. PICK m \in 1..(i - 1) : events[m].id = q.id
    BY <1>4, <1>10
  <2>3. m \in 1..Len(events)
    BY <1>1
  <2>4. m = j
    BY <2>1, <2>2, <2>3, IdsDiffer
  <2>5. q \in P
    BY <1>5, <1>10, <2>1, <2>4
  <2> QED BY <1>8, <2>5
<1> QED BY <1>9, <1>10

\* One producer, whichever way it is looked for.
LEMMA SameProducer ==
    ASSUME NEW events, NEW e, NEW kind, NEW p \in Range(events),
           p.id \in e.deps, p.kind = kind,
           \A q \in Range(events) : q.id \in e.deps /\ q.kind = kind => q = p
    PROVE  FirstProducer(events, e, kind) = p.id /\ ProducerId(events, e, kind) = p.id
<1>1. Producers(e, events, kind) = {p}
  BY DEF Producers
<1>2. (CHOOSE q \in Producers(e, events, kind) : TRUE) = p
  BY <1>1
<1>3. (CHOOSE q \in Range(events) : q.id \in e.deps /\ q.kind = kind) = p
  OBVIOUS
<1> QED BY <1>2, <1>3 DEF ProducerId, FirstProducer

\* What there is after the next event, with the runner's outputs.
Outputs(r, models, tools, events, e) ==
    [replayed |-> r,
     models |-> IF e.kind = "model_response"
                THEN Append(models, ModelOutput(events, e)) ELSE models,
     tools |-> IF e.kind = "tool_result"
               THEN Append(tools, ToolOutput(events, e)) ELSE tools]

\* The output the script adds is the one the runner has.
LEMMA AddedIs ==
    ASSUME NEW events, events \in Seq(Range(events)), Valid([events |-> events]),
           NEW i \in 1..Len(events),
           NEW r, NEW models, NEW tools
    PROVE  Added([replayed |-> r, models |-> models, tools |-> tools], events, events[i]) =
              Outputs(r, models, tools, events, events[i])
<1> DEFINE e == events[i]
           lists == [replayed |-> r, models |-> models, tools |-> tools]
           model == [event |-> e.id, request |-> FirstProducer(events, e, "model_request"),
                     output |-> OutputOf(e.payload)]
           tool == [call |-> FirstProducer(events, e, "tool_call"), event |-> e.id,
                    item |-> Copied(e.payload, StandaloneKeys)]
<1>1. Added(lists, events, e) =
         CASE e.kind = "model_response" -> [lists EXCEPT !.models = Append(@, model)]
           [] e.kind = "tool_result" -> [lists EXCEPT !.tools = Append(@, tool)]
           [] OTHER -> lists
  BY Zenon DEF Added
<1>2. ASSUME NEW kind,
             \/ e.kind = "tool_result" /\ kind = "tool_call"
             \/ e.kind = "model_response" /\ kind = "model_request"
      PROVE  FirstProducer(events, e, kind) = ProducerId(events, e, kind)
  <2>1. PICK p \in Range(events) :
           /\ p.id \in e.deps /\ p.kind = kind
           /\ \A q \in Range(events) : q.id \in e.deps /\ q.kind = kind => q = p
    BY <1>2, OneProducer
  <2> HIDE DEF e
  <2> QED BY <2>1, SameProducer
<1>3. e.kind = "model_response" => model = ModelOutput(events, e)
  BY <1>2 DEF ModelOutput
<1>4. e.kind = "tool_result" => tool = ToolOutput(events, e)
  BY <1>2 DEF ToolOutput, StandaloneKeys
<1> HIDE DEF model, tool
<1> QED BY <1>1, <1>3, <1>4 DEF Outputs
-----------------------------------------------------------------------------
\* The function by which Among is defined, and the one of the script's pass.
Keeps(f, s, S) ==
    f = [n \in 0..Len(s) |-> IF n = 0 THEN <<>>
                             ELSE IF s[n] \in S THEN Append(f[n - 1], s[n]) ELSE f[n - 1]]
NoOutputs(events) == [replayed |-> Len(events), models |-> <<>>, tools |-> <<>>]
Passes(f, events) ==
    f = [n \in 0..Len(events) |-> IF n = 0 THEN NoOutputs(events)
                                  ELSE Added(f[n - 1], events, events[n])]

\* f[n] is what is kept of the first n items.
Collects(f, s, S, T, N) ==
    /\ f \in [0..N -> T]
    /\ Among(s, S) = f[N]
    /\ f[0] = <<>>
    /\ \A n \in 1..N : f[n] = IF s[n] \in S THEN Append(f[n - 1], s[n]) ELSE f[n - 1]

StepsAlike(f, g, n) ==
    /\ f[0] = g[0]
    /\ \A i \in 1..n : f[i - 1] = g[i - 1] => f[i] = g[i]

LEMMA AlikeRuns ==
    ASSUME NEW n \in Nat, NEW f, NEW g, StepsAlike(f, g, n)
    PROVE  \A i \in 0..n : f[i] = g[i]
BY RunsAgree DEF StepsAlike

\* Among goes through the list and keeps what is in the set.
LEMMA AmongIs ==
    ASSUME NEW s, s \in Seq(Range(s)), NEW S, S \subseteq Range(s),
           NEW N, N = Len(s), NEW T, T = Seq(S)
    PROVE  \E f : Collects(f, s, S, T, N)
<1> DEFINE more(t, n) == IF s[n] \in S THEN Append(t, s[n]) ELSE t
           step == [p \in T \X (1..N) |-> more(p[1], p[2])]
<1>1. N \in Nat /\ <<>> \in T
  OBVIOUS
<1>2. ASSUME NEW t \in T, NEW n \in 1..N PROVE more(t, n) \in T
  <2>1. t \in Seq(S)
    OBVIOUS
  <2> QED BY <2>1
<1> HIDE DEF more
<1>3. step \in [T \X (1..N) -> T]
  BY <1>2
<1>4. \A t \in T, n \in 1..N : step[<<t, n>>] = more(t, n)
  OBVIOUS
<1> HIDE DEF step
<1>5. PICK f \in [0..N -> T] : Runs(f, N, <<>>, step)
  BY <1>1, <1>3, RunExists
<1>6. ASSUME NEW n \in 1..N PROVE f[n] = more(f[n - 1], n)
  <2>1. f[n - 1] \in T
    BY <1>1, <1>5
  <2>2. f[n] = step[<<f[n - 1], n>>]
    BY <1>5 DEF Runs
  <2> QED BY <1>4, <2>1, <2>2
<1>7. f[0] = <<>> /\ f = [n \in 0..N |-> f[n]]
  BY <1>5 DEF Runs
<1>8. Keeps(f, s, S)
  <2>1. ASSUME NEW n \in 0..N
        PROVE  f[n] = IF n = 0 THEN <<>>
                      ELSE IF s[n] \in S THEN Append(f[n - 1], s[n]) ELSE f[n - 1]
    <3>1. CASE n = 0
      BY <1>7, <3>1
    <3>2. CASE n # 0
      <4>1. n \in 1..N
        BY <1>1, <3>2
      <4> QED BY <1>6, <3>2, <4>1 DEF more
    <3> QED BY <3>1, <3>2
  <2> QED BY <1>7, <2>1, Zenon DEF Keeps
<1> DEFINE g == CHOOSE h : Keeps(h, s, S)
<1>9. Keeps(g, s, S)
  BY <1>8
<1>10. Among(s, S) = g[N]
  BY DEF Among, Keeps
<1> HIDE DEF g
<1>11. g = [n \in 0..N |-> IF n = 0 THEN <<>>
                           ELSE IF s[n] \in S THEN Append(g[n - 1], s[n]) ELSE g[n - 1]]
  BY <1>9, Zenon DEF Keeps
<1>12. g[0] = f[0]
  BY <1>1, <1>7, <1>11
<1>13. ASSUME NEW n \in 1..N, g[n - 1] = f[n - 1] PROVE g[n] = f[n]
  <2>1. n \in 0..N /\ n # 0
    BY <1>1
  <2>2. g[n] = more(g[n - 1], n)
    BY <1>11, <2>1 DEF more
  <2> QED BY <1>6, <1>13, <2>2
<1>14. \A n \in 0..N : g[n] = f[n]
  <2>1. \A i \in 1..N : g[i - 1] = f[i - 1] => g[i] = f[i]
    BY <1>13
  <2>2. PICK k \in Nat : k = N
    BY <1>1
  <2>3. \A i \in 1..k : g[i - 1] = f[i - 1] => g[i] = f[i]
    BY <2>1, <2>2
  <2>4. StepsAlike(g, f, k)
    BY <1>12, <2>3 DEF StepsAlike
  <2>5. \A i \in 0..k : g[i] = f[i]
    BY <2>4, AlikeRuns
  <2> QED BY <2>2, <2>5
<1>15. g[N] = f[N]
  BY <1>1, <1>14
<1>16. \A n \in 1..N : f[n] = IF s[n] \in S THEN Append(f[n - 1], s[n]) ELSE f[n - 1]
  BY <1>6 DEF more
<1> QED BY <1>5, <1>7, <1>10, <1>15, <1>16, Zenon DEF Collects

\* The script goes through the events and adds output after output.
LEMMA ReplayIs ==
    ASSUME NEW events, events \in Seq(Range(events)), Valid([events |-> events])
    PROVE  \E f :
              /\ StandaloneReplay(events) = f[Len(events)]
              /\ f[0] = NoOutputs(events)
              /\ \A n \in 1..Len(events) : f[n] = Added(f[n - 1], events, events[n])
<1> DEFINE N == Len(events)
           M == {ModelOutput(events, e) : e \in Range(events)}
           U == {ToolOutput(events, e) : e \in Range(events)}
           T == [replayed : {N}, models : Seq(M), tools : Seq(U)]
           step == [p \in T \X (1..N) |-> Added(p[1], events, events[p[2]])]
<1>1. N \in Nat /\ NoOutputs(events) \in T
  BY DEF NoOutputs
<1>2. ASSUME NEW t \in T, NEW n \in 1..N PROVE Added(t, events, events[n]) \in T
  <2>1. PICK models \in Seq(M), tools \in Seq(U) :
           t = [replayed |-> N, models |-> models, tools |-> tools]
    OBVIOUS
  <2>2. events[n] \in Range(events)
    BY DEF Range
  <2>3. ModelOutput(events, events[n]) \in M /\ ToolOutput(events, events[n]) \in U
    BY <2>2
  <2> HIDE DEF M, U
  <2>4. Append(models, ModelOutput(events, events[n])) \in Seq(M)
    BY <2>3
  <2>5. Append(tools, ToolOutput(events, events[n])) \in Seq(U)
    BY <2>3
  <2> DEFINE added == Outputs(N, models, tools, events, events[n])
  <2>6. Added([replayed |-> N, models |-> models, tools |-> tools], events, events[n]) = added
    BY AddedIs
  <2>7. added \in T
    BY <2>4, <2>5 DEF Outputs
  <2> HIDE DEF added
  <2> QED BY <2>1, <2>6, <2>7
<1> HIDE DEF N, M, U, T
<1>3. step \in [T \X (1..N) -> T]
  BY <1>2
<1>4. \A t \in T, n \in 1..N : step[<<t, n>>] = Added(t, events, events[n])
  OBVIOUS
<1> HIDE DEF step
<1>5. PICK f \in [0..N -> T] : Runs(f, N, NoOutputs(events), step)
  BY <1>1, <1>3, RunExists
<1>6. ASSUME NEW n \in 1..N PROVE f[n] = Added(f[n - 1], events, events[n])
  <2>1. f[n - 1] \in T
    BY <1>1, <1>5
  <2>2. f[n] = step[<<f[n - 1], n>>]
    BY <1>5 DEF Runs
  <2> QED BY <1>4, <2>1, <2>2
<1>7. f[0] = NoOutputs(events) /\ f = [n \in 0..N |-> f[n]]
  BY <1>5 DEF Runs
<1>8. Passes(f, events)
  <2>1. ASSUME NEW n \in 0..N
        PROVE  f[n] = IF n = 0 THEN NoOutputs(events) ELSE Added(f[n - 1], events, events[n])
    <3>1. CASE n = 0
      BY <1>7, <3>1
    <3>2. CASE n # 0
      <4>1. n \in 1..N
        BY <1>1, <3>2
      <4> QED BY <1>6, <3>2, <4>1
    <3> QED BY <3>1, <3>2
  <2> QED BY <1>7, <2>1, Zenon DEF Passes, N
<1> DEFINE g == CHOOSE h : Passes(h, events)
<1>9. Passes(g, events)
  BY <1>8
<1>10. StandaloneReplay(events) = g[N]
  BY DEF StandaloneReplay, Passes, NoOutputs, N
<1> HIDE DEF g
<1>11. g = [n \in 0..N |-> IF n = 0 THEN NoOutputs(events)
                           ELSE Added(g[n - 1], events, events[n])]
  BY <1>9, Zenon DEF Passes, N
<1>12. g[0] = NoOutputs(events)
  BY <1>1, <1>11
<1>13. ASSUME NEW n \in 1..N PROVE g[n] = Added(g[n - 1], events, events[n])
  <2>1. n \in 0..N /\ n # 0
    BY <1>1
  <2> QED BY <1>11, <2>1
<1> QED BY <1>10, <1>12, <1>13 DEF N

\* The outputs of the events in a list.
ModelOutputs(events, s) == [i \in DOMAIN s |-> ModelOutput(events, s[i])]
ToolOutputs(events, s) == [i \in DOMAIN s |-> ToolOutput(events, s[i])]

\* What is made of each item is made of an added one.
LEMMA MappedGrows ==
    ASSUME NEW S, NEW U, NEW f \in [S -> U], NEW s \in Seq(S), NEW x \in S
    PROVE  [i \in DOMAIN Append(s, x) |-> f[Append(s, x)[i]]]
              = Append([i \in DOMAIN s |-> f[s[i]]], f[x])
<1>1. PICK t : t = Append(s, x)
  OBVIOUS
<1>2. /\ t \in Seq(S) /\ Len(s) \in Nat /\ Len(t) = Len(s) + 1 /\ t[Len(s) + 1] = x
      /\ DOMAIN t = 1..(Len(s) + 1) /\ DOMAIN s = 1..Len(s)
      /\ \A i \in 1..Len(s) : t[i] = s[i] /\ s[i] \in S
  BY <1>1
<1>3. PICK m, k : /\ m = [i \in DOMAIN s |-> f[s[i]]]
                  /\ k = [i \in DOMAIN t |-> f[t[i]]]
  OBVIOUS
<1>4. m \in Seq(U) /\ Len(m) = Len(s) /\ \A i \in 1..Len(s) : m[i] = f[s[i]]
  BY <1>2, <1>3
<1>5. k \in Seq(U) /\ Len(k) = Len(s) + 1 /\ \A i \in 1..(Len(s) + 1) : k[i] = f[t[i]]
  <2>1. \A i \in 1..(Len(s) + 1) : t[i] \in S
    BY <1>2
  <2> QED BY <1>2, <1>3, <2>1
<1>6. PICK a : a = Append(m, f[x])
  OBVIOUS
<1>7. /\ a \in Seq(U) /\ Len(a) = Len(s) + 1 /\ a[Len(s) + 1] = f[x]
      /\ \A i \in 1..Len(s) : a[i] = m[i]
  <2>1. f[x] \in U
    OBVIOUS
  <2> QED BY <1>4, <1>6, <2>1, AppendProperties
<1>8. \A i \in 1..(Len(s) + 1) : k[i] = a[i]
  <2>1. \A i \in 1..(Len(s) + 1) : i = Len(s) + 1 \/ i \in 1..Len(s)
    BY <1>2
  <2> QED BY <1>2, <1>4, <1>5, <1>7, <2>1
<1>9. k = a
  BY <1>5, <1>7, <1>8, SeqEqual
<1> QED BY <1>1, <1>3, <1>6, <1>9

LEMMA OutputsGrow ==
    ASSUME NEW events, NEW S, NEW s \in Seq(S), NEW x \in S
    PROVE  /\ ModelOutputs(events, Append(s, x)) = Append(ModelOutputs(events, s), ModelOutput(events, x))
           /\ ToolOutputs(events, Append(s, x)) = Append(ToolOutputs(events, s), ToolOutput(events, x))
<1>1. PICK t : t = Append(s, x)
  OBVIOUS
<1>2. DOMAIN t = 1..Len(t) /\ DOMAIN s = 1..Len(s) /\ t \in Seq(S)
  BY <1>1
<1>3. (\A i \in DOMAIN t : t[i] \in S) /\ \A i \in DOMAIN s : s[i] \in S
  BY <1>2
<1>4. PICK f : f = [y \in S |-> ModelOutput(events, y)]
  OBVIOUS
<1>5. PICK g : g = [y \in S |-> ToolOutput(events, y)]
  OBVIOUS
<1>6. /\ ModelOutputs(events, t) = [i \in DOMAIN t |-> f[t[i]]]
      /\ ModelOutputs(events, s) = [i \in DOMAIN s |-> f[s[i]]]
      /\ ToolOutputs(events, t) = [i \in DOMAIN t |-> g[t[i]]]
      /\ ToolOutputs(events, s) = [i \in DOMAIN s |-> g[s[i]]]
  BY <1>3, <1>4, <1>5 DEF ModelOutputs, ToolOutputs
<1>7. [i \in DOMAIN t |-> f[t[i]]] = Append([i \in DOMAIN s |-> f[s[i]]], f[x])
  <2>1. f \in [S -> {f[y] : y \in S}]
    BY <1>4
  <2> QED BY <1>1, <2>1, MappedGrows
<1>8. [i \in DOMAIN t |-> g[t[i]]] = Append([i \in DOMAIN s |-> g[s[i]]], g[x])
  <2>1. g \in [S -> {g[y] : y \in S}]
    BY <1>5
  <2> QED BY <1>1, <2>1, MappedGrows
<1>9. f[x] = ModelOutput(events, x) /\ g[x] = ToolOutput(events, x)
  BY <1>4, <1>5
<1> QED BY <1>1, <1>6, <1>7, <1>8, <1>9

\* The call a result names is one of the events.
LEMMA CallIsFound ==
    ASSUME NEW events, events \in Seq(Range(events)), Valid([events |-> events]),
           NEW e \in Range(events), e.kind = "tool_result"
    PROVE  \E c \in Range(events) : c.id = ProducerId(events, e, "tool_call") /\ c.kind = "tool_call"
<1>1. PICK i \in 1..Len(events) : events[i] = e
  BY DEF Range
<1>2. PICK kind : kind = "tool_call"
  OBVIOUS
<1>3. PICK p \in Range(events) :
         /\ p.id \in events[i].deps /\ p.kind = kind
         /\ \A q \in Range(events) : q.id \in events[i].deps /\ q.kind = kind => q = p
  BY <1>1, <1>2, OneProducer
<1>4. ProducerId(events, e, kind) = p.id
  BY <1>1, <1>3, SameProducer
<1> QED BY <1>2, <1>3, <1>4

\* The script's outputs are the runner's: each has its producer, and no event's
\* is left out.
LEMMA SameOutputs ==
    ASSUME NEW events, events \in Seq(Range(events)), Valid([events |-> events])
    PROVE  LET outputs == OfflineReplay(events) IN
           /\ StandaloneReplay(events) = outputs
           /\ \A o \in Range(outputs.tools) : \E c \in Range(events) :
                 c.id = o.call /\ c.kind = "tool_call"
           /\ Len(outputs.models) + Len(outputs.tools) =
                 Cardinality({e \in Range(events) : e.kind \in {"model_response", "tool_result"}})
<1> DEFINE N == Len(events)
           R == Range(events)
           Responses == {e \in R : e.kind = "model_response"}
           Results == {e \in R : e.kind = "tool_result"}
           First(n) == {events[i] : i \in 1..n}
           Out(n) == {e \in First(n) : e.kind \in {"model_response", "tool_result"}}
<1>1. N \in Nat /\ DOMAIN events = 1..N /\ \A n \in 1..N : events[n] \in R
  BY DEF Range
<1>5. ASSUME NEW n \in 1..N PROVE /\ events[n] \in Responses <=> events[n].kind = "model_response"
                                  /\ events[n] \in Results <=> events[n].kind = "tool_result"
  BY <1>1
<1>6. Responses \subseteq R /\ Results \subseteq R
  OBVIOUS
<1>7. OfflineReplay(events) = [replayed |-> N, models |-> ModelOutputs(events, Among(events, Responses)),
                               tools |-> ToolOutputs(events, Among(events, Results))]
  BY Zenon DEF OfflineReplay, ModelOutputs, ToolOutputs
<1> HIDE DEF Responses, Results
<1>2. PICK m : Collects(m, events, Responses, Seq(Responses), N)
  BY <1>6, AmongIs
<1>3. PICK b : Collects(b, events, Results, Seq(Results), N)
  BY <1>6, AmongIs
<1>m. /\ Among(events, Responses) = m[N] /\ m[0] = <<>> /\ \A n \in 0..N : m[n] \in Seq(Responses)
      /\ \A n \in 1..N : m[n] = IF events[n] \in Responses THEN Append(m[n - 1], events[n]) ELSE m[n - 1]
  BY <1>2 DEF Collects
<1>b. /\ Among(events, Results) = b[N] /\ b[0] = <<>> /\ \A n \in 0..N : b[n] \in Seq(Results)
      /\ \A n \in 1..N : b[n] = IF events[n] \in Results THEN Append(b[n - 1], events[n]) ELSE b[n - 1]
  BY <1>3 DEF Collects
<1>4. PICK f : /\ StandaloneReplay(events) = f[N]
               /\ f[0] = NoOutputs(events)
               /\ \A n \in 1..N : f[n] = Added(f[n - 1], events, events[n])
  BY ReplayIs
<1> DEFINE Until(n) == [replayed |-> N, models |-> ModelOutputs(events, m[n]),
                     tools |-> ToolOutputs(events, b[n])]
           Holds(n) == /\ f[n] = Until(n)
                       /\ IsFiniteSet(Out(n))
                       /\ Cardinality(Out(n)) = Len(m[n]) + Len(b[n])
           Good == {n \in Nat : n <= N => Holds(n)}
<1>8. 0 \in Good
  <2>1. ModelOutputs(events, <<>>) = <<>> /\ ToolOutputs(events, <<>>) = <<>>
    BY DEF ModelOutputs, ToolOutputs
  <2>2. f[0] = Until(0)
    BY <1>m, <1>b, <1>4, <2>1 DEF NoOutputs
  <2>3. Out(0) = {}
    OBVIOUS
  <2>4. Len(m[0]) = 0 /\ Len(b[0]) = 0
    <3>1. Len(<<>>) = 0
      OBVIOUS
    <3> QED BY <1>m, <1>b, <3>1, Zenon
  <2>5. IsFiniteSet(Out(0)) /\ Cardinality(Out(0)) = 0
    BY <2>3, FS_EmptySet
  <2> HIDE DEF Out, Until
  <2>6. Holds(0)
    BY <2>2, <2>4, <2>5
  <2> HIDE DEF Holds
  <2> QED BY <2>6
<1>9. ASSUME NEW n \in Nat, n \in Good PROVE n + 1 \in Good
  <2> HIDE DEF Holds, N
  <2> SUFFICES ASSUME n + 1 <= N PROVE Holds(n + 1)
    OBVIOUS
  <2>h. n <= N /\ Holds(n)
    BY <1>1, <1>9
  <2> USE DEF Holds, N
  <2>0. PICK e : e = events[n + 1]
    OBVIOUS
  <2>1. /\ n + 1 \in 1..N /\ (n + 1) - 1 = n /\ n \in 0..N
        /\ f[n] = Until(n) /\ IsFiniteSet(Out(n)) /\ Cardinality(Out(n)) = Len(m[n]) + Len(b[n])
    BY <1>1, <2>h
  <2>2. m[n] \in Seq(Responses) /\ b[n] \in Seq(Results)
    BY <1>m, <1>b, <1>6, <2>1
  <2>3. /\ m[n + 1] = IF e \in Responses THEN Append(m[n], e) ELSE m[n]
        /\ b[n + 1] = IF e \in Results THEN Append(b[n], e) ELSE b[n]
        /\ f[n + 1] = Added(f[n], events, e)
    BY <1>m, <1>b, <1>4, <2>0, <2>1
  <2>4. e \in Responses <=> e.kind = "model_response"
    BY <1>5, <2>0, <2>1
  <2>5. e \in Results <=> e.kind = "tool_result"
    BY <1>5, <2>0, <2>1
  <2>6. f[n + 1] = Outputs(N, ModelOutputs(events, m[n]), ToolOutputs(events, b[n]), events, e)
    <3>1. Added(Until(n), events, e)
             = Outputs(N, ModelOutputs(events, m[n]), ToolOutputs(events, b[n]), events, e)
      BY <2>0, <2>1, AddedIs
    <3> QED BY <2>1, <2>3, <3>1
  <2>7. ModelOutputs(events, m[n + 1]) = IF e.kind = "model_response"
           THEN Append(ModelOutputs(events, m[n]), ModelOutput(events, e))
           ELSE ModelOutputs(events, m[n])
    <3>1. CASE e \in Responses
      <4>1. ModelOutputs(events, Append(m[n], e))
               = Append(ModelOutputs(events, m[n]), ModelOutput(events, e))
        BY <2>2, <3>1, OutputsGrow
      <4> QED BY <2>3, <2>4, <3>1, <4>1, Zenon
    <3>2. CASE e \notin Responses
      BY <2>3, <2>4, <3>2, Zenon
    <3> QED BY <3>1, <3>2
  <2>8. ToolOutputs(events, b[n + 1]) = IF e.kind = "tool_result"
           THEN Append(ToolOutputs(events, b[n]), ToolOutput(events, e))
           ELSE ToolOutputs(events, b[n])
    <3>1. CASE e \in Results
      <4>1. ToolOutputs(events, Append(b[n], e))
               = Append(ToolOutputs(events, b[n]), ToolOutput(events, e))
        BY <2>2, <3>1, OutputsGrow
      <4> QED BY <2>3, <2>5, <3>1, <4>1, Zenon
    <3>2. CASE e \notin Results
      BY <2>3, <2>5, <3>2, Zenon
    <3> QED BY <3>1, <3>2
  <2>9. f[n + 1] = Until(n + 1)
    BY <2>6, <2>7, <2>8 DEF Outputs
  <2>10. Len(m[n]) \in Nat /\ Len(b[n]) \in Nat
    BY <2>2, LenProperties
  <2>11. /\ Len(m[n + 1]) = IF e.kind = "model_response" THEN Len(m[n]) + 1 ELSE Len(m[n])
         /\ Len(b[n + 1]) = IF e.kind = "tool_result" THEN Len(b[n]) + 1 ELSE Len(b[n])
    BY <2>2, <2>3, <2>4, <2>5, AppendProperties
  <2>12. First(n + 1) = First(n) \union {e}
    <3>1. 1..(n + 1) = (1..n) \union {n + 1}
      OBVIOUS
    <3> QED BY <2>0, <3>1
  <2>13. e \notin First(n)
    <3> SUFFICES ASSUME NEW i \in 1..n, events[i] = e PROVE FALSE
      OBVIOUS
    <3>1. i \in 1..Len(events) /\ n + 1 \in 1..Len(events) /\ i # n + 1
      BY <2>1
    <3> QED BY <2>0, <3>1, IdsDiffer
  <2> HIDE DEF First, Until
  <2>14. CASE e.kind \in {"model_response", "tool_result"}
    <3>1. Out(n + 1) = Out(n) \union {e} /\ e \notin Out(n)
      BY <2>12, <2>13, <2>14
    <3> HIDE DEF Out
    <3>2. IsFiniteSet(Out(n + 1)) /\ Cardinality(Out(n + 1)) = Cardinality(Out(n)) + 1
      <4>1. PICK X : X = Out(n)
        OBVIOUS
      <4>2. IsFiniteSet(X) /\ e \notin X /\ Out(n + 1) = X \union {e}
        BY <2>1, <3>1, <4>1
      <4>3. IsFiniteSet(X \union {e}) /\ Cardinality(X \union {e}) = Cardinality(X) + 1
        BY <4>2, FS_AddElement
      <4> QED BY <4>1, <4>2, <4>3
    <3>3. CASE e.kind = "model_response"
      <4>1. Cardinality(Out(n + 1)) = Len(m[n + 1]) + Len(b[n + 1])
        <5>1. PICK x, y : x = Len(m[n]) /\ y = Len(b[n])
          OBVIOUS
        <5>2. x \in Nat /\ y \in Nat /\ Cardinality(Out(n + 1)) = x + y + 1
          BY <2>1, <2>10, <3>2, <5>1
        <5>3. Len(m[n + 1]) = x + 1 /\ Len(b[n + 1]) = y
          BY <2>11, <3>3, <5>1
        <5> QED BY <5>2, <5>3
      <4> QED BY <2>9, <3>2, <4>1
    <3>4. CASE e.kind = "tool_result"
      <4>1. Cardinality(Out(n + 1)) = Len(m[n + 1]) + Len(b[n + 1])
        <5>1. PICK x, y : x = Len(m[n]) /\ y = Len(b[n])
          OBVIOUS
        <5>2. x \in Nat /\ y \in Nat /\ Cardinality(Out(n + 1)) = x + y + 1
          BY <2>1, <2>10, <3>2, <5>1
        <5>3. Len(m[n + 1]) = x /\ Len(b[n + 1]) = y + 1
          BY <2>11, <3>4, <5>1
        <5> QED BY <5>2, <5>3
      <4> QED BY <2>9, <3>2, <4>1
    <3> QED BY <2>14, <3>3, <3>4
  <2>15. CASE e.kind \notin {"model_response", "tool_result"}
    <3>1. Out(n + 1) = Out(n)
      BY <2>12, <2>15
    <3> HIDE DEF Out
    <3> QED BY <2>1, <2>9, <2>11, <2>15, <3>1
  <2> QED BY <2>14, <2>15
<1>10. f[N] = Until(N) /\ Cardinality(Out(N)) = Len(m[N]) + Len(b[N])
  <2> HIDE DEF Good
  <2>1. N \in Good
    BY <1>1, <1>8, <1>9, Counting
  <2> QED BY <1>1, <2>1 DEF Good
<1>11. m[N] \in Seq(Responses) /\ b[N] \in Seq(Results)
  BY <1>1, <1>m, <1>b, <1>6
<1>12. Len(ModelOutputs(events, m[N])) = Len(m[N]) /\ Len(ToolOutputs(events, b[N])) = Len(b[N])
  <2>1. DOMAIN m[N] = 1..Len(m[N]) /\ DOMAIN b[N] = 1..Len(b[N])
        /\ Len(m[N]) \in Nat /\ Len(b[N]) \in Nat
    BY <1>11, LenProperties
  <2> QED BY <2>1 DEF ModelOutputs, ToolOutputs
<1>13. First(N) = R
  BY <1>1 DEF Range
<1>14. ASSUME NEW o \in Range(ToolOutputs(events, b[N]))
       PROVE  \E c \in R : c.id = o.call /\ c.kind = "tool_call"
  <2>1. PICK k \in DOMAIN b[N] : o = ToolOutput(events, b[N][k])
    BY DEF ToolOutputs, Range
  <2>2. b[N][k] \in Results
    BY <1>11, <2>1, LenProperties, ElementOfSeq
  <2>3. o.call = ProducerId(events, b[N][k], "tool_call")
    BY <2>1 DEF ToolOutput
  <2>4. b[N][k] \in R /\ b[N][k].kind = "tool_result"
    BY <2>2 DEF Results
  <2> QED BY <2>3, <2>4, CallIsFound
<1>15. Out(N) = {e \in R : e.kind \in {"model_response", "tool_result"}}
  BY <1>13, Zenon
<1> DEFINE outputs == OfflineReplay(events)
<1>16. /\ outputs = Until(N)
       /\ outputs.models = ModelOutputs(events, m[N])
       /\ outputs.tools = ToolOutputs(events, b[N])
  BY <1>m, <1>b, <1>7
<1> HIDE DEF outputs, Until, Out
<1>17. StandaloneReplay(events) = outputs
  BY <1>4, <1>10, <1>16
<1>18. Len(outputs.models) + Len(outputs.tools)
          = Cardinality({e \in R : e.kind \in {"model_response", "tool_result"}})
  BY <1>10, <1>12, <1>15, <1>16
<1>19. \A o \in Range(outputs.tools) : \E c \in R : c.id = o.call /\ c.kind = "tool_call"
  BY <1>14, <1>16
<1> QED BY <1>17, <1>18, <1>19, Zenon DEF outputs

\* A capsule that loads has valid events.
LEMMA LoadedEvents ==
    ASSUME NEW archive, Loads(archive)
    PROVE  /\ EventDocs[ContentOf(archive, "events")] \in Seq(Range(EventDocs[ContentOf(archive, "events")]))
           /\ Valid([events |-> EventDocs[ContentOf(archive, "events")]])
<1>1. ContentOf(archive, "events") \in DOMAIN EventDocs
  BY DEF Loads, CapsuleFromMembers
<1>2. Valid([events |-> EventDocs[ContentOf(archive, "events")]])
  BY DEF Loads, CapsuleFromMembers
<1> QED BY <1>1, <1>2, DocsAssumption

\* The command and the script agree on every capsule: on whether it loads, on
\* whether it is exported, on what is written again and on the outputs that the
\* predicate reads (capsule.py:221-402, export.py:125-380, replay.py:30-80).
THEOREM LoadersStayAgreed == Spec => []LoadersAgree
<1>1. ExportedIsExportable => LoadersAgree
  <2> SUFFICES ASSUME ExportedIsExportable, capsule # "torn", pc = "idle"
               PROVE  LET archive == ArchiveDocs[capsule] IN
                      /\ Loads(archive) <=> StandaloneLoads(archive)
                      /\ Exportable(archive) <=> Runnable(capsule)
                      /\ Loads(archive) =>
                            LET again == CapsuleBytes(Loaded(archive))
                                events == EventDocs[ContentOf(archive, "events")]
                                outputs == OfflineReplay(events)
                            IN /\ Loads(again) /\ Loaded(again) = Loaded(archive)
                               /\ StandaloneReplay(events) = outputs
                               /\ \A o \in Range(outputs.tools) : \E c \in Range(events) :
                                     c.id = o.call /\ c.kind = "tool_call"
                               /\ Len(outputs.models) + Len(outputs.tools) =
                                     Cardinality({e \in Range(events) : e.kind \in {"model_response", "tool_result"}})
    BY Zenon DEF LoadersAgree
  <2>1. capsule \in DOMAIN ArchiveDocs
    BY DEF ExportedIsExportable
  <2> DEFINE archive == ArchiveDocs[capsule]
             events == EventDocs[ContentOf(archive, "events")]
  <2>2. /\ Loads(archive) <=> StandaloneLoads(archive)
        /\ Exportable(archive) <=> Runnable(capsule)
    BY <2>1, LoadersAcceptTheSame
  <2>3. ASSUME Loads(archive)
        PROVE  LET again == CapsuleBytes(Loaded(archive))
                   outputs == OfflineReplay(events)
               IN /\ Loads(again) /\ Loaded(again) = Loaded(archive)
                  /\ StandaloneReplay(events) = outputs
                  /\ \A o \in Range(outputs.tools) : \E c \in Range(events) :
                        c.id = o.call /\ c.kind = "tool_call"
                  /\ Len(outputs.models) + Len(outputs.tools) =
                        Cardinality({e \in Range(events) : e.kind \in {"model_response", "tool_result"}})
    <3>1. events \in Seq(Range(events)) /\ Valid([events |-> events])
      BY <2>3, LoadedEvents
    <3>2. Loads(CapsuleBytes(Loaded(archive))) /\ Loaded(CapsuleBytes(Loaded(archive))) = Loaded(archive)
      BY <2>3, RoundTrip
    <3> HIDE DEF events
    <3>3. LET outputs == OfflineReplay(events)
          IN /\ StandaloneReplay(events) = outputs
             /\ \A o \in Range(outputs.tools) : \E c \in Range(events) :
                   c.id = o.call /\ c.kind = "tool_call"
             /\ Len(outputs.models) + Len(outputs.tools) =
                   Cardinality({e \in Range(events) : e.kind \in {"model_response", "tool_result"}})
      BY <3>1, SameOutputs, Zenon
    <3> QED BY <3>2, <3>3, Zenon
  <2> QED BY <2>2, <2>3, Zenon
<1>2. IInv => ExportedIsExportable
  BY DEF IInv, ExportInv
<1> QED BY <1>1, <1>2, ReproducerInvariant, PTL

-----------------------------------------------------------------------------
(* Patterns.                                                                 *)

CodeState == [escaped : BOOLEAN, class : {0, 1}, count : Nat]
PythonState == [escaped : BOOLEAN, class : {"out", "first", "after ^", "in"}, count : Nat]

\* What the code thinks is in a class, Python does; and what Python counts, the
\* code counts.
Follows(code, python) ==
    /\ code \in CodeState /\ python \in PythonState
    /\ python.escaped = code.escaped
    /\ code.class = 1 => python.class # "out"
    /\ python.count <= code.count

\* The steps on records, case by case.
LEMMA CodeSteps ==
    ASSUME NEW s \in CodeState, NEW c
    PROVE  LET t == QuantifierStep(s, c)
           IN /\ t \in CodeState
              /\ t.escaped = (~s.escaped /\ c = "\\")
              /\ t.class = IF s.escaped \/ c \notin {"[", "]"} THEN s.class
                           ELSE IF c = "[" THEN 1 ELSE 0
              /\ t.count = IF ~s.escaped /\ s.class = 0 /\ c \in Quantifiers THEN s.count + 1
                           ELSE s.count
<1>1. PICK e \in BOOLEAN, k \in {0, 1}, n \in Nat : s = [escaped |-> e, class |-> k, count |-> n]
  BY DEF CodeState
<1>2. s.escaped = e /\ s.class = k /\ s.count = n
  BY <1>1
<1>3. CASE e
  BY <1>1, <1>2, <1>3 DEF QuantifierStep, CodeState
<1>4. CASE ~e /\ c = "\\"
  BY <1>1, <1>2, <1>4 DEF QuantifierStep, CodeState, Quantifiers
<1>5. CASE ~e /\ c = "["
  BY <1>1, <1>2, <1>5 DEF QuantifierStep, CodeState, Quantifiers
<1>6. CASE ~e /\ c = "]"
  BY <1>1, <1>2, <1>6 DEF QuantifierStep, CodeState, Quantifiers
<1>7. CASE ~e /\ c \notin {"\\", "[", "]"}
  <2>1. QuantifierStep(s, c) = IF k = 0 /\ c \in Quantifiers THEN [s EXCEPT !.count = @ + 1] ELSE s
    BY <1>1, <1>2, <1>7 DEF QuantifierStep
  <2>2. CASE k = 0 /\ c \in Quantifiers
    <3>1. QuantifierStep(s, c) = [escaped |-> e, class |-> k, count |-> n + 1]
      BY <1>1, <1>2, <2>1, <2>2
    <3> QED
      BY <1>2, <1>7, <2>2, <3>1 DEF CodeState
  <2>3. CASE ~(k = 0 /\ c \in Quantifiers)
    BY <1>2, <1>7, <2>1, <2>3
  <2> QED
    BY <2>2, <2>3
<1> QED
  BY <1>3, <1>4, <1>5, <1>6, <1>7

LEMMA NextIsNat == \A m \in Nat : m \in Nat /\ m + 1 \in Nat
  OBVIOUS

LEMMA PythonSteps ==
    ASSUME NEW s \in PythonState, NEW c
    PROVE  LET t == PythonStep(s, c)
           IN /\ t \in PythonState
              /\ t.escaped = (~s.escaped /\ c = "\\")
              /\ t.class = "out" => \/ s.class = "out" /\ (s.escaped \/ c # "[")
                                    \/ s.class = "in" /\ ~s.escaped /\ c = "]"
              /\ t.count = IF ~s.escaped /\ s.class = "out" /\ c \in Quantifiers THEN s.count + 1
                           ELSE s.count
<1>1. PICK e \in BOOLEAN, k \in {"out", "first", "after ^", "in"}, n \in Nat :
         s.escaped = e /\ s.class = k /\ s.count = n
  BY DEF PythonState
<1>2. PICK e2 \in BOOLEAN : e2 = (~e /\ c = "\\")
  OBVIOUS
<1>3. \E n2 \in Nat : n2 = IF ~e /\ k = "out" /\ c \in Quantifiers THEN n + 1 ELSE n
  <2>4. n \in Nat /\ n + 1 \in Nat
    BY NextIsNat, Zenon
  <2>2. CASE ~e /\ k = "out" /\ c \in Quantifiers
    BY <2>4, <2>2, Zenon
  <2>3. CASE ~(~e /\ k = "out" /\ c \in Quantifiers)
    BY <2>4, <2>3, Zenon
  <2> QED
    BY <2>2, <2>3, Zenon
<1>4. /\ PythonClass(s, c) \in {"out", "first", "after ^", "in"}
      /\ PythonClass(s, c) = "out" => \/ s.class = "out" /\ (s.escaped \/ c # "[")
                                      \/ s.class = "in" /\ ~s.escaped /\ c = "]"
  BY <1>1 DEF PythonClass
<1>9. PICK n2 \in Nat : n2 = IF ~e /\ k = "out" /\ c \in Quantifiers THEN n + 1 ELSE n
  BY <1>3
<1>5. PICK t : t = [escaped |-> e2, class |-> PythonClass(s, c), count |-> n2]
  OBVIOUS
<1>6. PythonStep(s, c) = t
  BY <1>1, <1>2, <1>9, <1>5 DEF PythonStep
<1>7. t \in PythonState /\ t.escaped = e2 /\ t.class = PythonClass(s, c) /\ t.count = n2
  BY <1>2, <1>9, <1>4, <1>5 DEF PythonState
<1> QED
  BY <1>1, <1>2, <1>9, <1>4, <1>6, <1>7

LEMMA FollowsOn ==
    ASSUME NEW s, NEW p, NEW c, Follows(s, p)
    PROVE  Follows(QuantifierStep(s, c), PythonStep(p, c))
<1>1. PICK s2, p2 : s2 = QuantifierStep(s, c) /\ p2 = PythonStep(p, c)
  OBVIOUS
<1>2. s \in CodeState /\ p \in PythonState /\ p.escaped = s.escaped
  BY DEF Follows
<1>3. /\ s2 \in CodeState
      /\ s2.escaped = (~s.escaped /\ c = "\\")
      /\ s2.class = IF s.escaped \/ c \notin {"[", "]"} THEN s.class ELSE IF c = "[" THEN 1 ELSE 0
      /\ s2.count = IF ~s.escaped /\ s.class = 0 /\ c \in Quantifiers THEN s.count + 1 ELSE s.count
  BY <1>1, <1>2, CodeSteps
<1>4. /\ p2 \in PythonState
      /\ p2.escaped = (~p.escaped /\ c = "\\")
      /\ p2.class = "out" => \/ p.class = "out" /\ (p.escaped \/ c # "[")
                             \/ p.class = "in" /\ ~p.escaped /\ c = "]"
      /\ p2.count = IF ~p.escaped /\ p.class = "out" /\ c \in Quantifiers THEN p.count + 1
                    ELSE p.count
  BY <1>1, <1>2, PythonSteps
<1>5. s.count \in Nat /\ p.count \in Nat /\ s.class \in {0, 1}
  BY <1>2 DEF CodeState, PythonState
<1>6. s2.class = 1 => p2.class # "out"
  BY <1>2, <1>3, <1>4, <1>5 DEF Follows
<1>7. p2.count <= s2.count
  BY <1>2, <1>3, <1>4, <1>5 DEF Follows
<1> QED
  BY <1>1, <1>2, <1>3, <1>4, <1>6, <1>7 DEF Follows

\* The function by which QuantifierCount is defined.
CodeScans(f, pattern) ==
    f = [n \in 0..Len(pattern) |-> IF n = 0 THEN [escaped |-> FALSE, class |-> 0, count |-> 0] ELSE QuantifierStep(f[n - 1], pattern[n])]

\* It counts by states.
LEMMA QuantifierCountIs ==
    ASSUME NEW pattern \in Seq(Letters)
    PROVE  \E f \in [0..Len(pattern) -> CodeState] :
              /\ QuantifierCount(pattern) = f[Len(pattern)].count
              /\ f[0] = [escaped |-> FALSE, class |-> 0, count |-> 0]
              /\ \A n \in 1..Len(pattern) : f[n] = QuantifierStep(f[n - 1], pattern[n])
<1> DEFINE N == Len(pattern)
           start == [escaped |-> FALSE, class |-> 0, count |-> 0]
           step == [p \in CodeState \X (1..N) |-> QuantifierStep(p[1], pattern[p[2]])]
<1>1. N \in Nat /\ start \in CodeState
  BY DEF CodeState
<1>2. ASSUME NEW t \in CodeState, NEW n \in 1..N PROVE QuantifierStep(t, pattern[n]) \in CodeState
  BY CodeSteps
<1> HIDE DEF N, start
<1>3. step \in [CodeState \X (1..N) -> CodeState]
  BY <1>2
<1>4. \A t \in CodeState, n \in 1..N : step[<<t, n>>] = QuantifierStep(t, pattern[n])
  OBVIOUS
<1> HIDE DEF step
<1>5. PICK f \in [0..N -> CodeState] : Runs(f, N, start, step)
  BY <1>1, <1>3, RunExists
<1>6. ASSUME NEW n \in 1..N PROVE f[n] = QuantifierStep(f[n - 1], pattern[n])
  <2>1. f[n - 1] \in CodeState
    BY <1>1, <1>5
  <2>2. f[n] = step[<<f[n - 1], n>>]
    BY <1>5 DEF Runs
  <2> QED
    BY <1>4, <2>1, <2>2
<1>7. f[0] = start /\ f = [n \in 0..N |-> f[n]]
  BY <1>5 DEF Runs
<1>8. CodeScans(f, pattern)
  <2>1. ASSUME NEW n \in 0..N PROVE f[n] = IF n = 0 THEN start ELSE QuantifierStep(f[n - 1], pattern[n])
    <3>1. CASE n = 0
      BY <1>7, <3>1
    <3>2. CASE n # 0
      <4>1. n \in 1..N
        BY <1>1, <3>2
      <4> QED
        BY <1>6, <3>2, <4>1
    <3> QED
      BY <3>1, <3>2
  <2> QED
    BY <1>7, <2>1, Zenon DEF CodeScans, N, start
<1> DEFINE g == CHOOSE h : CodeScans(h, pattern)
<1>9. CodeScans(g, pattern)
  BY <1>8
<1>10. QuantifierCount(pattern) = g[N].count
  BY DEF QuantifierCount, CodeScans, N
<1> HIDE DEF g
<1>11. g = [n \in 0..N |-> IF n = 0 THEN start ELSE QuantifierStep(g[n - 1], pattern[n])]
  BY <1>9, Zenon DEF CodeScans, N, start
<1>12. g[0] = f[0]
  BY <1>1, <1>7, <1>11
<1>13. ASSUME NEW n \in 1..N, g[n - 1] = f[n - 1] PROVE g[n] = f[n]
  <2>1. n \in 0..N /\ n # 0
    BY <1>1
  <2>2. g[n] = QuantifierStep(g[n - 1], pattern[n])
    BY <1>11, <2>1
  <2> QED
    BY <1>6, <1>13, <2>2
<1>14. g[N] = f[N]
  <2>1. \A n \in 1..N : g[n - 1] = f[n - 1] => g[n] = f[n]
    BY <1>13
  <2>2. N \in Nat
    BY <1>1
  <2>3. \A n \in 0..N : g[n] = f[n]
    BY ZenonT(60), <1>12, <2>1, <2>2, RunsAgree
  <2> QED
    BY <2>2, <2>3
<1> QED
  BY <1>5, <1>6, <1>7, <1>10, <1>14 DEF N, start

\* The function by which PythonCount is defined.
PythonScans(f, pattern) ==
    f = [n \in 0..Len(pattern) |-> IF n = 0 THEN [escaped |-> FALSE, class |-> "out", count |-> 0] ELSE PythonStep(f[n - 1], pattern[n])]

\* So does Python.
LEMMA PythonCountIs ==
    ASSUME NEW pattern \in Seq(Letters)
    PROVE  \E f \in [0..Len(pattern) -> PythonState] :
              /\ PythonCount(pattern) = f[Len(pattern)].count
              /\ f[0] = [escaped |-> FALSE, class |-> "out", count |-> 0]
              /\ \A n \in 1..Len(pattern) : f[n] = PythonStep(f[n - 1], pattern[n])
<1> DEFINE N == Len(pattern)
           start == [escaped |-> FALSE, class |-> "out", count |-> 0]
           step == [p \in PythonState \X (1..N) |-> PythonStep(p[1], pattern[p[2]])]
<1>1. N \in Nat /\ start \in PythonState
  BY DEF PythonState
<1>2. ASSUME NEW t \in PythonState, NEW n \in 1..N PROVE PythonStep(t, pattern[n]) \in PythonState
  BY PythonSteps
<1> HIDE DEF N, start
<1>3. step \in [PythonState \X (1..N) -> PythonState]
  BY <1>2
<1>4. \A t \in PythonState, n \in 1..N : step[<<t, n>>] = PythonStep(t, pattern[n])
  OBVIOUS
<1> HIDE DEF step
<1>5. PICK f \in [0..N -> PythonState] : Runs(f, N, start, step)
  BY <1>1, <1>3, RunExists
<1>6. ASSUME NEW n \in 1..N PROVE f[n] = PythonStep(f[n - 1], pattern[n])
  <2>1. f[n - 1] \in PythonState
    BY <1>1, <1>5
  <2>2. f[n] = step[<<f[n - 1], n>>]
    BY <1>5 DEF Runs
  <2> QED
    BY <1>4, <2>1, <2>2
<1>7. f[0] = start /\ f = [n \in 0..N |-> f[n]]
  BY <1>5 DEF Runs
<1>8. PythonScans(f, pattern)
  <2>1. ASSUME NEW n \in 0..N PROVE f[n] = IF n = 0 THEN start ELSE PythonStep(f[n - 1], pattern[n])
    <3>1. CASE n = 0
      BY <1>7, <3>1
    <3>2. CASE n # 0
      <4>1. n \in 1..N
        BY <1>1, <3>2
      <4> QED
        BY <1>6, <3>2, <4>1
    <3> QED
      BY <3>1, <3>2
  <2> QED
    BY <1>7, <2>1, Zenon DEF PythonScans, N, start
<1> DEFINE g == CHOOSE h : PythonScans(h, pattern)
<1>9. PythonScans(g, pattern)
  BY <1>8
<1>10. PythonCount(pattern) = g[N].count
  BY DEF PythonCount, PythonScans, N
<1> HIDE DEF g
<1>11. g = [n \in 0..N |-> IF n = 0 THEN start ELSE PythonStep(g[n - 1], pattern[n])]
  BY <1>9, Zenon DEF PythonScans, N, start
<1>12. g[0] = f[0]
  BY <1>1, <1>7, <1>11
<1>13. ASSUME NEW n \in 1..N, g[n - 1] = f[n - 1] PROVE g[n] = f[n]
  <2>1. n \in 0..N /\ n # 0
    BY <1>1
  <2>2. g[n] = PythonStep(g[n - 1], pattern[n])
    BY <1>11, <2>1
  <2> QED
    BY <1>6, <1>13, <2>2
<1>14. g[N] = f[N]
  <2>1. \A n \in 1..N : g[n - 1] = f[n - 1] => g[n] = f[n]
    BY <1>13
  <2>2. N \in Nat
    BY <1>1
  <2>3. \A n \in 0..N : g[n] = f[n]
    BY ZenonT(60), <1>12, <2>1, <2>2, RunsAgree
  <2> QED
    BY <2>2, <2>3
<1> QED
  BY <1>5, <1>6, <1>7, <1>10, <1>14 DEF N, start

-----------------------------------------------------------------------------
(* The test of user patterns.                                                  *)

LEMMA PythonCountsNoMore ==
    ASSUME NEW pattern \in Seq(Letters)
    PROVE  /\ QuantifierCount(pattern) \in Nat /\ PythonCount(pattern) \in Nat
           /\ PythonCount(pattern) <= QuantifierCount(pattern)
<1> DEFINE N == Len(pattern)
<1>1. PICK f \in [0..N -> CodeState] :
         /\ QuantifierCount(pattern) = f[N].count
         /\ f[0] = [escaped |-> FALSE, class |-> 0, count |-> 0]
         /\ \A n \in 1..N : f[n] = QuantifierStep(f[n - 1], pattern[n])
  BY QuantifierCountIs
<1>2. PICK g \in [0..N -> PythonState] :
         /\ PythonCount(pattern) = g[N].count
         /\ g[0] = [escaped |-> FALSE, class |-> "out", count |-> 0]
         /\ \A n \in 1..N : g[n] = PythonStep(g[n - 1], pattern[n])
  BY PythonCountIs
<1>3. N \in Nat
  OBVIOUS
<1> HIDE DEF N
<1> DEFINE Alike == {n \in Nat : n <= N => Follows(f[n], g[n])}
<1>4. 0 \in Alike
  <2>1. f[0] \in CodeState /\ g[0] \in PythonState
    BY <1>3
  <2>2. Follows(f[0], g[0])
    BY <1>1, <1>2, <2>1 DEF Follows
  <2> QED
    BY <2>2
<1>5. ASSUME NEW n \in Nat, n \in Alike PROVE n + 1 \in Alike
  <2>1. SUFFICES ASSUME n + 1 <= N PROVE Follows(f[n + 1], g[n + 1])
    OBVIOUS
  <2>2. n + 1 \in 1..N /\ (n + 1) - 1 = n /\ Follows(f[n], g[n])
    BY <1>3, <1>5, <2>1
  <2>3. Follows(QuantifierStep(f[n], pattern[n + 1]), PythonStep(g[n], pattern[n + 1]))
    BY <2>2, FollowsOn, Zenon
  <2>4. f[n + 1] = QuantifierStep(f[n], pattern[n + 1]) /\ g[n + 1] = PythonStep(g[n], pattern[n + 1])
    BY <1>1, <1>2, <2>2
  <2> QED
    BY <2>3, <2>4
<1>6. Nat \subseteq Alike
  BY <1>4, <1>5, Counting
<1>7. Follows(f[N], g[N])
  BY <1>3, <1>6
<1> QED
  BY <1>1, <1>2, <1>7 DEF Follows, CodeState, PythonState

PatternInv ==
    /\ job \in Jobs
    /\ verdict = "accepted" /\ job.who = "pattern" => QuantifierCount(job.pattern) <= 1

\* The walks leave what they are about alone, and only CompileUserPattern
\* accepts a pattern.
LEMMA PatternStep == PatternInv /\ [WalkNext]_walkVars => PatternInv'
<1>1. SUFFICES ASSUME PatternInv, [WalkNext]_walkVars PROVE PatternInv'
  OBVIOUS
<1>2. job' = job
  BY <1>1 DEF WalkNext, LeaveContainer, ValidateNode, ScriptNode, RedactLeave, RedactNode,
       CompileUserPattern, Accept, WalkEnds, Raise, walkVars
<1>3. verdict' = "accepted" /\ job.who = "pattern" /\ verdict # "accepted" => CompileUserPattern
  BY <1>1 DEF WalkNext, LeaveContainer, ValidateNode, ScriptNode, RedactLeave, RedactNode,
       Accept, WalkEnds, Raise, walkVars, Running
<1>4. QuantifierCount(job.pattern)' = QuantifierCount(job.pattern)
  BY <1>2 DEF QuantifierCount
<1>5. ASSUME CompileUserPattern, verdict' = "accepted" PROVE QuantifierCount(job.pattern) <= 1
  <2>1. ~(QuantifierCount(job.pattern) > 1)
    BY <1>5, Zenon DEF CompileUserPattern
  <2>2. job \in Jobs
    BY <1>1 DEF PatternInv
  <2>3. job.pattern \in Seq(Letters)
    BY <2>2, JobsAssumption
  <2> QED
    BY <2>1, <2>3, PythonCountsNoMore
<1> QED
  BY <1>1, <1>2, <1>3, <1>4, <1>5 DEF PatternInv

\* An accepted pattern has one quantifier at most, as Python's re reads it
\* (_compile_user_pattern of redact.py), although the code's idea of a class is
\* not Python's: wherever the code is in a class, Python is in one.
THEOREM QuantifiersAreSeen == WalkSpec => []QuantifiersAreNotMissed
<1>1. WalkInit => PatternInv
  BY DEF WalkInit, PatternInv
<1>2. PatternInv => QuantifiersAreNotMissed
  <2>1. SUFFICES ASSUME PatternInv, verdict = "accepted", job.who = "pattern"
                 PROVE  PythonCount(job.pattern) <= 1
    BY DEF QuantifiersAreNotMissed, Walked
  <2>2. job.pattern \in Seq(Letters) /\ QuantifierCount(job.pattern) <= 1
    BY <2>1, JobsAssumption DEF PatternInv
  <2> QED
    BY <2>2, PythonCountsNoMore
<1> QED
  BY <1>1, <1>2, PatternStep, PTL DEF WalkSpec

-----------------------------------------------------------------------------
(* Sums.                                                                      *)

\* The function by which SumOf is defined.
Sums(f, numbers) ==
    f = [n \in 0..Len(numbers) |-> IF n = 0 THEN 0 ELSE f[n - 1] + numbers[n]]

\* It adds number after number.
LEMMA SumIs ==
    ASSUME NEW numbers \in Seq(Nat)
    PROVE  \E f \in [0..Len(numbers) -> Nat] :
              /\ SumOf(numbers) = f[Len(numbers)]
              /\ f[0] = 0
              /\ \A n \in 1..Len(numbers) : f[n] = f[n - 1] + numbers[n]
<1> DEFINE N == Len(numbers)
           start == 0
           step == [p \in Nat \X (1..N) |-> p[1] + numbers[p[2]]]
<1>1. N \in Nat /\ start \in Nat
  OBVIOUS
<1>2. ASSUME NEW t \in Nat, NEW n \in 1..N PROVE t + numbers[n] \in Nat
  BY ElementOfSeq
<1> HIDE DEF N, start
<1>3. step \in [Nat \X (1..N) -> Nat]
  BY <1>2
<1>4. \A t \in Nat, n \in 1..N : step[<<t, n>>] = t + numbers[n]
  OBVIOUS
<1> HIDE DEF step
<1>5. PICK f \in [0..N -> Nat] : Runs(f, N, start, step)
  BY <1>1, <1>3, RunExists
<1>6. ASSUME NEW n \in 1..N PROVE f[n] = f[n - 1] + numbers[n]
  <2>1. f[n - 1] \in Nat
    BY <1>1, <1>5
  <2>2. f[n] = step[<<f[n - 1], n>>]
    BY <1>5 DEF Runs
  <2> QED
    BY <1>4, <2>1, <2>2
<1>7. f[0] = start /\ f = [n \in 0..N |-> f[n]]
  BY <1>5 DEF Runs
<1>8. Sums(f, numbers)
  <2>1. ASSUME NEW n \in 0..N PROVE f[n] = IF n = 0 THEN start ELSE f[n - 1] + numbers[n]
    <3>1. CASE n = 0
      BY <1>7, <3>1
    <3>2. CASE n # 0
      <4>1. n \in 1..N
        BY <1>1, <3>2
      <4> QED
        BY <1>6, <3>2, <4>1
    <3> QED
      BY <3>1, <3>2
  <2> QED
    BY <1>7, <2>1, Zenon DEF Sums, N, start
<1> DEFINE g == CHOOSE h : Sums(h, numbers)
<1>9. Sums(g, numbers)
  BY <1>8
<1>10. SumOf(numbers) = g[N]
  BY DEF SumOf, Sums, N
<1> HIDE DEF g
<1>11. g = [n \in 0..N |-> IF n = 0 THEN start ELSE g[n - 1] + numbers[n]]
  BY <1>9, Zenon DEF Sums, N, start
<1>12. g[0] = f[0]
  BY <1>1, <1>7, <1>11
<1>13. ASSUME NEW n \in 1..N, g[n - 1] = f[n - 1] PROVE g[n] = f[n]
  <2>1. n \in 0..N /\ n # 0
    BY <1>1
  <2>2. g[n] = g[n - 1] + numbers[n]
    BY <1>11, <2>1
  <2> QED
    BY <1>6, <1>13, <2>2
<1>14. g[N] = f[N]
  <2>1. \A n \in 1..N : g[n - 1] = f[n - 1] => g[n] = f[n]
    BY <1>13
  <2>2. N \in Nat
    BY <1>1
  <2>3. \A n \in 0..N : g[n] = f[n]
    BY ZenonT(60), <1>12, <2>1, <2>2, RunsAgree
  <2> QED
    BY <2>2, <2>3
<1> QED
  BY <1>5, <1>6, <1>7, <1>10, <1>14 DEF N, start

LEMMA SumEmpty == SumOf(<<>>) = 0
<1>1. <<>> \in Seq(Nat) /\ Len(<<>>) = 0
  OBVIOUS
<1> QED
  BY <1>1, SumIs

LEMMA SumAppend ==
    ASSUME NEW s \in Seq(Nat), NEW x \in Nat
    PROVE  /\ SumOf(s) \in Nat
           /\ SumOf(Append(s, x)) = SumOf(s) + x
<1>1. PICK t : t = Append(s, x)
  OBVIOUS
<1>2. /\ t \in Seq(Nat) /\ Len(s) \in Nat /\ Len(t) = Len(s) + 1 /\ t[Len(s) + 1] = x
      /\ \A i \in 1..Len(s) : t[i] = s[i]
  BY <1>1
<1>3. PICK f \in [0..Len(s) -> Nat] :
         SumOf(s) = f[Len(s)] /\ f[0] = 0 /\ \A n \in 1..Len(s) : f[n] = f[n - 1] + s[n]
  BY SumIs
<1>4. PICK g \in [0..Len(t) -> Nat] :
         SumOf(t) = g[Len(t)] /\ g[0] = 0 /\ \A n \in 1..Len(t) : g[n] = g[n - 1] + t[n]
  BY <1>2, SumIs
<1> DEFINE Same == {n \in Nat : n <= Len(s) => g[n] = f[n]}
<1>5. 0 \in Same
  BY <1>3, <1>4
<1>6. ASSUME NEW n \in Nat, n \in Same PROVE n + 1 \in Same
  <2>1. SUFFICES ASSUME n + 1 <= Len(s) PROVE g[n + 1] = f[n + 1]
    OBVIOUS
  <2>2. /\ n + 1 \in 1..Len(s) /\ n + 1 \in 1..Len(t) /\ (n + 1) - 1 = n
        /\ g[n] = f[n] /\ t[n + 1] = s[n + 1]
    BY <1>2, <1>6, <2>1
  <2> QED
    BY <1>3, <1>4, <2>2
<1>7. Nat \subseteq Same
  BY <1>5, <1>6, Counting
<1>8. g[Len(s)] = f[Len(s)] /\ f[Len(s)] \in Nat
  BY SMTT(60), <1>2, <1>7
<1>9. Len(t) \in 1..Len(t) /\ Len(t) - 1 = Len(s)
  BY <1>2
<1>10. g[Len(t)] = f[Len(s)] + x
  BY <1>2, <1>4, <1>8, <1>9
<1> QED
  BY <1>1, <1>3, <1>4, <1>8, <1>10

\* A sequence that is not empty is its front and its last.
LEMMA FrontAndLast ==
    ASSUME NEW S, NEW s \in Seq(S), s # <<>>
    PROVE  /\ Front(s) \in Seq(S) /\ Last(s) \in S /\ s = Append(Front(s), Last(s))
           /\ Len(s) \in Nat /\ Len(s) >= 1 /\ Len(Front(s)) = Len(s) - 1
           /\ \A i \in 1..(Len(s) - 1) : Front(s)[i] = s[i]
           /\ Last(s) = s[Len(s)]
<1>1. Len(s) \in Nat /\ Len(s) >= 1 /\ Len(s) - 1 \in Nat
  BY EmptySeq
<1>2. \A i \in 1..(Len(s) - 1) : s[i] \in S
  BY <1>1, ElementOfSeq
<1>3. PICK f : f = SubSeq(s, 1, Len(s) - 1)
  OBVIOUS
<1>4. f \in Seq(S) /\ Len(f) = Len(s) - 1 /\ \A i \in 1..(Len(s) - 1) : f[i] = s[i]
  <2>1. /\ f \in Seq(S)
        /\ Len(f) = IF 1 <= Len(s) - 1 THEN (Len(s) - 1) - 1 + 1 ELSE 0
        /\ \A i \in 1..((Len(s) - 1) - 1 + 1) : f[i] = s[1 + i - 1]
    BY <1>1, <1>2, <1>3, SubSeqProperties
  <2>2. PICK n \in Nat : n = Len(s) /\ n >= 1
    BY <1>1
  <2>3. (IF 1 <= n - 1 THEN (n - 1) - 1 + 1 ELSE 0) = n - 1 /\ (n - 1) - 1 + 1 = n - 1
    BY <2>2
  <2>4. \A i \in 1..(n - 1) : 1 + i - 1 = i
    OBVIOUS
  <2> QED
    BY <2>1, <2>2, <2>3, <2>4
<1>5. s[Len(s)] \in S
  BY <1>1, ElementOfSeq
<1>6. PICK t : t = Append(f, s[Len(s)])
  OBVIOUS
<1>7. t \in Seq(S) /\ Len(t) = Len(s) /\ \A i \in 1..Len(s) : t[i] = s[i]
  BY <1>1, <1>4, <1>5, <1>6
<1>8. s = t
  BY <1>7, SeqEqual
<1> QED
  BY <1>1, <1>3, <1>4, <1>5, <1>6, <1>8 DEF Front, Last

\* What holds of the empty sequence and of a sequence with one more holds of all.
LEMMA Growing ==
    ASSUME NEW S, NEW T, <<>> \in T,
           \A s \in Seq(S), x \in S : s \in T => Append(s, x) \in T
    PROVE  Seq(S) \subseteq T
<1> DEFINE Long == {n \in Nat : \A s \in Seq(S) : Len(s) = n => s \in T}
<1>1. 0 \in Long
  BY EmptySeq
<1>2. ASSUME NEW n \in Nat, n \in Long PROVE n + 1 \in Long
  <2>1. SUFFICES ASSUME NEW s \in Seq(S), Len(s) = n + 1 PROVE s \in T
    OBVIOUS
  <2>2. s # <<>>
    BY <2>1, EmptySeq
  <2>3. Front(s) \in Seq(S) /\ Last(s) \in S /\ s = Append(Front(s), Last(s)) /\ Len(Front(s)) = n
    BY <2>1, <2>2, FrontAndLast
  <2>4. Front(s) \in T
    BY <1>2, <2>3
  <2> QED
    BY <2>3, <2>4, Zenon
<1>3. Nat \subseteq Long
  BY <1>1, <1>2, Counting
<1> QED
  BY <1>3

LEMMA SumConcat ==
    ASSUME NEW s \in Seq(Nat), NEW u \in Seq(Nat)
    PROVE  SumOf(s \o u) = SumOf(s) + SumOf(u)
<1> DEFINE T == {t \in Seq(Nat) : SumOf(s \o t) = SumOf(s) + SumOf(t)}
<1>1. <<>> \in T
  <2>1. s \o <<>> = s /\ <<>> \in Seq(Nat)
    BY ConcatEmptySeq
  <2>2. SumOf(s) \in Nat
    BY SumAppend
  <2> QED
    BY <2>1, <2>2, SumEmpty
<1>2. ASSUME NEW t \in Seq(Nat), NEW x \in Nat, t \in T PROVE Append(t, x) \in T
  <2>1. s \o Append(t, x) = Append(s \o t, x) /\ s \o t \in Seq(Nat) /\ Append(t, x) \in Seq(Nat)
    BY SMTT(60)
  <2>2. SumOf(Append(s \o t, x)) = SumOf(s \o t) + x
    BY <2>1, SumAppend
  <2>3. SumOf(Append(t, x)) = SumOf(t) + x /\ SumOf(t) \in Nat /\ SumOf(s) \in Nat
    BY SumAppend
  <2>4. SumOf(s \o t) = SumOf(s) + SumOf(t)
    BY <1>2
  <2>5. SumOf(s \o Append(t, x)) = SumOf(s) + SumOf(Append(t, x))
    BY <2>1, <2>2, <2>3, <2>4
  <2> QED
    BY <2>1, <2>5
<1>3. Seq(Nat) \subseteq T
  BY <1>1, <1>2, Growing
<1> QED
  BY <1>3

LEMMA SumReverse ==
    ASSUME NEW s \in Seq(Nat)
    PROVE  SumOf(Reverse(s)) = SumOf(s)
<1> DEFINE T == {t \in Seq(Nat) : SumOf(Reverse(t)) = SumOf(t)}
<1>1. <<>> \in T
  BY DEF Reverse
<1>2. ASSUME NEW t \in Seq(Nat), NEW x \in Nat, t \in T PROVE Append(t, x) \in T
  <2>1. PICK r : r = Reverse(t)
    OBVIOUS
  <2>2. r \in Seq(Nat) /\ Len(r) = Len(t) /\ \A i \in 1..Len(t) : r[i] = t[Len(t) - i + 1]
    BY <2>1 DEF Reverse
  <2>3. Reverse(Append(t, x)) = <<x>> \o r
    <3>1. PICK a, b : a = Reverse(Append(t, x)) /\ b = <<x>> \o r
      OBVIOUS
    <3>2. a \in Seq(Nat) /\ Len(a) = Len(t) + 1
          /\ \A i \in 1..(Len(t) + 1) : a[i] = Append(t, x)[Len(t) + 1 - i + 1]
      BY <3>1 DEF Reverse
    <3>3. b \in Seq(Nat) /\ Len(b) = Len(t) + 1
          /\ \A i \in 1..(Len(t) + 1) : b[i] = IF i = 1 THEN x ELSE r[i - 1]
      BY <2>2, <3>1
    <3>4. ASSUME NEW i \in 1..(Len(t) + 1) PROVE a[i] = b[i]
      <4>1. CASE i = 1
        BY <3>2, <3>3, <4>1
      <4>2. CASE i # 1
        <5>1. /\ i - 1 \in 1..Len(t) /\ Len(t) + 1 - i + 1 \in 1..Len(t)
              /\ Len(t) - (i - 1) + 1 = Len(t) + 1 - i + 1
          BY <4>2
        <5>2. a[i] = t[Len(t) + 1 - i + 1]
          BY <3>2, <5>1
        <5>3. b[i] = t[Len(t) - (i - 1) + 1]
          BY <2>2, <3>3, <4>2, <5>1
        <5> QED
          BY <5>1, <5>2, <5>3
      <4> QED
        BY <4>1, <4>2
    <3> QED
      BY ZenonT(60), <3>1, <3>2, <3>3, <3>4, SeqEqual
  <2>4. <<x>> \in Seq(Nat) /\ <<x>> = Append(<<>>, x) /\ <<>> \in Seq(Nat)
    OBVIOUS
  <2>5. SumOf(<<x>>) = x
    <3>1. SumOf(Append(<<>>, x)) = SumOf(<<>>) + x
      BY <2>4, SumAppend
    <3> QED
      BY <2>4, <3>1, SumEmpty
  <2>6. SumOf(<<x>> \o r) = x + SumOf(r)
    BY <2>2, <2>4, <2>5, SumConcat
  <2>7. SumOf(Append(t, x)) = SumOf(t) + x /\ SumOf(t) \in Nat /\ SumOf(r) = SumOf(t)
    BY <1>2, <2>1, SumAppend
  <2>8. SumOf(Reverse(Append(t, x))) = SumOf(Append(t, x))
    BY <2>3, <2>6, <2>7
  <2>9. Append(t, x) \in Seq(Nat)
    OBVIOUS
  <2> QED
    BY <2>8, <2>9
<1>3. Seq(Nat) \subseteq T
  BY <1>1, <1>2, Growing
<1> QED
  BY <1>3
-----------------------------------------------------------------------------
(* The levels and the sizes of a document.                                    *)

Nodes == DOMAIN job.heap
Top0 == MaxDepth + 1

\* What the walks may rely on in a document.
LEMMA HeapTyped ==
    ASSUME job \in Jobs
    PROVE  /\ Len(job.heap) \in Nat /\ Nodes = 1..Len(job.heap)
           /\ job.who # "pattern" => 1 \in Nodes
           /\ \A n \in Nodes : /\ IsHeapObject(Obj(n), Len(job.heap))
                               /\ Below(n) \in Seq(Nodes) /\ DOMAIN Below(n) = DOMAIN Obj(n).items
                               /\ Len(Below(n)) = Len(Obj(n).items)
                               /\ Obj(n).type \notin Containers => Below(n) = <<>>
<1>1. /\ job.heap \in Seq(Range(job.heap))
      /\ \A n \in DOMAIN job.heap : IsHeapObject(job.heap[n], Len(job.heap))
      /\ job.heap = <<>> <=> job.who = "pattern"
  BY JobsAssumption
<1>2. Len(job.heap) \in Nat /\ Nodes = 1..Len(job.heap)
  BY <1>1, LenProperties DEF Nodes
<1>3. job.who # "pattern" => 1 \in Nodes
  <2>1. SUFFICES ASSUME job.who # "pattern" PROVE Len(job.heap) >= 1
    BY <1>2
  <2>2. job.heap # <<>>
    BY <1>1, <2>1
  <2> QED
    BY <1>1, <2>2, EmptySeq
<1>4. ASSUME NEW n \in Nodes
      PROVE  /\ IsHeapObject(Obj(n), Len(job.heap))
             /\ Below(n) \in Seq(Nodes) /\ DOMAIN Below(n) = DOMAIN Obj(n).items
             /\ Len(Below(n)) = Len(Obj(n).items)
             /\ Obj(n).type \notin Containers => Below(n) = <<>>
  <2>1. IsHeapObject(Obj(n), Len(job.heap))
    BY <1>1, <1>4 DEF Obj, Nodes
  <2>2. PICK items : items = Obj(n).items
    OBVIOUS
  <2>3. /\ items \in Seq([key : Seq(Letters) \union {NotStr, NoKey}, to : 1..Len(job.heap)])
        /\ Obj(n).type \notin Containers => items = <<>>
    BY <2>1, <2>2 DEF IsHeapObject
  <2>4. PICK b : b = [i \in DOMAIN items |-> items[i].to]
    OBVIOUS
  <2>5. Len(items) \in Nat /\ DOMAIN items = 1..Len(items) /\ \A i \in 1..Len(items) : items[i].to \in Nodes
    <3>1. PICK K : K = [key : Seq(Letters) \union {NotStr, NoKey}, to : 1..Len(job.heap)]
      OBVIOUS
    <3>2. items \in Seq(K)
      BY <2>3, <3>1
    <3>3. Len(items) \in Nat /\ DOMAIN items = 1..Len(items) /\ \A i \in 1..Len(items) : items[i] \in K
      BY <3>2, ElementOfSeq, LenProperties
    <3>4. \A x \in K : x.to \in Nodes
      BY <1>2, <3>1
    <3> QED
      BY <3>3, <3>4
  <2>6. b \in [1..Len(items) -> Nodes] /\ b \in Seq(Nodes) /\ DOMAIN b = 1..Len(items) /\ Len(b) = Len(items)
    BY <2>4, <2>5
  <2>7. Obj(n).type \notin Containers => b = <<>>
    BY <2>3, <2>4
  <2> QED
    BY <2>1, <2>2, <2>4, <2>5, <2>6, <2>7 DEF Below
<1> QED
  BY <1>2, <1>3, <1>4

FitsBelow(fitting) == {n \in DOMAIN job.heap : JsonObject(n) /\ Range(Below(n)) \subseteq fitting}

FitScans(f) ==
    f = [levels \in 0..MaxDepth + 1 |-> IF levels = 0 THEN {} ELSE FitsBelow(f[levels - 1])]

LEMMA FitsIs ==
    /\ Fits[0] = {}
    /\ \A l \in 1..Top0 : Fits[l] = FitsBelow(Fits[l - 1])
<1> DEFINE S == SUBSET Nodes
           step == [p \in S \X (1..Top0) |-> FitsBelow(p[1])]
<1>1. Top0 \in Nat /\ {} \in S /\ \A T \in S : FitsBelow(T) \in S
  BY LimitsAssumption DEF Top0, FitsBelow, Nodes
<1> HIDE DEF S
<1>2. step \in [S \X (1..Top0) -> S] /\ \A T \in S, n \in 1..Top0 : step[<<T, n>>] = FitsBelow(T)
  BY <1>1
<1> HIDE DEF step
<1>3. PICK f \in [0..Top0 -> S] : Runs(f, Top0, {}, step)
  BY <1>1, <1>2, RunExists
<1>4. FitScans(f)
  <2>1. ASSUME NEW l \in 0..Top0 PROVE f[l] = IF l = 0 THEN {} ELSE FitsBelow(f[l - 1])
    <3>1. CASE l = 0
      BY <1>3, <3>1 DEF Runs
    <3>2. CASE l # 0
      <4>1. l \in 1..Top0 /\ f[l - 1] \in S
        BY <1>1, <1>3, <3>2
      <4>2. f[l] = step[<<f[l - 1], l>>]
        BY <1>3, <4>1 DEF Runs
      <4> QED
        BY <1>2, <3>2, <4>1, <4>2
    <3> QED
      BY <3>1, <3>2
  <2>2. f = [l \in 0..Top0 |-> f[l]]
    BY <1>3
  <2> QED
    BY <2>1, <2>2, Zenon DEF FitScans, Top0
<1>5. FitScans(Fits)
  <2>1. Fits = CHOOSE h : FitScans(h)
    BY DEF Fits, FitScans, FitsBelow
  <2> QED
    BY <1>4, <2>1
<1>6. \A l \in 0..Top0 : Fits[l] = IF l = 0 THEN {} ELSE FitsBelow(Fits[l - 1])
  BY <1>5, Zenon DEF FitScans, Top0
<1>7. 0 \in 0..Top0 /\ \A l \in 1..Top0 : l \in 0..Top0 /\ l # 0
  BY <1>1
<1> QED
  BY <1>6, <1>7

\* The sizes one level further up.
Costs(size, n) == [i \in DOMAIN Below(n) |-> size[Below(n)[i]]]
SizeAbove(size) == [n \in DOMAIN job.heap |-> Cost(n) + SumOf(Costs(size, n))]
SizeNone == [n \in DOMAIN job.heap |-> 0]

LEMMA CostsTyped ==
    ASSUME job \in Jobs, NEW size \in [Nodes -> Nat], NEW n \in Nodes
    PROVE  Costs(size, n) \in Seq(Nat) /\ Cost(n) \in {1, 2} /\ SumOf(Costs(size, n)) \in Nat
<1>1. Below(n) \in Seq(Nodes)
  BY HeapTyped
<1>2. PICK b : b = Below(n)
  OBVIOUS
<1>3. [i \in DOMAIN b |-> size[b[i]]] \in Seq(Nat)
  <2>1. Len(b) \in Nat /\ DOMAIN b = 1..Len(b) /\ \A i \in 1..Len(b) : b[i] \in Nodes
    BY <1>1, <1>2, LenProperties, ElementOfSeq
  <2>2. \A i \in 1..Len(b) : size[b[i]] \in Nat
    BY <2>1
  <2> QED
    BY <2>1, <2>2
<1>4. Costs(size, n) \in Seq(Nat) /\ Cost(n) \in {1, 2}
  BY <1>2, <1>3 DEF Costs, Cost
<1> QED
  BY <1>4, SumAppend

SizeScans(f) ==
    f = [levels \in 0..MaxDepth + 1 |-> IF levels = 0 THEN SizeNone ELSE SizeAbove(f[levels - 1])]

LEMMA SizeIs ==
    ASSUME job \in Jobs
    PROVE  /\ \A l \in 0..Top0 : Size[l] \in [Nodes -> Nat]
           /\ \A l \in 1..Top0 : Size[l] = SizeAbove(Size[l - 1])
<1> DEFINE S == [Nodes -> Nat]
           step == [p \in S \X (1..Top0) |-> SizeAbove(p[1])]
<1>1. Top0 \in Nat /\ SizeNone \in S
  BY LimitsAssumption DEF Top0, SizeNone, Nodes
<1>2. ASSUME NEW size \in S PROVE SizeAbove(size) \in S
  <2>1. ASSUME NEW n \in Nodes PROVE Cost(n) + SumOf(Costs(size, n)) \in Nat
    BY CostsTyped
  <2> QED
    BY <2>1 DEF SizeAbove, Nodes
<1> HIDE DEF S
<1>3. step \in [S \X (1..Top0) -> S] /\ \A T \in S, n \in 1..Top0 : step[<<T, n>>] = SizeAbove(T)
  BY <1>2
<1> HIDE DEF step
<1>4. PICK f \in [0..Top0 -> S] : Runs(f, Top0, SizeNone, step)
  BY <1>1, <1>3, RunExists
<1>5. SizeScans(f)
  <2>1. ASSUME NEW l \in 0..Top0 PROVE f[l] = IF l = 0 THEN SizeNone ELSE SizeAbove(f[l - 1])
    <3>1. CASE l = 0
      BY <1>4, <3>1 DEF Runs
    <3>2. CASE l # 0
      <4>1. l \in 1..Top0 /\ f[l - 1] \in S
        BY <1>1, <1>4, <3>2
      <4>2. f[l] = step[<<f[l - 1], l>>]
        BY <1>4, <4>1 DEF Runs
      <4> QED
        BY <1>3, <3>2, <4>1, <4>2
    <3> QED
      BY <3>1, <3>2
  <2>2. f = [l \in 0..Top0 |-> f[l]]
    BY <1>4
  <2> QED
    BY <2>1, <2>2, Zenon DEF SizeScans, Top0
<1>6. SizeScans(Size)
  <2>1. Size = CHOOSE h : SizeScans(h)
    <3>1. ASSUME NEW h
          PROVE  SizeScans(h) <=> h = [levels \in 0..MaxDepth + 1 |->
                     [n \in DOMAIN job.heap |->
                         IF levels = 0 THEN 0
                         ELSE Cost(n) + SumOf([i \in DOMAIN Below(n) |-> h[levels - 1][Below(n)[i]]])]]
      <4>1. ASSUME NEW levels
            PROVE  (IF levels = 0 THEN SizeNone ELSE SizeAbove(h[levels - 1]))
                   = [n \in DOMAIN job.heap |->
                         IF levels = 0 THEN 0
                         ELSE Cost(n) + SumOf([i \in DOMAIN Below(n) |-> h[levels - 1][Below(n)[i]]])]
        <5>1. CASE levels = 0
          BY <5>1, Zenon DEF SizeNone
        <5>2. CASE levels # 0
          BY <5>2, Zenon DEF SizeAbove, Costs
        <5> QED
          BY <5>1, <5>2, Zenon
      <4> QED
        BY <4>1, Zenon DEF SizeScans
    <3> QED
      BY <3>1, Zenon DEF Size
  <2> QED
    BY <1>5, <2>1
<1>7. \A l \in 0..Top0 : Size[l] = IF l = 0 THEN SizeNone ELSE SizeAbove(Size[l - 1])
  BY <1>6, Zenon DEF SizeScans, Top0
<1>8. 0 \in 0..Top0 /\ \A l \in 1..Top0 : l \in 0..Top0 /\ l # 0
  BY <1>1
<1>9. \A l \in 1..Top0 : Size[l] = SizeAbove(Size[l - 1])
  BY <1>7, <1>8
<1>10. \A l \in 0..Top0 : Size[l] \in S
  <2> DEFINE Good == {l \in Nat : l <= Top0 => Size[l] \in S}
  <2>1. 0 \in Good
    BY <1>1, <1>7, <1>8
  <2>2. ASSUME NEW l \in Nat, l \in Good PROVE l + 1 \in Good
    <3>1. SUFFICES ASSUME l + 1 <= Top0 PROVE Size[l + 1] \in S
      OBVIOUS
    <3>2. l + 1 \in 1..Top0 /\ (l + 1) - 1 = l /\ Size[l] \in S
      BY <1>1, <2>2, <3>1
    <3> QED
      BY <1>2, <1>9, <3>2
  <2>3. Nat \subseteq Good
    BY <2>1, <2>2, Counting
  <2> QED
    BY <1>1, <2>3
<1> QED
  BY <1>9, <1>10 DEF S
-----------------------------------------------------------------------------
(* What is on the stack of a walk: how much it will count, whether it will be   *)
(* accepted, and the path of the containers that are being visited.           *)

PlainFrames(N) ==
    {Leaving(n) : n \in N} \union {Visit(n, NoKey, <<>>, <<>>, d) : n \in N, d \in 0..Top0}

Due(size, f) == IF f.leave THEN 1 ELSE size[Top0 - f.depth][f.node]
Dues(size, s) == [i \in DOMAIN s |-> Due(size, s[i])]
Owed(size, s) == SumOf(Dues(size, s))

Fitting(fits, s) == \A i \in DOMAIN s : ~s[i].leave => s[i].node \in fits[Top0 - s[i].depth]

LeavesOf(s) == {s[i].node : i \in {j \in DOMAIN s : s[j].leave}}
Apart(s) == \A i, j \in DOMAIN s : s[i].leave /\ s[j].leave /\ s[i].node = s[j].node => i = j

\* Whatever is above a container, with no other container to leave in between,
\* is one of its items.
Edge(heap, m, n) == \E i \in DOMAIN heap[m].items : heap[m].items[i].to = n
Chained(heap, s) == \A i, j \in DOMAIN s :
    i < j /\ s[i].leave /\ (\A k \in (i + 1)..(j - 1) : ~s[k].leave)
        => Edge(heap, s[i].node, s[j].node)

LEMMA FrameFacts ==
    ASSUME NEW N, NEW f \in PlainFrames(N)
    PROVE  /\ f.node \in N /\ f.leave \in BOOLEAN
           /\ ~f.leave => f.depth \in 0..Top0 /\ f = Visit(f.node, NoKey, <<>>, <<>>, f.depth)
           /\ f.leave => f = Leaving(f.node)
<1>1. CASE f \in {Leaving(n) : n \in N}
  <2>1. PICK n \in N : f = Leaving(n)
    BY <1>1
  <2>2. f.node = n /\ f.leave = TRUE
    BY <2>1 DEF Leaving
  <2> QED
    BY <2>1, <2>2
<1>2. CASE f \in {Visit(n, NoKey, <<>>, <<>>, d) : n \in N, d \in 0..Top0}
  <2>1. PICK n \in N, d \in 0..Top0 : f = Visit(n, NoKey, <<>>, <<>>, d)
    BY <1>2
  <2>2. f.node = n /\ f.leave = FALSE /\ f.depth = d
    BY <2>1 DEF Visit
  <2> QED
    BY <2>1, <2>2
<1> QED
  BY <1>1, <1>2 DEF PlainFrames

LEMMA DueTyped ==
    ASSUME NEW N, NEW size, \A l \in 0..Top0 : size[l] \in [N -> Nat], NEW f \in PlainFrames(N)
    PROVE  Due(size, f) \in Nat
<1>1. CASE f.leave
  BY <1>1 DEF Due
<1>2. CASE ~f.leave
  <2>1. f.depth \in 0..Top0 /\ f.node \in N
    BY <1>2, FrameFacts
  <2>2. Top0 - f.depth \in 0..Top0
    BY <2>1, LimitsAssumption DEF Top0
  <2> QED
    BY <1>2, <2>1, <2>2 DEF Due
<1> QED
  BY <1>1, <1>2

LEMMA DuesTyped ==
    ASSUME NEW N, NEW size, \A l \in 0..Top0 : size[l] \in [N -> Nat], NEW s \in Seq(PlainFrames(N))
    PROVE  Dues(size, s) \in Seq(Nat) /\ Len(Dues(size, s)) = Len(s) /\ Owed(size, s) \in Nat
<1>1. Len(s) \in Nat /\ DOMAIN s = 1..Len(s) /\ \A i \in 1..Len(s) : s[i] \in PlainFrames(N)
  BY ElementOfSeq, LenProperties
<1>2. \A i \in 1..Len(s) : Due(size, s[i]) \in Nat
  BY <1>1, DueTyped
<1>3. Dues(size, s) \in Seq(Nat) /\ Len(Dues(size, s)) = Len(s)
  BY <1>1, <1>2 DEF Dues
<1> QED
  BY <1>3, SumAppend DEF Owed

LEMMA OwedConcat ==
    ASSUME NEW N, NEW size, \A l \in 0..Top0 : size[l] \in [N -> Nat],
           NEW s \in Seq(PlainFrames(N)), NEW t \in Seq(PlainFrames(N))
    PROVE  Owed(size, s \o t) = Owed(size, s) + Owed(size, t)
<1>1. PICK F : F = PlainFrames(N)
  OBVIOUS
<1>2. /\ Len(s) \in Nat /\ DOMAIN s = 1..Len(s) /\ Len(t) \in Nat /\ DOMAIN t = 1..Len(t)
      /\ s \in Seq(F) /\ t \in Seq(F)
  BY <1>1, LenProperties
<1>3. PICK c : c = s \o t
  OBVIOUS
<1>4. /\ c \in Seq(F) /\ Len(c) = Len(s) + Len(t)
      /\ \A i \in 1..Len(s) + Len(t) : c[i] = IF i <= Len(s) THEN s[i] ELSE t[i - Len(s)]
  BY <1>2, <1>3, ConcatProperties
<1>5. PICK a, b, d : a = Dues(size, s) /\ b = Dues(size, t) /\ d = Dues(size, c)
  OBVIOUS
<1>6. /\ a \in Seq(Nat) /\ Len(a) = Len(s) /\ \A i \in 1..Len(s) : a[i] = Due(size, s[i])
      /\ b \in Seq(Nat) /\ Len(b) = Len(t) /\ \A i \in 1..Len(t) : b[i] = Due(size, t[i])
      /\ d \in Seq(Nat) /\ Len(d) = Len(c) /\ \A i \in 1..Len(c) : d[i] = Due(size, c[i])
  <2>1. a \in Seq(Nat) /\ Len(a) = Len(s)
    BY <1>5, DuesTyped
  <2>2. b \in Seq(Nat) /\ Len(b) = Len(t)
    BY <1>5, DuesTyped
  <2>3. d \in Seq(Nat) /\ Len(d) = Len(c)
    BY <1>1, <1>4, <1>5, DuesTyped
  <2>4. DOMAIN c = 1..Len(c)
    BY <1>4, LenProperties
  <2> QED
    BY <1>2, <1>5, <2>1, <2>2, <2>3, <2>4 DEF Dues
<1>7. PICK e : e = a \o b
  OBVIOUS
<1>8. /\ e \in Seq(Nat) /\ Len(e) = Len(s) + Len(t)
      /\ \A i \in 1..Len(s) + Len(t) : e[i] = IF i <= Len(s) THEN a[i] ELSE b[i - Len(s)]
  BY <1>6, <1>7, ConcatProperties
<1>9. ASSUME NEW i \in 1..Len(s) + Len(t) PROVE d[i] = e[i]
  <2>1. CASE i <= Len(s)
    <3>1. i \in 1..Len(s) /\ i \in 1..Len(c)
      BY <1>2, <1>4, <2>1
    <3> QED
      BY <1>4, <1>6, <1>8, <2>1, <3>1
  <2>2. CASE ~(i <= Len(s))
    <3>1. i - Len(s) \in 1..Len(t) /\ i \in 1..Len(c)
      BY <1>2, <1>4, <2>2
    <3> QED
      BY <1>4, <1>6, <1>8, <2>2, <3>1
  <2> QED
    BY <2>1, <2>2
<1>10. d = e
  <2>1. Len(d) = Len(e) /\ \A i \in 1..Len(d) : d[i] = e[i]
    BY <1>4, <1>6, <1>8, <1>9
  <2> QED
    BY <1>6, <1>8, <2>1, SeqEqual
<1> QED
  BY <1>3, <1>5, <1>6, <1>7, <1>10, SumConcat DEF Owed

LEMMA OwedSmall ==
    ASSUME NEW size, NEW f
    PROVE  Owed(size, <<>>) = 0 /\ (Due(size, f) \in Nat => Owed(size, <<f>>) = Due(size, f))
<1>1. Dues(size, <<>>) = <<>>
  BY DEF Dues
<1>2. PICK d : d = Due(size, f)
  OBVIOUS
<1>3. Dues(size, <<f>>) = <<d>>
  BY <1>2 DEF Dues
<1>4. d \in Nat => SumOf(<<d>>) = d
  <2>1. SUFFICES ASSUME d \in Nat PROVE SumOf(<<d>>) = d
    OBVIOUS
  <2>2. <<d>> = Append(<<>>, d) /\ <<>> \in Seq(Nat)
    OBVIOUS
  <2>3. SumOf(Append(<<>>, d)) = SumOf(<<>>) + d
    BY <2>1, <2>2, SumAppend
  <2> QED
    BY <2>1, <2>2, <2>3, SumEmpty
<1> QED
  BY <1>1, <1>2, <1>3, <1>4, SumEmpty DEF Owed

\* The next one is taken from the stack.
LEMMA Popped ==
    ASSUME NEW N, NEW s \in Seq(PlainFrames(N)), s # <<>>, NEW size, NEW fits, NEW heap,
           \A l \in 0..Top0 : size[l] \in [N -> Nat]
    PROVE  LET r == Front(s)
               f == Last(s)
           IN /\ r \in Seq(PlainFrames(N)) /\ f \in PlainFrames(N)
              /\ Owed(size, s) = Owed(size, r) + Due(size, f) /\ Owed(size, r) \in Nat
              /\ Fitting(fits, s) <=>
                    Fitting(fits, r) /\ (~f.leave => f.node \in fits[Top0 - f.depth])
              /\ Apart(s) => Apart(r)
              /\ Chained(heap, s) => Chained(heap, r)
              /\ f.leave /\ Apart(s) => LeavesOf(r) = LeavesOf(s) \ {f.node}
              /\ ~f.leave => LeavesOf(r) = LeavesOf(s)
<1>1. PICK F : F = PlainFrames(N)
  OBVIOUS
<1>2. PICK r, f, n : r = Front(s) /\ f = Last(s) /\ n = Len(s)
  OBVIOUS
<1>3. /\ r \in Seq(F) /\ f \in F /\ s = Append(r, f)
      /\ n \in Nat /\ n >= 1 /\ Len(r) = n - 1 /\ s[n] = f
      /\ \A i \in 1..(n - 1) : r[i] = s[i]
  <2>1. s \in Seq(F)
    BY <1>1
  <2>2. /\ Front(s) \in Seq(F) /\ Last(s) \in F /\ s = Append(Front(s), Last(s))
        /\ Len(s) \in Nat /\ Len(s) >= 1 /\ Len(Front(s)) = Len(s) - 1
        /\ \A i \in 1..(Len(s) - 1) : Front(s)[i] = s[i]
        /\ Last(s) = s[Len(s)]
    BY <2>1, FrontAndLast
  <2> QED
    BY <1>2, <2>2
<1>4. DOMAIN s = 1..n /\ DOMAIN r = 1..(n - 1)
  BY <1>2, <1>3, LenProperties
<1>5. \A i \in DOMAIN r : i \in DOMAIN s /\ r[i] = s[i] /\ i # n /\ i < n
  BY <1>3, <1>4
<1>6. \A i \in DOMAIN s : i = n \/ i \in DOMAIN r
  BY <1>3, <1>4
<1>7. n \in DOMAIN s /\ s[n] = f
  BY <1>3, <1>4
<1>8. f.leave \in BOOLEAN /\ \A i \in DOMAIN r : r[i].leave \in BOOLEAN
  BY <1>1, <1>3, <1>4, FrameFacts, ElementOfSeq
<1>9. Owed(size, s) = Owed(size, r) + Due(size, f) /\ Owed(size, r) \in Nat
  <2>1. <<f>> \in Seq(PlainFrames(N)) /\ r \in Seq(PlainFrames(N)) /\ s = r \o <<f>>
    BY <1>1, <1>3
  <2>2. Owed(size, r \o <<f>>) = Owed(size, r) + Owed(size, <<f>>)
    BY <2>1, OwedConcat
  <2>3. Due(size, f) \in Nat
    BY <1>1, <1>3, DueTyped
  <2>4. Owed(size, <<f>>) = Due(size, f)
    BY <2>3, OwedSmall
  <2>5. Owed(size, r) \in Nat
    BY <2>1, DuesTyped
  <2> QED
    BY <2>1, <2>2, <2>4, <2>5
<1>10. Fitting(fits, s) <=> Fitting(fits, r) /\ (~f.leave => f.node \in fits[Top0 - f.depth])
  BY <1>5, <1>6, <1>7, Zenon DEF Fitting
<1>11. Apart(s) => Apart(r)
  BY <1>5, Zenon DEF Apart
<1>12. Chained(heap, s) => Chained(heap, r)
  <2>1. SUFFICES ASSUME Chained(heap, s), NEW i \in DOMAIN r, NEW j \in DOMAIN r,
                        i < j, r[i].leave, \A k \in (i + 1)..(j - 1) : ~r[k].leave
                 PROVE  Edge(heap, r[i].node, r[j].node)
    BY Zenon DEF Chained
  <2>2. \A k \in (i + 1)..(j - 1) : k \in DOMAIN r
    BY <1>3, <1>4
  <2>3. \A k \in (i + 1)..(j - 1) : ~s[k].leave
    BY <1>5, <2>1, <2>2
  <2>4. i \in DOMAIN s /\ j \in DOMAIN s /\ r[i] = s[i] /\ r[j] = s[j]
    BY <1>5
  <2> QED
    BY <2>1, <2>3, <2>4, Zenon DEF Chained
<1>13. ASSUME f.leave, Apart(s) PROVE LeavesOf(r) = LeavesOf(s) \ {f.node}
  <2>1. ASSUME NEW x \in LeavesOf(r) PROVE x \in LeavesOf(s) \ {f.node}
    <3>1. PICK i \in DOMAIN r : r[i].leave /\ x = r[i].node
      BY Zenon DEF LeavesOf
    <3>2. i \in DOMAIN s /\ s[i].leave /\ x = s[i].node /\ i # n
      BY <1>5, <3>1
    <3>3. x # f.node
      BY <1>7, <1>13, <3>2, Zenon DEF Apart
    <3> QED
      BY <3>2, <3>3, Zenon DEF LeavesOf
  <2>2. ASSUME NEW x \in LeavesOf(s) \ {f.node} PROVE x \in LeavesOf(r)
    <3>1. PICK i \in DOMAIN s : s[i].leave /\ x = s[i].node
      BY <2>2, Zenon DEF LeavesOf
    <3>2. i # n
      BY <1>7, <2>2, <3>1
    <3> QED
      BY <1>5, <1>6, <3>1, <3>2, Zenon DEF LeavesOf
  <2> QED
    BY <2>1, <2>2, Zenon
<1>14. ASSUME ~f.leave PROVE LeavesOf(r) = LeavesOf(s)
  <2>1. ASSUME NEW x \in LeavesOf(r) PROVE x \in LeavesOf(s)
    BY <1>5, Zenon DEF LeavesOf
  <2>2. ASSUME NEW x \in LeavesOf(s) PROVE x \in LeavesOf(r)
    <3>1. PICK i \in DOMAIN s : s[i].leave /\ x = s[i].node
      BY <2>2, Zenon DEF LeavesOf
    <3>2. i # n
      BY <1>7, <1>14, <3>1
    <3> QED
      BY <1>5, <1>6, <3>1, <3>2, Zenon DEF LeavesOf
  <2> QED
    BY <2>1, <2>2, Zenon
<1> QED
  BY <1>1, <1>2, <1>3, <1>9, <1>10, <1>11, <1>12, <1>13, <1>14, Zenon

\* Frames that are no containers to leave are put onto it.
LEMMA Put ==
    ASSUME NEW N, NEW r \in Seq(PlainFrames(N)), NEW c \in Seq(PlainFrames(N)),
           \A i \in DOMAIN c : ~c[i].leave,
           NEW fits, NEW heap
    PROVE  LET t == r \o c
           IN /\ t \in Seq(PlainFrames(N))
              /\ Fitting(fits, t) <=> Fitting(fits, r) /\ Fitting(fits, c)
              /\ LeavesOf(t) = LeavesOf(r)
              /\ Apart(r) => Apart(t)
              /\ LeavesOf(r) = {} => Chained(heap, t)
              /\ Chained(heap, r) /\ r # <<>> /\ Last(r).leave
                    /\ (\A i \in DOMAIN c : Edge(heap, Last(r).node, c[i].node))
                 => Chained(heap, t)
<1>1. PICK F, t, m, n : F = PlainFrames(N) /\ t = r \o c /\ m = Len(r) /\ n = Len(c)
  OBVIOUS
<1>2. /\ t \in Seq(F) /\ m \in Nat /\ n \in Nat /\ Len(t) = m + n
      /\ DOMAIN t = 1..(m + n) /\ DOMAIN r = 1..m /\ DOMAIN c = 1..n
      /\ \A i \in 1..(m + n) : t[i] = IF i <= m THEN r[i] ELSE c[i - m]
  <2>1. r \in Seq(F) /\ c \in Seq(F)
    BY <1>1
  <2>2. /\ t \in Seq(F) /\ Len(t) = Len(r) + Len(c)
        /\ \A i \in 1..Len(r) + Len(c) : t[i] = IF i <= Len(r) THEN r[i] ELSE c[i - Len(r)]
    BY <1>1, <2>1, ConcatProperties
  <2> QED
    BY <1>1, <2>1, <2>2, LenProperties
<1>3. \A i \in DOMAIN r : i \in DOMAIN t /\ t[i] = r[i]
  BY <1>2
<1>4. \A i \in DOMAIN c : m + i \in DOMAIN t /\ t[m + i] = c[i]
  <2>1. SUFFICES ASSUME NEW i \in DOMAIN c PROVE m + i \in DOMAIN t /\ t[m + i] = c[i]
    OBVIOUS
  <2>2. m + i \in 1..(m + n) /\ ~(m + i <= m) /\ (m + i) - m = i
    BY <1>2
  <2> QED
    BY <1>2, <2>2
<1>5. \A i \in DOMAIN t : i \in DOMAIN r \/ \E j \in DOMAIN c : i = m + j /\ t[i] = c[j]
  <2>1. SUFFICES ASSUME NEW i \in DOMAIN t, i \notin DOMAIN r
                 PROVE  \E j \in DOMAIN c : i = m + j /\ t[i] = c[j]
    OBVIOUS
  <2>2. i - m \in 1..n /\ i = m + (i - m) /\ ~(i <= m) /\ i \in 1..(m + n)
    BY <1>2, <2>1
  <2> QED
    BY <1>2, <2>2
<1>6. \A i \in DOMAIN t : t[i].leave => i \in DOMAIN r /\ r[i] = t[i]
  BY <1>3, <1>5, Zenon
<1>7. Fitting(fits, t) <=> Fitting(fits, r) /\ Fitting(fits, c)
  <2>1. Fitting(fits, t) => Fitting(fits, r)
    BY <1>3, Zenon DEF Fitting
  <2>2. Fitting(fits, t) => Fitting(fits, c)
    BY <1>4, Zenon DEF Fitting
  <2>3. Fitting(fits, r) /\ Fitting(fits, c) => Fitting(fits, t)
    BY <1>3, <1>5, Zenon DEF Fitting
  <2> QED
    BY <2>1, <2>2, <2>3, Zenon
<1>8. LeavesOf(t) = LeavesOf(r)
  <2>1. ASSUME NEW x \in LeavesOf(r) PROVE x \in LeavesOf(t)
    BY <1>3, Zenon DEF LeavesOf
  <2>2. ASSUME NEW x \in LeavesOf(t) PROVE x \in LeavesOf(r)
    BY <1>6, Zenon DEF LeavesOf
  <2> QED
    BY <2>1, <2>2, Zenon
<1>9. Apart(r) => Apart(t)
  BY <1>6, Zenon DEF Apart
<1>10. LeavesOf(r) = {} => Chained(heap, t)
  <2>1. LeavesOf(r) = {} => \A i \in DOMAIN t : ~t[i].leave
    BY <1>6, Zenon DEF LeavesOf
  <2> QED
    BY <2>1, Zenon DEF Chained
<1>11. ASSUME Chained(heap, r), r # <<>>, Last(r).leave,
              \A i \in DOMAIN c : Edge(heap, Last(r).node, c[i].node)
       PROVE  Chained(heap, t)
  <2>1. SUFFICES ASSUME NEW i \in DOMAIN t, NEW j \in DOMAIN t,
                        i < j, t[i].leave, \A k \in (i + 1)..(j - 1) : ~t[k].leave
                 PROVE  Edge(heap, t[i].node, t[j].node)
    BY Zenon DEF Chained
  <2>2. i \in DOMAIN r /\ r[i] = t[i]
    BY <1>6, <2>1
  <2>3. CASE j \in DOMAIN r
    <3>1. \A k \in (i + 1)..(j - 1) : k \in DOMAIN r
      BY <1>2, <2>2, <2>3
    <3>2. \A k \in (i + 1)..(j - 1) : ~r[k].leave
      BY <1>3, <2>1, <3>1
    <3> QED
      BY <1>3, <1>11, <2>1, <2>2, <2>3, <3>2, Zenon DEF Chained
  <2>4. CASE j \notin DOMAIN r
    <3>1. PICK q \in DOMAIN c : j = m + q /\ t[j] = c[q]
      BY <1>5, <2>4
    <3>2. m >= 1 /\ m \in DOMAIN r /\ t[m] = r[m] /\ r[m] = Last(r)
      BY <1>1, <1>2, <1>11, <2>2 DEF Last
    <3>3. i = m
      <4>1. SUFFICES ASSUME i # m PROVE FALSE
        OBVIOUS
      <4>2. m \in (i + 1)..(j - 1)
        BY <1>2, <2>2, <3>1, <4>1
      <4> QED
        BY <1>11, <2>1, <3>2, <4>2
    <3> QED
      BY <1>11, <2>2, <3>1, <3>2, <3>3
  <2> QED
    BY <2>3, <2>4
<1> QED
  BY <1>1, <1>2, <1>7, <1>8, <1>9, <1>10, <1>11, Zenon

\* A container to leave takes the place of the visit to it.
LEMMA Entered ==
    ASSUME NEW N, NEW s \in Seq(PlainFrames(N)), s # <<>>, ~Last(s).leave, NEW fits, NEW heap,
           Last(s).node \notin LeavesOf(Front(s))
    PROVE  LET n == Last(s).node
               t == Front(s) \o <<Leaving(n)>>
           IN /\ t \in Seq(PlainFrames(N)) /\ t # <<>> /\ Last(t) = Leaving(n)
              /\ Fitting(fits, t) <=> Fitting(fits, Front(s))
              /\ LeavesOf(t) = LeavesOf(Front(s)) \union {n}
              /\ Apart(Front(s)) => Apart(t)
              /\ Chained(heap, s) => Chained(heap, t)
<1>1. PICK F, r, f, n, m, t : F = PlainFrames(N) /\ r = Front(s) /\ f = Last(s) /\ n = f.node /\ m = Len(s)
                           /\ t = r \o <<Leaving(n)>>
  OBVIOUS
<1>2. /\ r \in Seq(F) /\ f \in F
      /\ m \in Nat /\ m >= 1 /\ Len(r) = m - 1 /\ s[m] = f
      /\ \A i \in 1..(m - 1) : r[i] = s[i]
  <2>1. s \in Seq(F)
    BY <1>1
  <2>2. /\ Front(s) \in Seq(F) /\ Last(s) \in F
        /\ Len(s) \in Nat /\ Len(s) >= 1 /\ Len(Front(s)) = Len(s) - 1
        /\ \A i \in 1..(Len(s) - 1) : Front(s)[i] = s[i]
        /\ Last(s) = s[Len(s)]
    BY <2>1, FrontAndLast
  <2> QED
    BY <1>1, <2>2
<1>3. n \in N /\ Leaving(n) \in F
  BY <1>1, <1>2, FrameFacts DEF PlainFrames
<1>4. PICK l : l = Leaving(n) /\ l.leave = TRUE /\ l.node = n
  <2>1. Leaving(n).leave = TRUE /\ Leaving(n).node = n
    BY DEF Leaving
  <2> QED
    BY <2>1
<1>5. /\ t \in Seq(F) /\ Len(t) = m /\ t[m] = l /\ DOMAIN t = 1..m
      /\ \A i \in 1..(m - 1) : t[i] = r[i] /\ t[i] = s[i]
  BY <1>1, <1>2, <1>3, <1>4
<1>6. DOMAIN r = 1..(m - 1) /\ DOMAIN s = 1..m /\ m \in DOMAIN t
  BY <1>1, <1>2, LenProperties
<1>7. /\ \A i \in DOMAIN r : i \in DOMAIN t /\ t[i] = r[i] /\ i # m
      /\ \A i \in DOMAIN t : i = m \/ i \in DOMAIN r
  BY <1>2, <1>5, <1>6
<1>8. Fitting(fits, t) <=> Fitting(fits, r)
  BY <1>4, <1>5, <1>6, <1>7, Zenon DEF Fitting
<1>9. LeavesOf(t) = LeavesOf(r) \union {n}
  <2>1. ASSUME NEW x \in LeavesOf(t) PROVE x \in LeavesOf(r) \union {n}
    <3>1. PICK i \in DOMAIN t : t[i].leave /\ x = t[i].node
      BY Zenon DEF LeavesOf
    <3> QED
      BY <1>4, <1>5, <1>7, <3>1, Zenon DEF LeavesOf
  <2>2. ASSUME NEW x \in LeavesOf(r) PROVE x \in LeavesOf(t)
    BY <1>7, Zenon DEF LeavesOf
  <2>3. n \in LeavesOf(t)
    BY <1>4, <1>5, <1>6, Zenon DEF LeavesOf
  <2> QED
    BY <2>1, <2>2, <2>3, Zenon
<1>10. ASSUME Apart(r) PROVE Apart(t)
  <2>1. ASSUME NEW i \in DOMAIN r, t[i].leave PROVE t[i].node # n
    <3>1. n \notin LeavesOf(r)
      BY <1>1
    <3>2. r[i].leave /\ t[i].node = r[i].node
      BY <1>7, <2>1
    <3> QED
      BY <3>1, <3>2, Zenon DEF LeavesOf
  <2> QED
    BY ZenonT(60), <1>4, <1>5, <1>7, <1>10, <2>1 DEF Apart
<1>11. ASSUME Chained(heap, s) PROVE Chained(heap, t)
  <2>1. SUFFICES ASSUME NEW i \in DOMAIN t, NEW j \in DOMAIN t,
                        i < j, t[i].leave, \A k \in (i + 1)..(j - 1) : ~t[k].leave
                 PROVE  Edge(heap, t[i].node, t[j].node)
    BY Zenon DEF Chained
  <2>2. i \in 1..(m - 1) /\ t[i] = s[i] /\ i \in DOMAIN s /\ j \in DOMAIN s
    BY <1>2, <1>5, <1>6, <2>1
  <2>3. \A k \in (i + 1)..(j - 1) : k \in 1..(m - 1)
    BY <1>2, <1>5, <2>1, <2>2
  <2>4. \A k \in (i + 1)..(j - 1) : ~s[k].leave
    BY <1>5, <2>1, <2>3
  <2>5. Edge(heap, s[i].node, s[j].node)
    BY <1>11, <2>1, <2>2, <2>4, Zenon DEF Chained
  <2>6. t[j].node = s[j].node
    BY <1>1, <1>2, <1>4, <1>5, <1>7, <1>6
  <2> QED
    BY <2>2, <2>5, <2>6
<1>12. t # <<>> /\ Last(t) = Leaving(n)
  BY <1>2, <1>4, <1>5 DEF Last
<1> QED
  BY <1>1, <1>5, <1>8, <1>9, <1>10, <1>11, <1>12, Zenon

LEMMA ReverseTyped ==
    ASSUME NEW S, NEW s \in Seq(S)
    PROVE  /\ Reverse(s) \in Seq(S) /\ Len(Reverse(s)) = Len(s)
           /\ \A i \in 1..Len(s) : Reverse(s)[i] = s[Len(s) - i + 1]
           /\ \A i \in DOMAIN Reverse(s) : \E j \in DOMAIN s : Reverse(s)[i] = s[j]
           /\ \A j \in DOMAIN s : \E i \in DOMAIN Reverse(s) : Reverse(s)[i] = s[j]
<1>1. Len(s) \in Nat /\ DOMAIN s = 1..Len(s) /\ \A i \in 1..Len(s) : s[i] \in S
  BY LenProperties, ElementOfSeq
<1>2. \A i \in 1..Len(s) : Len(s) - i + 1 \in 1..Len(s) /\ Len(s) - (Len(s) - i + 1) + 1 = i
  BY <1>1
<1>3. PICK r : r = [i \in 1..Len(s) |-> s[(Len(s) - i) + 1]]
  OBVIOUS
<1>4. /\ r \in Seq(S) /\ Len(r) = Len(s) /\ DOMAIN r = 1..Len(s)
      /\ \A i \in 1..Len(s) : r[i] = s[Len(s) - i + 1]
  BY <1>1, <1>2, <1>3
<1>5. \A j \in DOMAIN s : r[Len(s) - j + 1] = s[j] /\ Len(s) - j + 1 \in DOMAIN r
  BY <1>1, <1>2, <1>4
<1>6. r = Reverse(s)
  BY <1>3 DEF Reverse
<1>7. \A i \in DOMAIN r : \E j \in DOMAIN s : r[i] = s[j]
  BY <1>1, <1>2, <1>4
<1> QED
  BY <1>4, <1>5, <1>6, <1>7, Zenon

LEMMA OwedReverse ==
    ASSUME NEW N, NEW size, \A l \in 0..Top0 : size[l] \in [N -> Nat],
           NEW s \in Seq(PlainFrames(N))
    PROVE  Owed(size, Reverse(s)) = Owed(size, s)
<1>1. PICK F, r : F = PlainFrames(N) /\ r = Reverse(s)
  OBVIOUS
<1>2. /\ r \in Seq(F) /\ Len(r) = Len(s) /\ \A i \in 1..Len(s) : r[i] = s[Len(s) - i + 1]
      /\ s \in Seq(F) /\ Len(s) \in Nat /\ DOMAIN s = 1..Len(s) /\ DOMAIN r = 1..Len(s)
  <2>1. s \in Seq(F)
    BY <1>1
  <2>2. /\ Reverse(s) \in Seq(F) /\ Len(Reverse(s)) = Len(s)
        /\ \A i \in 1..Len(s) : Reverse(s)[i] = s[Len(s) - i + 1]
    BY <2>1, ReverseTyped
  <2>3. r \in Seq(F)
    BY <1>1, <2>2
  <2>4. DOMAIN s = 1..Len(s) /\ Len(s) \in Nat /\ DOMAIN r = 1..Len(r)
    BY <2>1, <2>3, LenProperties
  <2> QED
    BY <1>1, <2>1, <2>2, <2>3, <2>4
<1>3. PICK d, e, g : d = Dues(size, s) /\ e = Dues(size, r) /\ g = Reverse(d)
  OBVIOUS
<1>4. /\ d \in Seq(Nat) /\ Len(d) = Len(s) /\ \A i \in 1..Len(s) : d[i] = Due(size, s[i])
      /\ e \in Seq(Nat) /\ Len(e) = Len(s) /\ \A i \in 1..Len(s) : e[i] = Due(size, r[i])
  <2>1. d \in Seq(Nat) /\ Len(d) = Len(s)
    BY <1>3, DuesTyped
  <2>2. e \in Seq(Nat) /\ Len(e) = Len(s)
    <3>1. r \in Seq(PlainFrames(N))
      BY <1>1, <1>2
    <3>2. Dues(size, r) \in Seq(Nat) /\ Len(Dues(size, r)) = Len(r)
      BY <3>1, DuesTyped
    <3> QED
      BY <1>2, <1>3, <3>2
  <2> QED
    BY <1>2, <1>3, <2>1, <2>2 DEF Dues
<1>5. g \in Seq(Nat) /\ Len(g) = Len(s) /\ \A i \in 1..Len(s) : g[i] = d[Len(s) - i + 1]
  <2>1. /\ Reverse(d) \in Seq(Nat) /\ Len(Reverse(d)) = Len(d)
        /\ \A i \in 1..Len(d) : Reverse(d)[i] = d[Len(d) - i + 1]
    BY <1>4, ReverseTyped
  <2> QED
    BY <1>3, <1>4, <2>1
<1>6. ASSUME NEW i \in 1..Len(s) PROVE e[i] = g[i]
  <2>1. Len(s) - i + 1 \in 1..Len(s)
    BY <1>2
  <2> QED
    BY <1>2, <1>4, <1>5, <2>1
<1>7. e = g
  BY <1>4, <1>5, <1>6, SeqEqual
<1> QED
  BY <1>1, <1>3, <1>4, <1>7, SumReverse DEF Owed

\* What is put onto the stack for the items of an object counts what the object
\* counts but itself, and fits when the object does.
LEMMA ChildrenOf ==
    ASSUME job \in Jobs, NEW f \in PlainFrames(Nodes), ~f.leave, f.depth <= MaxDepth,
           NEW c, c = Children(f) \/ c = Reverse(Children(f))
    PROVE  /\ c \in Seq(PlainFrames(Nodes)) /\ \A i \in DOMAIN c : ~c[i].leave
           /\ Size[Top0 - f.depth][f.node] = Cost(f.node) + Owed(Size, c)
           /\ JsonObject(f.node) => (Fitting(Fits, c) <=> f.node \in Fits[Top0 - f.depth])
           /\ \A i \in DOMAIN c : Edge(job.heap, f.node, c[i].node)
           /\ Obj(f.node).type \notin Containers => c = <<>>
<1>1. PICK n, d, l : n = f.node /\ d = f.depth /\ l = Top0 - f.depth
  OBVIOUS
<1>2. /\ n \in Nodes /\ d \in 0..MaxDepth /\ l \in 1..Top0 /\ l - 1 = Top0 - (d + 1)
      /\ d + 1 \in 0..Top0 /\ l - 1 \in 0..Top0 /\ l \in 0..Top0
  <2>1. f.node \in Nodes /\ f.depth \in 0..Top0
    BY FrameFacts
  <2> QED
    BY <1>1, <2>1, LimitsAssumption DEF Top0
<1>3. PICK items, b, k : items = Obj(n).items /\ b = Below(n) /\ k = Children(f)
  OBVIOUS
<1>4. /\ b \in Seq(Nodes) /\ Len(b) \in Nat /\ DOMAIN b = 1..Len(b) /\ DOMAIN items = 1..Len(b)
      /\ \A i \in 1..Len(b) : b[i] \in Nodes /\ b[i] = items[i].to
      /\ Obj(n).type \notin Containers => b = <<>>
  <2>1. b \in Seq(Nodes) /\ DOMAIN b = DOMAIN items /\ (Obj(n).type \notin Containers => b = <<>>)
    BY <1>2, <1>3, HeapTyped
  <2>2. Len(b) \in Nat /\ DOMAIN b = 1..Len(b) /\ \A i \in 1..Len(b) : b[i] \in Nodes
    BY <2>1, LenProperties, ElementOfSeq
  <2>3. \A i \in DOMAIN items : b[i] = items[i].to
    BY <1>3 DEF Below
  <2> QED
    BY <2>1, <2>2, <2>3
<1>5. PICK F, N : F = PlainFrames(Nodes) /\ N = Nodes
  OBVIOUS
<1>6. ASSUME NEW i \in 1..Len(b)
      PROVE  Visit(b[i], NoKey, <<>>, <<>>, d + 1) \in F
  BY <1>2, <1>4, <1>5 DEF PlainFrames
<1>7. k = [i \in 1..Len(b) |-> Visit(b[i], NoKey, <<>>, <<>>, d + 1)]
  <2>1. k = [i \in DOMAIN items |-> Visit(items[i].to, NoKey, <<>>, <<>>, d + 1)]
    BY <1>1, <1>3 DEF Children
  <2> QED
    BY <1>4, <2>1
<1>8. k \in Seq(F) /\ Len(k) = Len(b) /\ DOMAIN k = 1..Len(b)
      /\ \A i \in 1..Len(b) : k[i] = Visit(b[i], NoKey, <<>>, <<>>, d + 1)
  <2>1. k \in [1..Len(b) -> F]
    BY <1>6, <1>7
  <2> QED
    BY <1>4, <1>7, <2>1
<1>9. \A i \in 1..Len(b) : k[i].leave = FALSE /\ k[i].node = b[i] /\ k[i].depth = d + 1
  BY <1>8 DEF Visit
<1>10. Dues(Size, k) = Costs(Size[l - 1], n)
  <2>1. \A i \in 1..Len(b) : Due(Size, k[i]) = Size[l - 1][b[i]]
    BY <1>2, <1>9 DEF Due
  <2>2. Dues(Size, k) = [i \in 1..Len(b) |-> Due(Size, k[i])]
    BY <1>8 DEF Dues
  <2>3. Costs(Size[l - 1], n) = [i \in 1..Len(b) |-> Size[l - 1][b[i]]]
    BY <1>3, <1>4 DEF Costs
  <2> QED
    BY <2>1, <2>2, <2>3
<1>11. Size[l][n] = Cost(n) + Owed(Size, k)
  <2>1. Size[l] = SizeAbove(Size[l - 1])
    BY <1>2, SizeIs
  <2>2. Size[l][n] = Cost(n) + SumOf(Costs(Size[l - 1], n))
    BY <1>2, <2>1, Zenon DEF SizeAbove, Nodes
  <2> QED
    BY <1>10, <2>2 DEF Owed
<1>12. \A m \in 0..Top0 : Size[m] \in [Nodes -> Nat]
  BY SizeIs
<1>13. Owed(Size, c) = Owed(Size, k)
  <2>1. Owed(Size, Reverse(k)) = Owed(Size, k)
    BY <1>5, <1>8, <1>12, OwedReverse
  <2> QED
    BY <1>3, <2>1
<1>14. c \in Seq(F) /\ \A i \in DOMAIN c : \E j \in 1..Len(b) : c[i] = k[j]
  <2>1. Reverse(k) \in Seq(F) /\ \A i \in DOMAIN Reverse(k) : \E j \in DOMAIN k : Reverse(k)[i] = k[j]
    BY <1>8, ReverseTyped
  <2> QED
    BY <1>3, <1>8, <2>1
<1>15. \A j \in 1..Len(b) : \E i \in DOMAIN c : c[i] = k[j]
  <2>1. \A j \in DOMAIN k : \E i \in DOMAIN Reverse(k) : Reverse(k)[i] = k[j]
    BY <1>8, ReverseTyped
  <2> QED
    BY <1>3, <1>8, <2>1
<1>16. Fitting(Fits, c) <=> \A j \in 1..Len(b) : b[j] \in Fits[l - 1]
  <2>1. \A i \in DOMAIN c : \E j \in 1..Len(b) : c[i].leave = FALSE /\ c[i].node = b[j] /\ c[i].depth = d + 1
    BY <1>9, <1>14, Zenon
  <2>2. \A j \in 1..Len(b) : \E i \in DOMAIN c : c[i].leave = FALSE /\ c[i].node = b[j] /\ c[i].depth = d + 1
    BY <1>9, <1>15, Zenon
  <2>3. l - 1 = Top0 - (d + 1)
    BY <1>2
  <2> QED
    BY <2>1, <2>2, <2>3, Zenon DEF Fitting
<1>17. ASSUME JsonObject(n) PROVE n \in Fits[l] <=> \A j \in 1..Len(b) : b[j] \in Fits[l - 1]
  <2>1. Fits[l] = FitsBelow(Fits[l - 1])
    BY <1>2, FitsIs
  <2>2. n \in Fits[l] <=> Range(Below(n)) \subseteq Fits[l - 1]
    BY <1>2, <1>17, <2>1, Zenon DEF FitsBelow, Nodes
  <2>3. Range(b) = {b[j] : j \in 1..Len(b)}
    BY <1>4 DEF Range
  <2> QED
    BY <1>3, <2>2, <2>3
<1>18. \A i \in DOMAIN c : Edge(job.heap, n, c[i].node)
  <2>1. \A j \in 1..Len(b) : Edge(job.heap, n, b[j])
    BY <1>3, <1>4 DEF Edge, Obj
  <2> QED
    BY <1>9, <1>14, <2>1
<1>19. Obj(n).type \notin Containers => c = <<>>
  <2>1. SUFFICES ASSUME b = <<>> PROVE c = <<>>
    BY <1>4
  <2>2. Len(b) = 0
    BY <2>1
  <2>3. Len(c) = 0
    BY ZenonT(60), <1>3, <1>8, <2>2, ReverseTyped
  <2> QED
    BY <1>14, <2>3, EmptySeq
<1>20. \A i \in DOMAIN c : ~c[i].leave
  BY <1>9, <1>14
<1> QED
  BY <1>1, <1>5, <1>11, <1>13, <1>14, <1>16, <1>17, <1>18, <1>19, <1>20, Zenon

\* Objects each of which holds another of them are at no level.
LEMMA CyclesFitNowhere ==
    ASSUME job \in Jobs, NEW S, S \subseteq Nodes,
           \A x \in S : \E y \in S : Edge(job.heap, x, y)
    PROVE  \A l \in 0..Top0 : S \intersect Fits[l] = {}
<1> DEFINE Good == {l \in Nat : l <= Top0 => S \intersect Fits[l] = {}}
<1>1. 0 \in Good
  BY FitsIs
<1>2. ASSUME NEW l \in Nat, l \in Good PROVE l + 1 \in Good
  <2>1. SUFFICES ASSUME l + 1 <= Top0, NEW x \in S, x \in Fits[l + 1] PROVE FALSE
    OBVIOUS
  <2>2. l + 1 \in 1..Top0 /\ (l + 1) - 1 = l /\ S \intersect Fits[l] = {}
    BY <1>2, <2>1, LimitsAssumption DEF Top0
  <2>3. Fits[l + 1] = FitsBelow(Fits[l])
    BY <2>2, FitsIs
  <2>4. Range(Below(x)) \subseteq Fits[l]
    BY <2>1, <2>3 DEF FitsBelow
  <2>5. PICK y \in S : Edge(job.heap, x, y)
    OBVIOUS
  <2>6. PICK i \in DOMAIN Obj(x).items : Obj(x).items[i].to = y
    BY <2>5 DEF Edge, Obj
  <2>7. y \in Range(Below(x))
    BY <2>6 DEF Below, Range
  <2> QED
    BY <2>2, <2>4, <2>7
<1>3. Nat \subseteq Good
  BY <1>1, <1>2, Counting
<1>4. Top0 \in Nat
  BY LimitsAssumption DEF Top0
<1> QED
  BY <1>3, <1>4
-----------------------------------------------------------------------------
(* The walks over JSON.                                                       *)

Allowed(fits, size) == 1 \in fits[Top0] /\ size[Top0][1] <= MaxNodes

\* The count and what is owed to it make the size of the document; it fits when
\* what is on the stack does; and `active' is the containers to be left, each an
\* item of the one that is left after it.
WalkState(heap, N, fits, size, who, s, n, a, v) ==
    /\ s \in Seq(PlainFrames(N)) /\ n \in Nat
    /\ a = LeavesOf(s) /\ Apart(s) /\ Chained(heap, s)
    /\ who = "script" => a = {}
    /\ v = "none" => /\ n <= MaxNodes /\ n + Owed(size, s) = size[Top0][1]
                     /\ 1 \in fits[Top0] <=> Fitting(fits, s)
    /\ v = "accepted" => Allowed(fits, size)
    /\ v = "raised" => ~Allowed(fits, size)

Json == {"schema", "script"}

WalkInv ==
    /\ job \in Jobs /\ verdict \in {"none", "accepted", "raised"}
    /\ job.who \in Json =>
          WalkState(job.heap, Nodes, Fits, Size, job.who, stack, nodes, active, verdict)

LEMMA SameTables ==
    ASSUME UNCHANGED job
    PROVE  Fits' = Fits /\ Size' = Size /\ Nodes' = Nodes
<1>1. Fits' = Fits
  BY DEF Fits, Below, Obj, JsonObject
<1>2. Size' = Size
  BY DEF Size, Below, Obj, Cost, SumOf
<1> QED
  BY <1>1, <1>2 DEF Nodes

LEMMA WalkStarts == WalkInit => WalkInv
<1>1. SUFFICES ASSUME WalkInit, job.who \in Json
               PROVE  WalkState(job.heap, Nodes, Fits, Size, job.who, stack, nodes, active, verdict)
  BY DEF WalkInit, WalkInv
<1>2. job \in Jobs /\ job.who # "pattern"
  BY <1>1 DEF WalkInit, Json
<1>3. PICK f : f = Visit(1, NoKey, <<>>, <<>>, 0)
  OBVIOUS
<1>4. f.leave = FALSE /\ f.node = 1 /\ f.depth = 0 /\ stack = <<f>>
  BY <1>1, <1>3 DEF Visit, WalkInit
<1>5. Top0 \in Nat /\ Top0 - 0 = Top0 /\ 1 \in Nodes
  BY <1>2, HeapTyped, LimitsAssumption DEF Top0
<1>6. f \in PlainFrames(Nodes)
  BY <1>3, <1>5 DEF PlainFrames
<1>7. \A l \in 0..Top0 : Size[l] \in [Nodes -> Nat]
  BY <1>2, SizeIs
<1>8. Owed(Size, <<f>>) = Size[Top0][1]
  <2>1. Due(Size, f) = Size[Top0][1]
    BY <1>4, <1>5 DEF Due
  <2>2. Due(Size, f) \in Nat
    BY <1>6, <1>7, DueTyped
  <2>3. Owed(Size, <<f>>) = Due(Size, f)
    BY <2>2, OwedSmall
  <2> QED
    BY <2>1, <2>3
<1>9. Size[Top0][1] \in Nat
  BY <1>5, <1>7
<1>10. \A i \in DOMAIN <<f>> : i = 1 /\ <<f>>[i] = f
  OBVIOUS
<1>11. LeavesOf(<<f>>) = {}
  BY <1>4, <1>10 DEF LeavesOf
<1>12. Apart(<<f>>) /\ Chained(job.heap, <<f>>)
  BY <1>4, <1>10, Zenon DEF Apart, Chained
<1>13. Fitting(Fits, <<f>>) <=> 1 \in Fits[Top0]
  <2>1. 1 \in DOMAIN <<f>>
    OBVIOUS
  <2> QED
    BY <1>4, <1>5, <1>10, <2>1, Zenon DEF Fitting
<1>14. <<f>> \in Seq(PlainFrames(Nodes))
  BY <1>6
<1>15. nodes = 0 /\ 0 + Size[Top0][1] = Size[Top0][1] /\ 0 <= MaxNodes /\ 0 \in Nat
  BY <1>1, <1>9, LimitsAssumption DEF WalkInit
<1>16. active = {} /\ verdict = "none"
  BY <1>1 DEF WalkInit
<1> QED
  BY <1>4, <1>8, <1>11, <1>12, <1>13, <1>14, <1>15, <1>16 DEF WalkState

\* What a step has to show.
LEMMA WalkGoesOn ==
    ASSUME WalkInv, UNCHANGED job, job.who \in Json, verdict' \in {"none", "accepted", "raised"},
           NEW s, NEW n, NEW a, NEW v, s = stack', n = nodes', a = active', v = verdict',
           WalkState(job.heap, Nodes, Fits, Size, job.who, s, n, a, v)
    PROVE  WalkInv'
<1>1. Fits' = Fits /\ Size' = Size /\ Nodes' = Nodes
  BY SameTables
<1>2. (WalkState(job.heap, Nodes, Fits, Size, job.who, stack, nodes, active, verdict))'
  BY <1>1, Zenon
<1> QED
  BY <1>2 DEF WalkInv

\* A walk that raises leaves everything else alone.
LEMMA Raises ==
    ASSUME WalkInv, job.who \in Json, verdict = "none", Raise, ~Allowed(Fits, Size)
    PROVE  WalkInv'
<1>1. UNCHANGED <<job, stack, nodes, active>> /\ verdict' = "raised"
  BY DEF Raise
<1>2. WalkState(job.heap, Nodes, Fits, Size, job.who, stack, nodes, active, "none")
  BY DEF WalkInv
<1>3. WalkState(job.heap, Nodes, Fits, Size, job.who, stack, nodes, active, "raised")
  BY <1>2, Zenon DEF WalkState
<1>4. PICK s, n, a, v : s = stack /\ n = nodes /\ a = active /\ v = "raised"
  OBVIOUS
<1>5. WalkState(job.heap, Nodes, Fits, Size, job.who, s, n, a, v)
  BY <1>3, <1>4, Zenon
<1>6. s = stack' /\ n = nodes' /\ a = active' /\ v = verdict' /\ UNCHANGED job
  BY <1>1, <1>4
<1>7. verdict' \in {"none", "accepted", "raised"}
  BY <1>1
<1> QED
  BY <1>5, <1>6, <1>7, WalkGoesOn

\* The state of a walk that goes on, with the frame that is on top.
LEMMA WalkTop ==
    ASSUME WalkInv, job.who \in Json, Running({job.who})
    PROVE  /\ verdict = "none" /\ stack # <<>> /\ job \in Jobs
           /\ \A l \in 0..Top0 : Size[l] \in [Nodes -> Nat]
           /\ stack \in Seq(PlainFrames(Nodes)) /\ Top \in PlainFrames(Nodes)
           /\ Front(stack) \in Seq(PlainFrames(Nodes))
           /\ nodes \in Nat /\ nodes <= MaxNodes
           /\ nodes + Owed(Size, Front(stack)) + Due(Size, Top) = Size[Top0][1]
           /\ Owed(Size, Front(stack)) \in Nat /\ Due(Size, Top) \in Nat
           /\ 1 \in Fits[Top0] <=>
                 /\ Fitting(Fits, Front(stack))
                 /\ ~Top.leave => Top.node \in Fits[Top0 - Top.depth]
           /\ Apart(Front(stack)) /\ Chained(job.heap, Front(stack)) /\ Chained(job.heap, stack)
           /\ active = LeavesOf(stack) /\ (job.who = "script" => active = {})
           /\ Top.leave => LeavesOf(Front(stack)) = active \ {Top.node}
           /\ ~Top.leave => LeavesOf(Front(stack)) = active
<1>1. verdict = "none" /\ stack # <<>> /\ job \in Jobs
  BY DEF Running, WalkInv
<1>2. \A l \in 0..Top0 : Size[l] \in [Nodes -> Nat]
  BY <1>1, SizeIs
<1>3. WalkState(job.heap, Nodes, Fits, Size, job.who, stack, nodes, active, "none")
  BY <1>1 DEF WalkInv
<1>4. PICK N, s, heap, fits, size : N = Nodes /\ s = stack /\ heap = job.heap /\ fits = Fits /\ size = Size
  OBVIOUS
<1>5. s \in Seq(PlainFrames(N)) /\ s # <<>> /\ \A l \in 0..Top0 : size[l] \in [N -> Nat]
  BY <1>1, <1>2, <1>3, <1>4 DEF WalkState
<1>6. /\ Front(s) \in Seq(PlainFrames(N)) /\ Last(s) \in PlainFrames(N)
      /\ Owed(size, s) = Owed(size, Front(s)) + Due(size, Last(s)) /\ Owed(size, Front(s)) \in Nat
      /\ Fitting(fits, s) <=>
            Fitting(fits, Front(s)) /\ (~Last(s).leave => Last(s).node \in fits[Top0 - Last(s).depth])
      /\ Apart(s) => Apart(Front(s))
      /\ Chained(heap, s) => Chained(heap, Front(s))
      /\ Last(s).leave /\ Apart(s) => LeavesOf(Front(s)) = LeavesOf(s) \ {Last(s).node}
      /\ ~Last(s).leave => LeavesOf(Front(s)) = LeavesOf(s)
  BY <1>5, Popped
<1>7. Due(size, Last(s)) \in Nat
  BY <1>5, <1>6, DueTyped
<1>8. /\ nodes \in Nat /\ nodes <= MaxNodes
      /\ nodes + Owed(size, s) = size[Top0][1]
      /\ 1 \in fits[Top0] <=> Fitting(fits, s)
      /\ active = LeavesOf(s) /\ Apart(s) /\ Chained(heap, s)
      /\ job.who = "script" => active = {}
  BY <1>3, <1>4, Zenon DEF WalkState
<1>9. PICK x, y \in Nat : x = Owed(size, Front(s)) /\ y = Due(size, Last(s))
  BY <1>6, <1>7
<1>10. Owed(size, s) = x + y
  BY <1>6, <1>9
<1>11. nodes + x + y = size[Top0][1]
  BY <1>8, <1>9, <1>10
<1> QED
  BY <1>1, <1>2, <1>4, <1>5, <1>6, <1>7, <1>8, <1>9, <1>11, Zenon DEF Top

\* What fits is of JSON and not too deep.
LEMMA FittingIs ==
    ASSUME job \in Jobs, NEW f \in PlainFrames(Nodes), ~f.leave, f.node \in Fits[Top0 - f.depth]
    PROVE  f.depth <= MaxDepth /\ JsonObject(f.node)
<1>1. f.depth \in 0..Top0 /\ Top0 \in Nat
  BY FrameFacts, LimitsAssumption DEF Top0
<1>2. CASE f.depth = Top0
  <2>1. Top0 - f.depth = 0
    BY <1>1, <1>2
  <2> QED
    BY <2>1, FitsIs
<1>3. CASE f.depth # Top0
  <2>1. Top0 - f.depth \in 1..Top0 /\ f.depth <= MaxDepth
    BY <1>1, <1>3, LimitsAssumption DEF Top0
  <2>2. PICK l \in 1..Top0 : l = Top0 - f.depth
    BY <2>1
  <2>3. Fits[l] = FitsBelow(Fits[l - 1])
    BY FitsIs
  <2>4. JsonObject(f.node)
    BY <2>2, <2>3, Zenon DEF FitsBelow
  <2> QED
    BY <2>1, <2>4
<1> QED
  BY <1>2, <1>3

\* When what is visited is being visited, there is a cycle.
LEMMA ActiveAgain ==
    ASSUME NEW N, NEW s \in Seq(PlainFrames(N)), s # <<>>, NEW heap, Chained(heap, s),
           ~Last(s).leave, Last(s).node \in LeavesOf(s)
    PROVE  LeavesOf(s) \subseteq N /\ \A x \in LeavesOf(s) : \E y \in LeavesOf(s) : Edge(heap, x, y)
<1>1. PICK F, f, m : F = PlainFrames(N) /\ f = Last(s) /\ m = Len(s)
  OBVIOUS
<1>2. m \in Nat /\ m >= 1 /\ s[m] = f /\ DOMAIN s = 1..m /\ \A i \in 1..m : s[i] \in F
  <2>1. s \in Seq(F)
    BY <1>1
  <2>2. Len(s) \in Nat /\ Len(s) >= 1 /\ Last(s) = s[Len(s)]
    BY <2>1, FrontAndLast
  <2> QED
    BY <1>1, <2>1, <2>2, LenProperties, ElementOfSeq
<1>3. LeavesOf(s) \subseteq N
  <2>1. \A i \in DOMAIN s : s[i].node \in N
    BY <1>1, <1>2, FrameFacts
  <2> QED
    BY <2>1, Zenon DEF LeavesOf
<1>4. ASSUME NEW x \in LeavesOf(s) PROVE \E y \in LeavesOf(s) : Edge(heap, x, y)
  <2>1. PICK i \in DOMAIN s : s[i].leave /\ s[i].node = x
    BY Zenon DEF LeavesOf
  <2>2. i # m /\ i < m
    BY <1>1, <1>2, <2>1
  <2> DEFINE Next0 == {j \in (i + 1)..m : s[j].leave \/ j = m}
  <2>3. Next0 \subseteq Nat /\ m \in Next0
    BY <1>2, <2>2
  <2>4. PICK j \in Next0 : \A k \in Next0 : j <= k
    <3>1. Next0 # {}
      BY <2>3
    <3> QED
      BY <2>3, <3>1, LeastNumber
  <2>5. j \in DOMAIN s /\ i < j
    BY <1>2, <2>4
  <2>6. ASSUME NEW k \in (i + 1)..(j - 1) PROVE ~s[k].leave
    <3>1. k \in (i + 1)..m /\ ~(j <= k)
      BY <1>2, <2>4
    <3> QED
      BY <2>4, <3>1
  <2>7. Edge(heap, x, s[j].node)
    <3>1. \A k \in (i + 1)..(j - 1) : ~s[k].leave
      BY <2>6
    <3> QED
      BY <2>1, <2>5, <3>1, Zenon DEF Chained
  <2>8. s[j].node \in LeavesOf(s)
    <3>1. CASE j = m
      BY <1>1, <1>2, <3>1
    <3>2. CASE s[j].leave
      BY <2>5, <3>2, Zenon DEF LeavesOf
    <3> QED
      BY <2>4, <3>1, <3>2
  <2> QED
    BY <2>7, <2>8
<1> QED
  BY <1>3, <1>4

LEMMA LeaveWalks ==
    ASSUME WalkInv, job.who \in Json, LeaveContainer
    PROVE  WalkInv'
<1>1. Running({job.who}) /\ Top.leave /\ job.who = "schema"
  BY DEF LeaveContainer, Running
<1>2. PICK x \in Nat : x = Owed(Size, Front(stack))
  BY <1>1, WalkTop
<1>3. Due(Size, Top) = 1
  BY <1>1 DEF Due
<1>4. /\ verdict = "none" /\ nodes \in Nat /\ nodes <= MaxNodes /\ nodes + x + 1 = Size[Top0][1]
      /\ Front(stack) \in Seq(PlainFrames(Nodes))
      /\ 1 \in Fits[Top0] <=> Fitting(Fits, Front(stack))
      /\ Apart(Front(stack)) /\ Chained(job.heap, Front(stack))
      /\ LeavesOf(Front(stack)) = active \ {Top.node}
  BY <1>1, <1>2, <1>3, WalkTop
<1>5. CASE nodes + 1 > MaxNodes
  <2>1. ~(Size[Top0][1] <= MaxNodes)
    BY <1>2, <1>4, <1>5, LimitsAssumption
  <2>2. Raise
    BY <1>5 DEF LeaveContainer
  <2> QED
    BY <1>4, <2>1, <2>2, Raises DEF Allowed
<1>6. CASE ~(nodes + 1 > MaxNodes)
  <2>1. /\ nodes' = nodes + 1 /\ active' = active \ {Top.node} /\ stack' = Front(stack)
        /\ UNCHANGED job /\ verdict' = "none"
    BY <1>4, <1>6, Zenon DEF LeaveContainer
  <2>2. PICK s, n, a, v : s = Front(stack) /\ n = nodes + 1 /\ a = active \ {Top.node} /\ v = "none"
    OBVIOUS
  <2>3. n \in Nat /\ n <= MaxNodes /\ n + Owed(Size, s) = Size[Top0][1]
    BY <1>2, <1>4, <1>6, <2>2, LimitsAssumption
  <2>4. WalkState(job.heap, Nodes, Fits, Size, job.who, s, n, a, v)
    BY <1>1, <1>4, <2>2, <2>3 DEF WalkState
  <2>5. s = stack' /\ n = nodes' /\ a = active' /\ v = verdict' /\ verdict' \in {"none", "accepted", "raised"}
    BY <2>1, <2>2
  <2> QED
    BY <2>1, <2>4, <2>5, WalkGoesOn
<1> QED
  BY <1>5, <1>6

\* What a visit of a walk raises for is not allowed.
LEMMA RaisesRightly ==
    ASSUME WalkInv, job.who \in Json, Running({job.who}), ~Top.leave, NEW cost \in Nat, cost <= Cost(Top.node),
           \/ nodes + cost > MaxNodes \/ Top.depth > MaxDepth
           \/ ~JsonObject(Top.node) \/ Top.node \in active
    PROVE  ~Allowed(Fits, Size)
<1>1. SUFFICES ASSUME 1 \in Fits[Top0], Size[Top0][1] <= MaxNodes PROVE FALSE
  BY DEF Allowed
<1>2. /\ job \in Jobs /\ Top \in PlainFrames(Nodes) /\ stack \in Seq(PlainFrames(Nodes)) /\ stack # <<>>
      /\ Top.node \in Fits[Top0 - Top.depth] /\ active = LeavesOf(stack) /\ Chained(job.heap, stack)
  BY <1>1, WalkTop
<1>3. Top.depth <= MaxDepth /\ JsonObject(Top.node)
  BY <1>2, FittingIs
<1>4. Top.node \notin active
  <2>1. SUFFICES ASSUME Top.node \in active PROVE FALSE
    OBVIOUS
  <2>2. active \subseteq Nodes /\ \A x \in active : \E y \in active : Edge(job.heap, x, y)
    BY <1>2, <2>1, ActiveAgain DEF Top
  <2>3. \A l \in 0..Top0 : active \intersect Fits[l] = {}
    BY <1>2, <2>2, CyclesFitNowhere
  <2>4. Top.depth \in 0..Top0 /\ Top0 \in Nat
    BY <1>2, FrameFacts, LimitsAssumption DEF Top0
  <2>5. Top0 - Top.depth \in 0..Top0
    BY <2>4
  <2> QED
    BY <1>2, <2>1, <2>3, <2>5
<1>5. nodes + cost > MaxNodes
  <2>1. Top.depth \in 0..Top0 /\ Top0 \in Nat
    BY <1>2, FrameFacts, LimitsAssumption DEF Top0
  <2>2. ~(Top.depth > MaxDepth)
    BY <1>3, <2>1, LimitsAssumption
  <2> QED
    BY <1>3, <1>4, <2>2, Zenon
<1>6. PICK x \in Nat, y \in Nat : x = Owed(Size, Front(stack)) /\ y = Due(Size, Top) /\ nodes + x + y = Size[Top0][1]
  BY WalkTop
<1>7. PICK c : c = Children(Top)
  OBVIOUS
<1>8. c \in Seq(PlainFrames(Nodes)) /\ Size[Top0 - Top.depth][Top.node] = Cost(Top.node) + Owed(Size, c)
  BY <1>2, <1>3, <1>7, ChildrenOf
<1>9. Owed(Size, c) \in Nat
  BY <1>2, <1>8, WalkTop, DuesTyped
<1>10. y = Cost(Top.node) + Owed(Size, c)
  BY <1>6, <1>8 DEF Due
<1>11. Cost(Top.node) \in {1, 2}
  BY DEF Cost
<1>12. nodes \in Nat
  BY WalkTop
<1> QED
  BY <1>1, <1>5, <1>6, <1>9, <1>10, <1>11, <1>12, LimitsAssumption

LEMMA ValidateWalks ==
    ASSUME WalkInv, job.who \in Json, ValidateNode
    PROVE  WalkInv'
<1>1. Running({job.who}) /\ ~Top.leave /\ job.who = "schema"
  BY DEF ValidateNode, Running
<1> DEFINE Refused == \/ nodes + 1 > MaxNodes \/ Top.depth > MaxDepth
                      \/ ~JsonObject(Top.node) \/ Top.node \in active
<1>2. PICK x \in Nat, y \in Nat : x = Owed(Size, Front(stack)) /\ y = Due(Size, Top)
  BY <1>1, WalkTop
<1>3. /\ verdict = "none" /\ stack # <<>> /\ job \in Jobs /\ \A l \in 0..Top0 : Size[l] \in [Nodes -> Nat]
      /\ stack \in Seq(PlainFrames(Nodes)) /\ Top \in PlainFrames(Nodes)
      /\ Front(stack) \in Seq(PlainFrames(Nodes))
      /\ nodes \in Nat /\ nodes <= MaxNodes /\ nodes + x + y = Size[Top0][1]
      /\ 1 \in Fits[Top0] <=> Fitting(Fits, Front(stack)) /\ Top.node \in Fits[Top0 - Top.depth]
      /\ Apart(Front(stack)) /\ Chained(job.heap, Front(stack)) /\ Chained(job.heap, stack)
      /\ LeavesOf(Front(stack)) = active
  BY <1>1, <1>2, WalkTop
<1>4. CASE Refused
  <2>1. Raise
    BY <1>4 DEF ValidateNode
  <2>2. 1 \in Nat /\ 1 <= Cost(Top.node)
    BY DEF Cost
  <2>3. ~Allowed(Fits, Size)
    BY <1>1, <1>4, <2>2, RaisesRightly
  <2> QED
    BY <1>3, <2>1, <2>3, Raises
<1>5. CASE ~Refused
  <2>1. /\ nodes' = nodes + 1 /\ UNCHANGED job /\ verdict' = "none"
        /\ IF Obj(Top.node).type \in Containers
           THEN /\ active' = active \union {Top.node}
                /\ stack' = Front(stack) \o <<Leaving(Top.node)>> \o Reverse(Children(Top))
           ELSE stack' = Front(stack) /\ active' = active
    BY <1>3, <1>5, Zenon DEF ValidateNode
  <2>2. /\ nodes + 1 <= MaxNodes /\ Top.depth <= MaxDepth /\ JsonObject(Top.node) /\ Top.node \notin active
    <3>1. Top.depth \in 0..Top0 /\ Top0 \in Nat
      BY <1>1, <1>3, FrameFacts, LimitsAssumption DEF Top0
    <3> QED
      BY <1>3, <1>5, <3>1, LimitsAssumption
  <2>3. PICK c : c = Reverse(Children(Top))
    OBVIOUS
  <2>4. /\ c \in Seq(PlainFrames(Nodes)) /\ \A i \in DOMAIN c : ~c[i].leave
        /\ Size[Top0 - Top.depth][Top.node] = Cost(Top.node) + Owed(Size, c)
        /\ Fitting(Fits, c) <=> Top.node \in Fits[Top0 - Top.depth]
        /\ \A i \in DOMAIN c : Edge(job.heap, Top.node, c[i].node)
        /\ Obj(Top.node).type \notin Containers => c = <<>>
    BY <1>1, <1>3, <2>2, <2>3, ChildrenOf
  <2>5. PICK z \in Nat : z = Owed(Size, c)
    BY <1>3, <2>4, DuesTyped
  <2>6. y = Cost(Top.node) + z
    BY <1>1, <1>2, <2>4, <2>5 DEF Due
  <2>7. CASE Obj(Top.node).type \in Containers
    <3>1. PICK r : r = Front(stack) \o <<Leaving(Top.node)>>
      OBVIOUS
    <3>2. /\ r \in Seq(PlainFrames(Nodes)) /\ r # <<>> /\ Last(r) = Leaving(Top.node)
          /\ Fitting(Fits, r) <=> Fitting(Fits, Front(stack))
          /\ LeavesOf(r) = active \union {Top.node}
          /\ Apart(r) /\ Chained(job.heap, r)
      BY <1>1, <1>3, <2>2, <3>1, Entered DEF Top
    <3>3. PICK t : t = r \o c
      OBVIOUS
    <3>4. Last(r).leave = TRUE /\ Last(r).node = Top.node
      BY <3>2 DEF Leaving
    <3>5. /\ t \in Seq(PlainFrames(Nodes)) /\ LeavesOf(t) = LeavesOf(r) /\ Apart(t) /\ Chained(job.heap, t)
          /\ Fitting(Fits, t) <=> Fitting(Fits, r) /\ Fitting(Fits, c)
      BY <2>4, <3>2, <3>3, <3>4, Put
    <3>6. Owed(Size, r) = x + 1
      <4>1. PICK l : l = Leaving(Top.node) /\ l = Last(r)
        BY <3>2
      <4>2. l \in PlainFrames(Nodes) /\ Due(Size, l) = 1
        <5>1. l.leave
          BY <3>4, <4>1
        <5>2. Top.node \in Nodes
          BY <1>3, FrameFacts
        <5>3. Due(Size, l) = 1
          BY <5>1 DEF Due
        <5>4. l \in PlainFrames(Nodes)
          <6>1. Leaving(Top.node) \in {Leaving(n) : n \in Nodes}
            BY <5>2
          <6> QED
            BY <4>1, <6>1 DEF PlainFrames
        <5> QED
          BY <5>3, <5>4
      <4>3. <<l>> \in Seq(PlainFrames(Nodes)) /\ Owed(Size, <<l>>) = 1
        BY <4>2, OwedSmall
      <4>4. Owed(Size, Front(stack) \o <<l>>) = Owed(Size, Front(stack)) + Owed(Size, <<l>>)
        BY <1>3, <4>3, OwedConcat
      <4> QED
        BY <1>2, <3>1, <4>1, <4>3, <4>4
    <3>7. Owed(Size, t) = x + 1 + z
      <4>1. Owed(Size, r \o c) = Owed(Size, r) + Owed(Size, c)
        BY <1>3, <2>4, <3>2, OwedConcat
      <4> QED
        BY <2>5, <3>3, <3>6, <4>1
    <3>8. Cost(Top.node) = 2
      BY <2>7 DEF Cost
    <3>9. PICK n, a, v : n = nodes + 1 /\ a = active \union {Top.node} /\ v = "none"
      OBVIOUS
    <3>10. n \in Nat /\ n <= MaxNodes /\ n + Owed(Size, t) = Size[Top0][1]
      <4>1. nodes \in Nat /\ nodes + x + y = Size[Top0][1] /\ y = 2 + z
        BY <1>3, <2>6, <3>8
      <4>2. n \in Nat /\ n <= MaxNodes
        BY <2>2, <3>9, <4>1
      <4>3. n + (x + 1 + z) = nodes + x + y
        BY <3>9, <4>1
      <4> QED
        BY <3>7, <4>1, <4>2, <4>3
    <3>11. WalkState(job.heap, Nodes, Fits, Size, job.who, t, n, a, v)
      BY <1>1, <1>3, <2>4, <3>2, <3>5, <3>9, <3>10 DEF WalkState
    <3>12. t = stack' /\ n = nodes' /\ a = active' /\ v = verdict' /\ verdict' \in {"none", "accepted", "raised"}
      BY <2>1, <2>3, <2>7, <3>1, <3>3, <3>9
    <3> QED
      BY <2>1, <3>11, <3>12, WalkGoesOn
  <2>8. CASE Obj(Top.node).type \notin Containers
    <3>1. Cost(Top.node) = 1 /\ c = <<>> /\ z = 0
      BY <2>4, <2>5, <2>8, OwedSmall DEF Cost
    <3>2. Fitting(Fits, c)
      BY <3>1 DEF Fitting
    <3>3. PICK t, n, v : t = Front(stack) /\ n = nodes + 1 /\ v = "none"
      OBVIOUS
    <3>4. n \in Nat /\ n <= MaxNodes /\ n + Owed(Size, t) = Size[Top0][1]
      <4>1. Owed(Size, t) = x
        BY <1>2, <3>3
      <4>2. nodes \in Nat /\ nodes + x + 1 = Size[Top0][1] /\ x \in Nat
        BY <1>3, <2>6, <3>1
      <4>3. n \in Nat /\ n <= MaxNodes
        BY <2>2, <3>3, <4>2
      <4> QED
        BY <3>3, <4>1, <4>2, <4>3
    <3>5. WalkState(job.heap, Nodes, Fits, Size, job.who, t, n, active, v)
      BY <1>1, <1>3, <2>4, <3>2, <3>3, <3>4 DEF WalkState
    <3>6. t = stack' /\ n = nodes' /\ active = active' /\ v = verdict' /\ verdict' \in {"none", "accepted", "raised"}
      BY <2>1, <2>8, <3>3
    <3>7. PICK a : a = active
      OBVIOUS
    <3> QED
      BY <2>1, <3>5, <3>6, <3>7, WalkGoesOn
  <2> QED
    BY <2>7, <2>8
<1> QED
  BY <1>4, <1>5

LEMMA ScriptWalks ==
    ASSUME WalkInv, job.who \in Json, ScriptNode
    PROVE  WalkInv'
<1>1. Running({job.who}) /\ job.who = "script"
  BY DEF ScriptNode, Running
<1>2. ~Top.leave
  <2>1. stack # <<>> /\ stack \in Seq(PlainFrames(Nodes)) /\ LeavesOf(stack) = {}
    BY <1>1, WalkTop
  <2>2. Len(stack) \in DOMAIN stack /\ Top = stack[Len(stack)]
    <3>1. PICK F : F = PlainFrames(Nodes)
      OBVIOUS
    <3>2. stack \in Seq(F)
      BY <2>1, <3>1
    <3>3. Len(stack) \in Nat /\ Len(stack) >= 1 /\ Last(stack) = stack[Len(stack)]
      BY <2>1, <3>2, FrontAndLast
    <3>4. DOMAIN stack = 1..Len(stack)
      BY <3>2, LenProperties
    <3> QED
      BY <3>3, <3>4 DEF Top
  <2> QED
    BY <2>1, <2>2, Zenon DEF LeavesOf
<1>3. PICK cost \in Nat : cost = Cost(Top.node) /\ cost \in {1, 2}
  BY DEF Cost
<1> DEFINE Refused == nodes + cost > MaxNodes \/ Top.depth > MaxDepth \/ ~JsonObject(Top.node)
<1>4. PICK x \in Nat, y \in Nat : x = Owed(Size, Front(stack)) /\ y = Due(Size, Top)
  BY <1>1, WalkTop
<1>5. /\ verdict = "none" /\ job \in Jobs /\ \A l \in 0..Top0 : Size[l] \in [Nodes -> Nat]
      /\ Top \in PlainFrames(Nodes) /\ Front(stack) \in Seq(PlainFrames(Nodes))
      /\ nodes \in Nat /\ nodes <= MaxNodes /\ nodes + x + y = Size[Top0][1]
      /\ 1 \in Fits[Top0] <=> Fitting(Fits, Front(stack)) /\ Top.node \in Fits[Top0 - Top.depth]
      /\ Apart(Front(stack)) /\ LeavesOf(Front(stack)) = active /\ active = {}
  BY <1>1, <1>2, <1>4, WalkTop
<1>6. CASE Refused
  <2>1. Raise
    BY <1>3, <1>6 DEF ScriptNode
  <2>2. cost <= Cost(Top.node)
    BY <1>3
  <2>3. ~Allowed(Fits, Size)
    BY <1>1, <1>2, <1>6, <2>2, RaisesRightly
  <2> QED
    BY <1>5, <2>1, <2>3, Raises
<1>7. CASE ~Refused
  <2>1. /\ nodes' = nodes + cost /\ UNCHANGED <<job, active>> /\ verdict' = "none"
        /\ stack' = Front(stack) \o Children(Top)
    BY <1>3, <1>5, <1>7, Zenon DEF ScriptNode
  <2>2. nodes + cost <= MaxNodes /\ Top.depth <= MaxDepth /\ JsonObject(Top.node)
    <3>1. Top.depth \in 0..Top0 /\ Top0 \in Nat
      BY <1>2, <1>5, FrameFacts, LimitsAssumption DEF Top0
    <3> QED
      BY <1>3, <1>5, <1>7, <3>1, LimitsAssumption
  <2>3. PICK c : c = Children(Top)
    OBVIOUS
  <2>4. /\ c \in Seq(PlainFrames(Nodes)) /\ \A i \in DOMAIN c : ~c[i].leave
        /\ Size[Top0 - Top.depth][Top.node] = Cost(Top.node) + Owed(Size, c)
        /\ Fitting(Fits, c) <=> Top.node \in Fits[Top0 - Top.depth]
    BY <1>2, <1>5, <2>2, <2>3, ChildrenOf
  <2>5. PICK z \in Nat : z = Owed(Size, c)
    BY <1>5, <2>4, DuesTyped
  <2>6. y = cost + z
    BY <1>2, <1>3, <1>4, <2>4, <2>5 DEF Due
  <2>7. PICK r, t : r = Front(stack) /\ t = r \o c
    OBVIOUS
  <2>8. /\ t \in Seq(PlainFrames(Nodes)) /\ LeavesOf(t) = {} /\ Apart(t) /\ Chained(job.heap, t)
        /\ Fitting(Fits, t) <=> Fitting(Fits, r) /\ Fitting(Fits, c)
    <3>1. r \in Seq(PlainFrames(Nodes)) /\ LeavesOf(r) = {} /\ Apart(r)
      BY <1>5, <2>7
    <3> QED
      BY <2>4, <2>7, <3>1, Put
  <2>9. Owed(Size, t) = x + z
    <3>2. r \in Seq(PlainFrames(Nodes))
      BY <1>5, <2>7
    <3>1. Owed(Size, r \o c) = Owed(Size, r) + Owed(Size, c)
      <4>1. \A l \in 0..Top0 : Size[l] \in [Nodes -> Nat]
        BY <1>5
      <4>2. c \in Seq(PlainFrames(Nodes))
        BY <2>4
      <4> QED
        BY <3>2, <4>1, <4>2, OwedConcat
    <3> QED
      BY <1>4, <2>5, <2>7, <3>1
  <2>10. PICK n, a, v : n = nodes + cost /\ a = active /\ v = "none"
    OBVIOUS
  <2>11. n \in Nat /\ n <= MaxNodes /\ n + Owed(Size, t) = Size[Top0][1]
    BY <1>5, <2>2, <2>6, <2>9, <2>10
  <2>12. WalkState(job.heap, Nodes, Fits, Size, job.who, t, n, a, v)
    BY <1>1, <1>5, <2>4, <2>7, <2>8, <2>10, <2>11 DEF WalkState
  <2>13. t = stack' /\ n = nodes' /\ a = active' /\ v = verdict' /\ verdict' \in {"none", "accepted", "raised"}
    BY <2>1, <2>3, <2>7, <2>10
  <2> QED
    BY <2>1, <2>12, <2>13, WalkGoesOn
<1> QED
  BY <1>6, <1>7

LEMMA AcceptWalks ==
    ASSUME WalkInv, job.who \in Json, Accept
    PROVE  WalkInv'
<1>1. verdict = "none" /\ stack = <<>> /\ verdict' = "accepted" /\ UNCHANGED <<job, stack, nodes, active>>
  BY DEF Accept
<1>2. WalkState(job.heap, Nodes, Fits, Size, job.who, <<>>, nodes, active, "none") /\ job \in Jobs
  BY <1>1 DEF WalkInv
<1>3. Owed(Size, <<>>) = 0 /\ Fitting(Fits, <<>>)
  <2>1. Owed(Size, <<>>) = 0
    BY OwedSmall
  <2>2. DOMAIN <<>> = {}
    OBVIOUS
  <2> QED
    BY <2>1, <2>2, Zenon DEF Fitting
<1>4. Allowed(Fits, Size)
  <2>1. nodes \in Nat /\ nodes <= MaxNodes /\ nodes + 0 = Size[Top0][1] /\ 1 \in Fits[Top0]
    BY <1>2, <1>3, Zenon DEF WalkState
  <2> QED
    BY <2>1 DEF Allowed
<1>5. WalkState(job.heap, Nodes, Fits, Size, job.who, <<>>, nodes, active, "accepted")
  BY <1>2, <1>4, Zenon DEF WalkState
<1>6. PICK s, n, a, v : s = stack /\ n = nodes /\ a = active /\ v = "accepted"
  OBVIOUS
<1>7. WalkState(job.heap, Nodes, Fits, Size, job.who, s, n, a, v)
  BY <1>1, <1>5, <1>6, Zenon
<1>8. s = stack' /\ n = nodes' /\ a = active' /\ v = verdict' /\ verdict' \in {"none", "accepted", "raised"}
      /\ UNCHANGED job
  BY <1>1, <1>6
<1> QED
  BY <1>7, <1>8, WalkGoesOn

LEMMA WalkStep == WalkInv /\ [WalkNext]_walkVars => WalkInv'
<1>1. SUFFICES ASSUME WalkInv, [WalkNext]_walkVars PROVE WalkInv'
  OBVIOUS
<1>2. UNCHANGED job /\ job \in Jobs /\ verdict' \in {"none", "accepted", "raised"}
  BY <1>1 DEF WalkInv, WalkNext, LeaveContainer, ValidateNode, ScriptNode, RedactLeave, RedactNode,
       CompileUserPattern, Accept, WalkEnds, Raise, walkVars
<1>3. CASE job.who \notin Json
  BY <1>2, <1>3 DEF WalkInv
<1>4. CASE job.who \in Json
  <2>1. job.who # "redactor" /\ job.who # "pattern"
    BY <1>4 DEF Json
  <2>2. \/ LeaveContainer \/ ValidateNode \/ ScriptNode \/ Accept \/ UNCHANGED walkVars
    BY <1>1, <2>1 DEF WalkNext, RedactLeave, RedactNode, CompileUserPattern, WalkEnds, Running
  <2>3. ASSUME UNCHANGED walkVars PROVE WalkInv'
    <3>1. PICK s, n, a, v : s = stack /\ n = nodes /\ a = active /\ v = verdict
      OBVIOUS
    <3>2. WalkState(job.heap, Nodes, Fits, Size, job.who, s, n, a, v)
      BY <1>1, <1>4, <3>1 DEF WalkInv
    <3>3. s = stack' /\ n = nodes' /\ a = active' /\ v = verdict'
      BY <2>3, <3>1 DEF walkVars
    <3> QED
      BY <1>1, <1>2, <1>4, <3>2, <3>3, WalkGoesOn
  <2> QED
    BY <1>1, <1>4, <2>2, <2>3, LeaveWalks, ValidateWalks, ScriptWalks, AcceptWalks
<1> QED
  BY <1>3, <1>4

\* _validate_json accepts exactly the documents within its limits, and the
\* walk of the exported script the same ones: what is shared is no cycle, and
\* what is cyclic is refused.
THEOREM WalksAreExact == WalkSpec => []WalkIsExact
<1>1. WalkInv => WalkIsExact
  <2>1. SUFFICES ASSUME WalkInv, verdict # "none", job.who \in Json
                 PROVE  verdict = "accepted" <=> WithinLimits
    BY DEF WalkIsExact, Walked, Json
  <2>2. WalkState(job.heap, Nodes, Fits, Size, job.who, stack, nodes, active, verdict)
        /\ verdict \in {"accepted", "raised"}
    BY <2>1 DEF WalkInv
  <2>3. WithinLimits <=> Allowed(Fits, Size)
    BY DEF WithinLimits, Allowed, Top0
  <2> QED
    BY <2>2, <2>3, Zenon DEF WalkState
<1> QED
  BY <1>1, WalkStarts, WalkStep, PTL DEF WalkSpec

-----------------------------------------------------------------------------
(* Replacing texts.                                                           *)

Replacements == [text : Seq(Letters), marker : MarkerAtoms]

NotReplaced(done, atom, c) ==
    /\ Scanned(done, atom, c) = Append(done, atom)
    /\ ~(/\ c.text # <<>> /\ Len(done) + 1 - Len(c.text) >= 0
         /\ SubSeq(Append(done, atom), Len(done) + 1 - Len(c.text) + 1, Len(done) + 1) = c.text)

\* An atom more is an atom more, or a marker after a part of what there was.
LEMMA ScannedIs ==
    ASSUME NEW A, MarkerAtoms \subseteq A, NEW done \in Seq(A), NEW atom \in A, NEW c \in Replacements
    PROVE  /\ Scanned(done, atom, c) \in Seq(A)
           /\ \/ NotReplaced(done, atom, c)
              \/ \E m \in 0..Len(done) :
                    /\ Len(Scanned(done, atom, c)) = m + 1
                    /\ Scanned(done, atom, c)[m + 1] \in MarkerAtoms
                    /\ \A i \in 1..m : Scanned(done, atom, c)[i] = done[i]
<1>1. PICK more, rest, text, marker :
         more = Append(done, atom) /\ rest = Len(more) - Len(text) /\ text = c.text /\ marker = c.marker
  OBVIOUS
<1>2. text \in Seq(Letters) /\ marker \in MarkerAtoms /\ marker \in A
  BY <1>1 DEF Replacements
<1>3. /\ more \in Seq(A) /\ Len(done) \in Nat /\ Len(more) = Len(done) + 1 /\ Len(text) \in Nat
      /\ \A i \in 1..Len(done) : more[i] = done[i]
  BY <1>1, <1>2
<1>4. PICK t : t = Scanned(done, atom, c)
  OBVIOUS
<1>5. CASE text # <<>> /\ rest >= 0 /\ SubSeq(more, rest + 1, Len(more)) = text
  <2>1. t = Append(SubSeq(more, 1, rest), marker)
    BY <1>1, <1>4, <1>5, Zenon DEF Scanned
  <2>2. Len(text) >= 1
    BY <1>2, <1>5, EmptySeq
  <2>3. rest \in 0..Len(done)
    BY <1>1, <1>3, <1>5, <2>2
  <2>4. PICK p : p = SubSeq(more, 1, rest)
    OBVIOUS
  <2>5. p \in Seq(A) /\ Len(p) = rest /\ \A i \in 1..rest : p[i] = done[i]
    <3>1. \A i \in 1..rest : more[i] \in A /\ more[i] = done[i]
      BY <1>3, <2>3, ElementOfSeq
    <3>2. /\ p \in Seq(A) /\ Len(p) = (IF 1 <= rest THEN rest - 1 + 1 ELSE 0)
          /\ \A i \in 1..rest - 1 + 1 : p[i] = more[1 + i - 1]
      BY <2>3, <2>4, <3>1, SubSeqProperties
    <3>3. (IF 1 <= rest THEN rest - 1 + 1 ELSE 0) = rest /\ rest - 1 + 1 = rest
      BY <1>3, <2>3
    <3>4. \A i \in 1..rest : 1 + i - 1 = i
      OBVIOUS
    <3> QED
      BY <3>1, <3>2, <3>3, <3>4
  <2>6. t \in Seq(A) /\ Len(t) = rest + 1 /\ t[rest + 1] = marker /\ \A i \in 1..rest : t[i] = done[i]
    BY <1>2, <2>1, <2>3, <2>4, <2>5
  <2> QED
    BY <1>2, <1>4, <2>3, <2>6
<1>6. CASE ~(text # <<>> /\ rest >= 0 /\ SubSeq(more, rest + 1, Len(more)) = text)
  <2>1. t = more
    BY <1>1, <1>4, <1>6, Zenon DEF Scanned
  <2> QED
    BY <1>1, <1>3, <1>4, <1>6, <2>1 DEF NotReplaced
<1> QED
  BY <1>5, <1>6

\* The function by which ReplaceText is defined.
TextScans(f, text, c) ==
    f = [n \in 0..Len(text) |-> IF n = 0 THEN <<>> ELSE Scanned(f[n - 1], text[n], c)]

\* It scans atom after atom.
LEMMA ReplaceTextIs ==
    ASSUME NEW A, MarkerAtoms \subseteq A, NEW text \in Seq(A), NEW c \in Replacements
    PROVE  \E f \in [0..Len(text) -> Seq(A)] :
              /\ ReplaceText(text, c) = f[Len(text)]
              /\ f[0] = <<>>
              /\ \A n \in 1..Len(text) : f[n] = Scanned(f[n - 1], text[n], c)
<1> DEFINE N == Len(text)
           start == <<>>
           step == [p \in Seq(A) \X (1..N) |-> Scanned(p[1], text[p[2]], c)]
<1>1. N \in Nat /\ start \in Seq(A)
  OBVIOUS
<1>2. ASSUME NEW t \in Seq(A), NEW n \in 1..N PROVE Scanned(t, text[n], c) \in Seq(A)
  BY ElementOfSeq, ScannedIs
<1> HIDE DEF N, start
<1>3. step \in [Seq(A) \X (1..N) -> Seq(A)]
  BY <1>2
<1>4. \A t \in Seq(A), n \in 1..N : step[<<t, n>>] = Scanned(t, text[n], c)
  OBVIOUS
<1> HIDE DEF step
<1>5. PICK f \in [0..N -> Seq(A)] : Runs(f, N, start, step)
  BY <1>1, <1>3, RunExists
<1>6. ASSUME NEW n \in 1..N PROVE f[n] = Scanned(f[n - 1], text[n], c)
  <2>1. f[n - 1] \in Seq(A)
    BY <1>1, <1>5
  <2>2. f[n] = step[<<f[n - 1], n>>]
    BY <1>5 DEF Runs
  <2> QED
    BY <1>4, <2>1, <2>2
<1>7. f[0] = start /\ f = [n \in 0..N |-> f[n]]
  BY <1>5 DEF Runs
<1>8. TextScans(f, text, c)
  <2>1. ASSUME NEW n \in 0..N PROVE f[n] = IF n = 0 THEN start ELSE Scanned(f[n - 1], text[n], c)
    <3>1. CASE n = 0
      BY <1>7, <3>1
    <3>2. CASE n # 0
      <4>1. n \in 1..N
        BY <1>1, <3>2
      <4> QED
        BY <1>6, <3>2, <4>1
    <3> QED
      BY <3>1, <3>2
  <2> QED
    BY <1>7, <2>1, Zenon DEF TextScans, N, start
<1> DEFINE g == CHOOSE h : TextScans(h, text, c)
<1>9. TextScans(g, text, c)
  BY <1>8
<1>10. ReplaceText(text, c) = g[N]
  BY DEF ReplaceText, TextScans, N
<1> HIDE DEF g
<1>11. g = [n \in 0..N |-> IF n = 0 THEN start ELSE Scanned(g[n - 1], text[n], c)]
  BY <1>9, Zenon DEF TextScans, N, start
<1>12. g[0] = f[0]
  BY <1>1, <1>7, <1>11
<1>13. ASSUME NEW n \in 1..N, g[n - 1] = f[n - 1] PROVE g[n] = f[n]
  <2>1. n \in 0..N /\ n # 0
    BY <1>1
  <2>2. g[n] = Scanned(g[n - 1], text[n], c)
    BY <1>11, <2>1
  <2> QED
    BY <1>6, <1>13, <2>2
<1>14. g[N] = f[N]
  <2>1. \A n \in 1..N : g[n - 1] = f[n - 1] => g[n] = f[n]
    BY <1>13
  <2>2. N \in Nat
    BY <1>1
  <2>3. \A n \in 0..N : g[n] = f[n]
    BY ZenonT(60), <1>12, <2>1, <2>2, RunsAgree
  <2> QED
    BY <2>2, <2>3
<1> QED
  BY <1>5, <1>6, <1>7, <1>10, <1>14 DEF N, start

At(d, t, i) == i + Len(d) - 1 <= Len(t) /\ \A k \in 1..Len(d) : t[i + k - 1] = d[k]
HasMarker(t) == \E i \in DOMAIN t : t[i] \in MarkerAtoms

LEMMA OccursIs ==
    ASSUME NEW A, NEW d \in Seq(A), NEW t \in Seq(A)
    PROVE  Occurs(d, t) <=> d # <<>> /\ \E i \in 1..Len(t) : At(d, t, i)
<1>1. Len(d) \in Nat /\ Len(t) \in Nat
  OBVIOUS
<1>2. ASSUME NEW i \in 1..Len(t), i + Len(d) - 1 <= Len(t), d # <<>>
      PROVE  SubSeq(t, i, i + Len(d) - 1) = d <=> At(d, t, i)
  <2>1. PICK s, j : s = SubSeq(t, i, j) /\ j = i + Len(d) - 1
    OBVIOUS
  <2>2. Len(d) >= 1
    BY <1>2, EmptySeq
  <2>3. i \in Int /\ j \in Int /\ i <= j /\ j - i + 1 = Len(d) /\ j <= Len(t) /\ i >= 1
    BY <1>1, <1>2, <2>1, <2>2
  <2>4. \A k \in i..j : t[k] \in A
    BY <1>1, <2>3, ElementOfSeq
  <2>5. /\ s \in Seq(A) /\ Len(s) = (IF i <= j THEN j - i + 1 ELSE 0)
        /\ \A k \in 1..j - i + 1 : s[k] = t[i + k - 1]
    BY <2>1, <2>3, <2>4, SubSeqProperties
  <2>6. Len(s) = Len(d) /\ \A k \in 1..Len(d) : s[k] = t[i + k - 1]
    BY <2>3, <2>5
  <2>7. s = d => \A k \in 1..Len(d) : t[i + k - 1] = d[k]
    BY <2>6
  <2>8. (\A k \in 1..Len(d) : t[i + k - 1] = d[k]) => s = d
    <3>1. SUFFICES ASSUME \A k \in 1..Len(d) : t[i + k - 1] = d[k] PROVE s = d
      OBVIOUS
    <3>2. \A k \in 1..Len(s) : s[k] = d[k]
      BY <2>6, <3>1
    <3> QED
      BY <2>5, <2>6, <3>2, SeqEqual
  <2> QED
    BY <1>2, <2>1, <2>7, <2>8 DEF At
<1> QED
  BY <1>2 DEF Occurs, At

Completes(done, atom, d) ==
    /\ d # <<>> /\ Len(d) <= Len(done) + 1 /\ Len(d) \in Nat
    /\ \A k \in 1..Len(d) : Append(done, atom)[Len(done) + 1 - Len(d) + k] = d[k]

\* A text of letters that an atom more makes occur ends with that atom.
LEMMA ScannedOccurs ==
    ASSUME NEW A, MarkerAtoms \subseteq A, Letters \subseteq A,
           NEW done \in Seq(A), NEW atom \in A, NEW c \in Replacements,
           NEW d \in Seq(Letters), ~Occurs(d, done), Occurs(d, Scanned(done, atom, c))
    PROVE  NotReplaced(done, atom, c) /\ Completes(done, atom, d)
<1>1. PICK t, l, m : t = Scanned(done, atom, c) /\ l = Len(done) /\ m = Len(d)
  OBVIOUS
<1>2. t \in Seq(A) /\ l \in Nat /\ m \in Nat /\ d \in Seq(A) /\ \A k \in 1..m : d[k] \in Letters
  BY <1>1, ScannedIs, ElementOfSeq, SeqMonotonic
<1>3. d # <<>> /\ m >= 1
  BY <1>1, <1>2, OccursIs, EmptySeq
<1>4. PICK i \in 1..Len(t) : At(d, t, i)
  BY <1>1, <1>2, OccursIs
<1>5. i + m - 1 <= Len(t) /\ \A k \in 1..m : t[i + k - 1] = d[k]
  BY <1>1, <1>4 DEF At
<1>6. ~(i + m - 1 <= l /\ \A k \in 1..m : done[i + k - 1] = d[k])
  <2>1. SUFFICES ASSUME i + m - 1 <= l, \A k \in 1..m : done[i + k - 1] = d[k] PROVE FALSE
    OBVIOUS
  <2>2. i \in 1..Len(done) /\ At(d, done, i)
    BY <1>1, <1>2, <1>3, <2>1 DEF At
  <2> QED
    BY <1>2, <1>3, <2>2, OccursIs
<1>7. CASE \E n \in 0..Len(done) : /\ Len(t) = n + 1 /\ t[n + 1] \in MarkerAtoms
                                   /\ \A k \in 1..n : t[k] = done[k]
  <2>1. PICK n \in 0..l : /\ Len(t) = n + 1 /\ t[n + 1] \in MarkerAtoms /\ \A k \in 1..n : t[k] = done[k]
    BY <1>1, <1>7
  <2>2. i + m - 1 # n + 1
    <3>1. SUFFICES ASSUME i + m - 1 = n + 1 PROVE FALSE
      OBVIOUS
    <3>2. t[n + 1] = d[m] /\ m \in 1..m
      BY <1>2, <1>3, <1>5, <3>1
    <3> QED
      BY <1>2, <2>1, <3>2, LettersAssumption
  <2>3. i + m - 1 <= n
    BY <1>2, <1>5, <2>1, <2>2
  <2>4. \A k \in 1..m : i + k - 1 \in 1..n
    BY <1>2, <2>3
  <2> QED
    BY <1>2, <1>5, <1>6, <2>1, <2>3, <2>4
<1>8. CASE NotReplaced(done, atom, c)
  <2>0. t = Append(done, atom)
    BY <1>1, <1>8 DEF NotReplaced
  <2>1. Len(t) = l + 1 /\ \A k \in 1..l : t[k] = done[k]
    BY <1>1, <2>0
  <2>2. i + m - 1 = l + 1
    <3>1. SUFFICES ASSUME i + m - 1 <= l PROVE FALSE
      BY <1>2, <1>5, <2>1
    <3>2. \A k \in 1..m : i + k - 1 \in 1..l
      BY <1>2, <3>1
    <3> QED
      BY <1>5, <1>6, <2>1, <3>1, <3>2
  <2>3. m <= l + 1 /\ \A k \in 1..m : l + 1 - m + k = i + k - 1
    BY <1>2, <2>2
  <2> QED
    BY <1>1, <1>2, <1>3, <1>5, <1>8, <2>0, <2>3 DEF Completes
<1>9. \/ NotReplaced(done, atom, c)
      \/ \E n \in 0..Len(done) :
            /\ Len(Scanned(done, atom, c)) = n + 1
            /\ Scanned(done, atom, c)[n + 1] \in MarkerAtoms
            /\ \A k \in 1..n : Scanned(done, atom, c)[k] = done[k]
  BY ScannedIs
<1> QED
  BY <1>1, <1>7, <1>8, <1>9, Zenon

\* What has been replaced does not occur any more, and what did not occur does not.
LEMMA ReplacedIsGone ==
    ASSUME NEW A, MarkerAtoms \subseteq A, Letters \subseteq A,
           NEW text \in Seq(A), NEW c \in Replacements, NEW d \in Seq(Letters),
           d = c.text \/ ~Occurs(d, text)
    PROVE  ReplaceText(text, c) \in Seq(A) /\ ~Occurs(d, ReplaceText(text, c))
<1> DEFINE N == Len(text)
<1>2. PICK f \in [0..N -> Seq(A)] :
         /\ ReplaceText(text, c) = f[N] /\ f[0] = <<>>
         /\ \A n \in 1..N : f[n] = Scanned(f[n - 1], text[n], c)
  BY ReplaceTextIs
<1>1. N \in Nat /\ N = Len(text)
  OBVIOUS
<1> HIDE DEF N
<1>3. d \in Seq(A)
  BY SeqMonotonic
\* The letters at the end are the last letters of the text.
<1> DEFINE Ends(n, k) == (\A i \in 1..k : f[n][Len(f[n]) - k + i] \in Letters)
                            => k <= n /\ \A i \in 1..k : f[n][Len(f[n]) - k + i] = text[n - k + i]
           Good == {n \in Nat : n <= N => ~Occurs(d, f[n]) /\ \A k \in 0..Len(f[n]) : Ends(n, k)}
<1>4. 0 \in Good
  <2>1. ~Occurs(d, <<>>)
    BY DEF Occurs
  <2>2. \A k \in 0..Len(f[0]) : k = 0
    BY <1>2
  <2>3. Ends(0, 0)
    OBVIOUS
  <2> QED
    BY <1>2, <2>1, <2>2, <2>3
<1>5. ASSUME NEW n \in Nat, n \in Good PROVE n + 1 \in Good
  <2>1. SUFFICES ASSUME n + 1 <= N
                 PROVE  ~Occurs(d, f[n + 1]) /\ \A k \in 0..Len(f[n + 1]) : Ends(n + 1, k)
    OBVIOUS
  <2>2. /\ n + 1 \in 1..N /\ (n + 1) - 1 = n /\ n <= N /\ n \in 0..N /\ n + 1 \in 0..N
        /\ ~Occurs(d, f[n]) /\ \A k \in 0..Len(f[n]) : Ends(n, k)
    <3>1. n + 1 \in 1..N /\ (n + 1) - 1 = n /\ n <= N /\ n \in 0..N /\ n + 1 \in 0..N
      BY <1>1, <2>1
    <3> QED
      BY <1>5, <3>1
  <2>3. PICK done, t, atom : done = f[n] /\ t = f[n + 1] /\ atom = text[n + 1]
    OBVIOUS
  <2>4. done \in Seq(A) /\ t \in Seq(A) /\ atom \in A /\ t = Scanned(done, atom, c)
    BY <1>1, <1>2, <2>2, <2>3, ElementOfSeq
  <2>5. Len(done) \in Nat /\ Len(t) \in Nat
    BY <2>4
  <2>6. ASSUME NEW k \in 0..Len(done), \A i \in 1..k : done[Len(done) - k + i] \in Letters
        PROVE  k <= n /\ \A i \in 1..k : done[Len(done) - k + i] = text[n - k + i]
    BY <2>2, <2>3, <2>6
  <2>7. ASSUME NEW k \in 0..Len(t), \A i \in 1..k : t[Len(t) - k + i] \in Letters
        PROVE  k <= n + 1 /\ \A i \in 1..k : t[Len(t) - k + i] = text[n + 1 - k + i]
    <3>1. CASE k = 0
      BY <3>1
    <3>2. CASE k # 0
      <4>1. t[Len(t)] \in Letters
        <5>1. k \in 1..k /\ Len(t) - k + k = Len(t)
          BY <2>5, <3>2
        <5>2. t[Len(t) - k + k] \in Letters
          BY <2>7, <5>1
        <5> QED
          BY <5>1, <5>2
      <4>2. t = Append(done, atom)
        <5>1. \A m \in 0..Len(done) : ~(Len(t) = m + 1 /\ t[m + 1] \in MarkerAtoms)
          BY <4>1, LettersAssumption
        <5> QED
          BY <2>4, <5>1, ScannedIs DEF NotReplaced
      <4>3. Len(t) = Len(done) + 1 /\ t[Len(t)] = atom /\ \A i \in 1..Len(done) : t[i] = done[i]
        BY <2>4, <4>2
      <4>4. k - 1 \in 0..Len(done)
        BY <2>5, <3>2, <4>3
      <4>5. \A i \in 1..(k - 1) : /\ i \in 1..k /\ Len(t) - k + i = Len(done) - (k - 1) + i
                                  /\ Len(t) - k + i \in 1..Len(done)
                                  /\ n - (k - 1) + i = n + 1 - k + i
        BY <2>5, <4>3, <4>4
      <4>6. \A i \in 1..(k - 1) : done[Len(done) - (k - 1) + i] \in Letters
        BY <2>7, <4>3, <4>5
      <4>7. k - 1 <= n /\ \A i \in 1..(k - 1) : done[Len(done) - (k - 1) + i] = text[n - (k - 1) + i]
        BY <2>6, <4>4, <4>6
      <4>8. ASSUME NEW i \in 1..k PROVE t[Len(t) - k + i] = text[n + 1 - k + i]
        <5>1. CASE i = k
          BY <2>3, <2>5, <4>3, <5>1
        <5>2. CASE i # k
          <6>1. i \in 1..(k - 1)
            BY <5>2
          <6> QED
            BY <4>3, <4>5, <4>7, <6>1
        <5> QED
          BY <5>1, <5>2
      <4> QED
        BY <4>7, <4>8
    <3> QED
      BY <3>1, <3>2
  <2>8. ~Occurs(d, t)
    <3>1. SUFFICES ASSUME Occurs(d, t) PROVE FALSE
      OBVIOUS
    <3>2. /\ t = Append(done, atom)
          /\ ~(/\ c.text # <<>> /\ Len(done) + 1 - Len(c.text) >= 0
               /\ SubSeq(Append(done, atom), Len(done) + 1 - Len(c.text) + 1, Len(done) + 1) = c.text)
          /\ d # <<>> /\ Len(d) <= Len(done) + 1 /\ Len(d) \in Nat
          /\ \A k \in 1..Len(d) : Append(done, atom)[Len(done) + 1 - Len(d) + k] = d[k]
      <4>1. ~Occurs(d, done) /\ Occurs(d, Scanned(done, atom, c))
        BY <2>2, <2>3, <2>4, <3>1
      <4>2. NotReplaced(done, atom, c) /\ Completes(done, atom, d)
        BY <2>4, <4>1, ScannedOccurs
      <4> QED
        BY <2>4, <4>2 DEF NotReplaced, Completes
    <3>3. PICK m \in Nat : m = Len(d) /\ m >= 1 /\ m <= Len(done) + 1
      BY <3>2, EmptySeq
    <3>4. Len(t) = Len(done) + 1 /\ \A k \in 1..m : t[Len(t) - m + k] = d[k]
      <4>1. Len(t) = Len(done) + 1
        BY <2>4, <3>2
      <4>2. ASSUME NEW k \in 1..m PROVE t[Len(t) - m + k] = d[k]
        <5>1. t[Len(done) + 1 - Len(d) + k] = d[k]
          BY <3>2, <3>3
        <5> QED
          BY <3>3, <4>1, <5>1
      <4> QED
        BY <4>1, <4>2
    <3>5. CASE d = c.text
      <4>1. PICK p, q : p = Len(t) - m + 1 /\ q = Len(t)
        OBVIOUS
      <4>2. p \in 1..q /\ q - p + 1 = m /\ q \in Nat
        BY <2>5, <3>3, <3>4, <4>1
      <4>3. \A i \in p..q : t[i] \in A
        BY <2>4, <4>1, <4>2, ElementOfSeq
      <4>4. PICK s : s = SubSeq(t, p, q)
        OBVIOUS
      <4>5. /\ s \in Seq(A) /\ Len(s) = (IF p <= q THEN q - p + 1 ELSE 0)
            /\ \A k \in 1..q - p + 1 : s[k] = t[p + k - 1]
        BY <4>2, <4>3, <4>4, SubSeqProperties
      <4>6. Len(s) = Len(d) /\ \A k \in 1..Len(s) : s[k] = d[k]
        <5>1. \A k \in 1..m : p + k - 1 = Len(t) - m + k
          BY <2>5, <3>3, <4>1
        <5>2. Len(s) = m
          BY <4>2, <4>5
        <5>3. \A k \in 1..m : s[k] = t[Len(t) - m + k]
          BY <4>2, <4>5, <5>1
        <5> QED
          BY <3>3, <3>4, <5>2, <5>3
      <4>7. s = d
        BY <1>3, <4>5, <4>6, SeqEqual
      <4>8. p = Len(done) + 1 - Len(c.text) + 1 /\ q = Len(done) + 1 /\ Len(done) + 1 - Len(c.text) >= 0
        <5>1. p = Len(done) + 1 - m + 1 /\ q = Len(done) + 1 /\ Len(done) + 1 - m >= 0
          BY <2>5, <3>3, <3>4, <4>1
        <5> QED
          BY <3>3, <3>5, <5>1
      <4> QED
        BY <3>2, <3>5, <4>4, <4>7, <4>8
    <3>6. CASE ~Occurs(d, text)
      <4>1. m \in 0..Len(t) /\ \A k \in 1..m : t[Len(t) - m + k] \in Letters
        <5>1. \A k \in 1..m : d[k] \in Letters
          BY <3>3, ElementOfSeq
        <5> QED
          BY <2>5, <3>3, <3>4, <5>1
      <4>2. m <= n + 1 /\ \A k \in 1..m : t[Len(t) - m + k] = text[n + 1 - m + k]
        BY <2>7, <4>1
      <4>3. PICK i : i = n + 1 - m + 1
        OBVIOUS
      <4>4. i \in 1..Len(text) /\ i + m - 1 <= Len(text) /\ \A k \in 1..m : i + k - 1 = n + 1 - m + k
        BY <1>1, <2>1, <3>3, <4>2, <4>3
      <4>5. At(d, text, i)
        BY <3>3, <3>4, <4>2, <4>4 DEF At
      <4> QED
        BY <1>3, <3>2, <3>6, <4>4, <4>5, OccursIs
    <3> QED
      BY <3>5, <3>6
  <2>9. \A k \in 0..Len(t) : (\A i \in 1..k : t[Len(t) - k + i] \in Letters)
                                => k <= n + 1 /\ \A i \in 1..k : t[Len(t) - k + i] = text[n + 1 - k + i]
    BY <2>7
  <2> QED
    BY <2>3, <2>8, <2>9
<1>6. Nat \subseteq Good
  BY <1>4, <1>5, Counting
<1>7. N \in 0..N /\ N <= N
  BY <1>1
<1>8. ~Occurs(d, f[N])
  <2>1. N \in Good
    <3> HIDE DEF Good
    <3> QED
      BY <1>1, <1>6
  <2> QED
    BY <1>7, <2>1
<1> QED
  BY <1>2, <1>7, <1>8

\* What is not changed is the text itself.
LEMMA ReplacedOrSame ==
    ASSUME NEW A, MarkerAtoms \subseteq A, NEW text \in Seq(A), NEW c \in Replacements
    PROVE  ReplaceText(text, c) = text \/ HasMarker(ReplaceText(text, c))
<1> DEFINE N == Len(text)
<1>1. PICK f \in [0..N -> Seq(A)] :
         /\ ReplaceText(text, c) = f[N] /\ f[0] = <<>>
         /\ \A n \in 1..N : f[n] = Scanned(f[n - 1], text[n], c)
  BY ReplaceTextIs
<1>2. N \in Nat /\ N = Len(text)
  OBVIOUS
<1> HIDE DEF N
<1> DEFINE Same(n) == Len(f[n]) = n /\ \A i \in 1..n : f[n][i] = text[i]
           Good == {n \in Nat : n <= N => HasMarker(f[n]) \/ Same(n)}
<1>3. 0 \in Good
  BY <1>1
<1>4. ASSUME NEW n \in Nat, n \in Good PROVE n + 1 \in Good
  <2>1. SUFFICES ASSUME n + 1 <= N PROVE HasMarker(f[n + 1]) \/ Same(n + 1)
    OBVIOUS
  <2>2. n + 1 \in 1..N /\ (n + 1) - 1 = n /\ n <= N /\ n \in 0..N /\ n + 1 \in 0..N
    BY <1>2, <2>1
  <2>3. HasMarker(f[n]) \/ Same(n)
    BY <1>4, <2>2
  <2>4. PICK done, t, atom : done = f[n] /\ t = f[n + 1] /\ atom = text[n + 1]
    OBVIOUS
  <2>5. done \in Seq(A) /\ t \in Seq(A) /\ atom \in A /\ t = Scanned(done, atom, c)
    BY <1>1, <1>2, <2>2, <2>4, ElementOfSeq
  <2>6. CASE \E m \in 0..Len(done) :
               /\ Len(Scanned(done, atom, c)) = m + 1
               /\ Scanned(done, atom, c)[m + 1] \in MarkerAtoms
    <3>1. PICK m \in Nat : Len(t) = m + 1 /\ t[m + 1] \in MarkerAtoms
      BY <2>5, <2>6
    <3>2. m + 1 \in DOMAIN t
      BY <2>5, <3>1
    <3> QED
      BY <2>4, <3>1, <3>2 DEF HasMarker
  <2>7. CASE NotReplaced(done, atom, c)
    <3>1. /\ Len(t) = Len(done) + 1 /\ t[Len(done) + 1] = atom /\ Len(done) \in Nat
          /\ \A i \in 1..Len(done) : t[i] = done[i]
          /\ DOMAIN t = 1..Len(t) /\ DOMAIN done = 1..Len(done)
      BY <2>5, <2>7 DEF NotReplaced
    <3>2. CASE HasMarker(done)
      <4>1. PICK i \in 1..Len(done) : done[i] \in MarkerAtoms
        BY <3>1, <3>2 DEF HasMarker
      <4>2. i \in DOMAIN t /\ t[i] \in MarkerAtoms
        BY <3>1, <4>1
      <4> QED
        BY <2>4, <4>2 DEF HasMarker
    <3>3. CASE Len(done) = n /\ \A i \in 1..n : done[i] = text[i]
      <4>1. Len(t) = n + 1 /\ \A i \in 1..n + 1 : t[i] = text[i]
        BY <2>4, <3>1, <3>3
      <4> QED
        BY <2>4, <4>1
    <3> QED
      BY <2>3, <2>4, <3>2, <3>3
  <2> QED
    BY ZenonT(60), <2>5, <2>6, <2>7, ScannedIs
<1>5. Nat \subseteq Good
  BY <1>3, <1>4, Counting
<1>6. HasMarker(f[N]) \/ Same(N)
  <2>1. N \in Good
    <3> HIDE DEF Good
    <3> QED
      BY <1>2, <1>5
  <2>2. N <= N
    BY <1>2
  <2> QED
    BY <2>1, <2>2
<1>7. Same(N) => f[N] = text
  <2>1. f[N] \in Seq(A)
    BY <1>1, <1>2
  <2> QED
    BY <1>2, <2>1, SeqEqual
<1> QED
  BY <1>1, <1>6, <1>7

LEMMA ConfiguredTyped ==
    ASSUME job \in Jobs
    PROVE  /\ Configured \in Seq(Replacements)
           /\ \A c \in Range(job.policy.texts) \union {Token} :
                 \E i \in 1..Len(Configured) : Configured[i] = c
<1>1. PICK s, K : s = job.policy.texts /\ K = Replacements
  OBVIOUS
<1>2. s \in Seq(K)
  BY <1>1, JobsAssumption DEF Replacements
<1>3. Token \in K
  <2>1. <<"t">> \in Seq(Letters) /\ "#t" \in MarkerAtoms
    BY LettersAssumption DEF MarkerAtoms
  <2> QED
    BY <1>1, <2>1 DEF Token, Replacements
<1>4. PICK t : t = Append(s, Token)
  OBVIOUS
<1>5. /\ t \in Seq(K) /\ Len(s) \in Nat /\ DOMAIN s = 1..Len(s) /\ Len(t) = Len(s) + 1
      /\ t[Len(s) + 1] = Token /\ \A i \in 1..Len(s) : t[i] = s[i]
  BY <1>2, <1>3, <1>4
<1>6. ASSUME NEW c \in Range(s) \union {Token} PROVE \E i \in 1..Len(t) : t[i] = c
  <2>1. CASE c = Token
    BY <1>5, <2>1
  <2>2. CASE c \in Range(s)
    <3>1. PICK i \in DOMAIN s : s[i] = c
      BY <2>2 DEF Range
    <3>2. i \in 1..Len(t) /\ t[i] = c
      BY <1>5, <3>1
    <3> QED
      BY <3>2
  <2> QED
    BY <1>6, <2>1, <2>2
<1> QED
  BY <1>1, <1>4, <1>5, <1>6 DEF Configured

\* The function by which ReplacedText is defined.
ConfiguredScans(f, text) ==
    f = [n \in 0..Len(Configured) |-> IF n = 0 THEN text ELSE ReplaceText(f[n - 1], Configured[n])]

\* It replaces one configured text after the other.
LEMMA ReplacedTextIs ==
    ASSUME job \in Jobs, NEW A, MarkerAtoms \subseteq A, Letters \subseteq A, NEW text \in Seq(A)
    PROVE  \E f \in [0..Len(Configured) -> Seq(A)] :
              /\ ReplacedText(text) = f[Len(Configured)]
              /\ f[0] = text
              /\ \A n \in 1..Len(Configured) : f[n] = ReplaceText(f[n - 1], Configured[n])
<1> DEFINE N == Len(Configured)
           start == text
           step == [p \in Seq(A) \X (1..N) |-> ReplaceText(p[1], Configured[p[2]])]
<1>1. N \in Nat /\ start \in Seq(A)
  BY ConfiguredTyped
<1>2. ASSUME NEW t \in Seq(A), NEW n \in 1..N PROVE ReplaceText(t, Configured[n]) \in Seq(A)
  <2>1. Configured[n] \in Replacements
    BY ConfiguredTyped, ElementOfSeq DEF N
  <2>2. Configured[n].text \in Seq(Letters)
    BY <2>1 DEF Replacements
  <2> QED
    BY <2>1, <2>2, ReplacedIsGone
<1> HIDE DEF N, start
<1>3. step \in [Seq(A) \X (1..N) -> Seq(A)]
  BY <1>2
<1>4. \A t \in Seq(A), n \in 1..N : step[<<t, n>>] = ReplaceText(t, Configured[n])
  OBVIOUS
<1> HIDE DEF step
<1>5. PICK f \in [0..N -> Seq(A)] : Runs(f, N, start, step)
  BY <1>1, <1>3, RunExists
<1>6. ASSUME NEW n \in 1..N PROVE f[n] = ReplaceText(f[n - 1], Configured[n])
  <2>1. f[n - 1] \in Seq(A)
    BY <1>1, <1>5
  <2>2. f[n] = step[<<f[n - 1], n>>]
    BY <1>5 DEF Runs
  <2> QED
    BY <1>4, <2>1, <2>2
<1>7. f[0] = start /\ f = [n \in 0..N |-> f[n]]
  BY <1>5 DEF Runs
<1>8. ConfiguredScans(f, text)
  <2>1. ASSUME NEW n \in 0..N PROVE f[n] = IF n = 0 THEN start ELSE ReplaceText(f[n - 1], Configured[n])
    <3>1. CASE n = 0
      BY <1>7, <3>1
    <3>2. CASE n # 0
      <4>1. n \in 1..N
        BY <1>1, <3>2
      <4> QED
        BY <1>6, <3>2, <4>1
    <3> QED
      BY <3>1, <3>2
  <2> QED
    BY <1>7, <2>1, Zenon DEF ConfiguredScans, N, start
<1> DEFINE g == CHOOSE h : ConfiguredScans(h, text)
<1>9. ConfiguredScans(g, text)
  BY <1>8
<1>10. ReplacedText(text) = g[N]
  BY DEF ReplacedText, ConfiguredScans, N
<1> HIDE DEF g
<1>11. g = [n \in 0..N |-> IF n = 0 THEN start ELSE ReplaceText(g[n - 1], Configured[n])]
  BY <1>9, Zenon DEF ConfiguredScans, N, start
<1>12. g[0] = f[0]
  BY <1>1, <1>7, <1>11
<1>13. ASSUME NEW n \in 1..N, g[n - 1] = f[n - 1] PROVE g[n] = f[n]
  <2>1. n \in 0..N /\ n # 0
    BY <1>1
  <2>2. g[n] = ReplaceText(g[n - 1], Configured[n])
    BY <1>11, <2>1
  <2> QED
    BY <1>6, <1>13, <2>2
<1>14. g[N] = f[N]
  <2>1. \A n \in 1..N : g[n - 1] = f[n - 1] => g[n] = f[n]
    BY <1>13
  <2>2. N \in Nat
    BY <1>1
  <2>3. \A n \in 0..N : g[n] = f[n]
    BY ZenonT(60), <1>12, <2>1, <2>2, RunsAgree
  <2> QED
    BY <2>2, <2>3
<1> QED
  BY <1>5, <1>6, <1>7, <1>10, <1>14 DEF N, start

\* No configured text and no token is left in a text, and a text without a
\* marker is what it was.
LEMMA ReplacedTextFacts ==
    ASSUME job \in Jobs, NEW A, MarkerAtoms \subseteq A, Letters \subseteq A, NEW text \in Seq(A)
    PROVE  /\ ReplacedText(text) \in Seq(A)
           /\ \A c \in Range(job.policy.texts) \union {Token} : ~Occurs(c.text, ReplacedText(text))
           /\ ReplacedText(text) = text \/ HasMarker(ReplacedText(text))
<1> DEFINE N == Len(Configured)
<1>1. PICK f \in [0..N -> Seq(A)] :
         /\ ReplacedText(text) = f[N] /\ f[0] = text
         /\ \A n \in 1..N : f[n] = ReplaceText(f[n - 1], Configured[n])
  BY ReplacedTextIs
<1>2. N \in Nat /\ \A n \in 1..N : Configured[n] \in Replacements /\ Configured[n].text \in Seq(Letters)
  <2>1. Configured \in Seq(Replacements)
    BY ConfiguredTyped
  <2>2. \A c \in Replacements : c.text \in Seq(Letters)
    BY DEF Replacements
  <2> QED
    BY <2>1, <2>2, ElementOfSeq
<1>3. \A c \in Range(job.policy.texts) \union {Token} : \E i \in 1..N : Configured[i] = c
  BY ConfiguredTyped
<1> HIDE DEF N
<1>4. ASSUME NEW n \in Nat, n + 1 <= N
      PROVE  /\ n + 1 \in 1..N /\ f[n] \in Seq(A) /\ Configured[n + 1] \in Replacements
             /\ Configured[n + 1].text \in Seq(Letters)
             /\ f[n + 1] = ReplaceText(f[n], Configured[n + 1])
  <2>1. n + 1 \in 1..N /\ (n + 1) - 1 = n /\ n \in 0..N
    BY <1>2, <1>4
  <2> QED
    BY <1>1, <1>2, <2>1
<1>5. ASSUME NEW i \in 1..N PROVE ~Occurs(Configured[i].text, f[N])
  <2> DEFINE Good == {n \in Nat : i <= n /\ n <= N => ~Occurs(Configured[i].text, f[n])}
  <2>1. 0 \in Good
    OBVIOUS
  <2>2. ASSUME NEW n \in Nat, n \in Good PROVE n + 1 \in Good
    <3>1. SUFFICES ASSUME i <= n + 1, n + 1 <= N PROVE ~Occurs(Configured[i].text, f[n + 1])
      OBVIOUS
    <3>2. PICK d, c, t : d = Configured[i].text /\ c = Configured[n + 1] /\ t = f[n]
      OBVIOUS
    <3>3. t \in Seq(A) /\ c \in Replacements /\ f[n + 1] = ReplaceText(t, c)
      BY <1>4, <3>1, <3>2
    <3>4. d \in Seq(Letters)
      BY <1>2, <3>2
    <3>5. d = c.text \/ ~Occurs(d, t)
      <4>1. CASE i = n + 1
        BY <3>2, <4>1
      <4>2. CASE i # n + 1
        <5>1. i <= n /\ n <= N
          BY <1>2, <3>1, <4>2
        <5> QED
          BY <2>2, <3>2, <5>1
      <4> QED
        BY <4>1, <4>2
    <3>6. ~Occurs(d, ReplaceText(t, c))
      BY <3>3, <3>4, <3>5, ReplacedIsGone
    <3> QED
      BY <3>2, <3>3, <3>6
  <2>3. Nat \subseteq Good
    BY <2>1, <2>2, Counting
  <2>4. N \in Good
    <3> HIDE DEF Good
    <3> QED
      BY <1>2, <2>3
  <2> QED
    BY <1>2, <2>4
<1>6. f[N] = text \/ HasMarker(f[N])
  <2> DEFINE Good == {n \in Nat : n <= N => f[n] = text \/ HasMarker(f[n])}
  <2>1. 0 \in Good
    BY <1>1
  <2>2. ASSUME NEW n \in Nat, n \in Good PROVE n + 1 \in Good
    <3>1. SUFFICES ASSUME n + 1 <= N PROVE f[n + 1] = text \/ HasMarker(f[n + 1])
      OBVIOUS
    <3>2. n <= N
      BY <1>2, <3>1
    <3>3. f[n] \in Seq(A) /\ Configured[n + 1] \in Replacements
          /\ f[n + 1] = ReplaceText(f[n], Configured[n + 1])
      BY <1>4, <3>1
    <3>4. f[n + 1] = f[n] \/ HasMarker(f[n + 1])
      BY <3>3, ReplacedOrSame
    <3> QED
      BY <2>2, <3>2, <3>4
  <2>3. Nat \subseteq Good
    BY <2>1, <2>2, Counting
  <2>4. N \in Good
    <3> HIDE DEF Good
    <3> QED
      BY <1>2, <2>3
  <2> QED
    BY <1>2, <2>4
<1>7. f[N] \in Seq(A)
  BY <1>1, <1>2
<1> QED
  BY <1>1, <1>3, <1>5, <1>6, <1>7
-----------------------------------------------------------------------------
(* What the redactor is about to visit and what it has written.               *)

PathNames == Seq(Letters \union MarkerAtoms) \union Range(Index)

\* What a name is replaced with.
Renames == {pair \in PathNames \X PathNames :
    \/ pair[1] \in Seq(Letters) /\ pair[2] = ReplacedText(pair[1])
    \/ pair[1] \in Range(Index) /\ pair[2] = pair[1]}

RedactFrames(N) ==
    {Leaving(n) : n \in N}
        \union [leave : {FALSE}, node : N, key : PathNames \union {NoKey},
                raw : Seq(PathNames), path : Seq(PathNames), depth : Nat]

\* The names of a path are the original ones, replaced.
Named(renames, f) ==
    /\ Len(f.raw) = Len(f.path)
    /\ \A i \in 1..Len(f.path) : <<f.raw[i], f.path[i]>> \in renames
    /\ f.key # NoKey => f.path # <<>> /\ f.key = f.path[Len(f.path)]

HiddenBy(policy, path, key) ==
    \/ path # <<>> /\ Covered(path, policy.deny)
    \/ key # NoKey /\ Contains(key, "s") /\ ~Covered(path, policy.allow)

Forbidden == {c.text : c \in Range(job.policy.texts) \union {Token}}

Clean(forbidden, policy, o) ==
    /\ \A d \in forbidden : ~Occurs(d, o.value)
    /\ HiddenBy(policy, o.path, o.key) => o.value = Marker

Outs(N) == [node : N, key : PathNames \union {NoKey}, raw : Seq(PathNames), path : Seq(PathNames),
            value : Seq(Letters \union MarkerAtoms \union Plain)]

PathsOf(outs) == {o.path : o \in outs}

\* A path that goes on from another one.
Before(p, q) == Len(p) <= Len(q) /\ \A i \in 1..Len(p) : p[i] = q[i]

\* Of what is on the stack, nothing is a part of another.
Free(s) == \A i, j \in DOMAIN s :
    ~s[i].leave /\ ~s[j].leave /\ Before(s[i].path, s[j].path) => i = j

NewTo(outs, s) == \A i \in DOMAIN s, o \in outs : ~s[i].leave => ~Before(s[i].path, o.path)

PlainOut(heap, o) == o.path = o.raw /\ o.value = PlainValue(heap[o.node])
PlainStack(s) == \A i \in DOMAIN s : ~s[i].leave => s[i].path = s[i].raw
NamedStack(renames, s) == \A i \in DOMAIN s : ~s[i].leave => Named(renames, s[i])

RedactState(renames, forbidden, policy, heap, N, s, n, outs, reps) ==
    /\ s \in Seq(RedactFrames(N)) /\ NamedStack(renames, s) /\ Free(s)
    /\ outs \subseteq Outs(N) /\ NewTo(outs, s)
    /\ \A o \in outs : Named(renames, o) /\ Clean(forbidden, policy, o)
    /\ n \in Nat /\ IsFiniteSet(PathsOf(outs)) /\ Cardinality(PathsOf(outs)) = n
    /\ reps \in Nat
    /\ reps = 0 <=> PlainStack(s) /\ \A o \in outs : PlainOut(heap, o)

RedactInv ==
    /\ job \in Jobs /\ verdict \in {"none", "accepted", "raised"}
    /\ job.who = "redactor" =>
          /\ RedactState(Renames, Forbidden, job.policy, job.heap, Nodes, stack, nodes, out, replacements)
          /\ verdict = "accepted" => stack = <<>>

LEMMA RedactFrameFacts ==
    ASSUME NEW N, NEW f \in RedactFrames(N)
    PROVE  /\ f.node \in N /\ f.leave \in BOOLEAN
           /\ ~f.leave => /\ f.key \in PathNames \union {NoKey} /\ f.raw \in Seq(PathNames) /\ f.path \in Seq(PathNames)
                          /\ f.depth \in Nat
<1>1. CASE f \in {Leaving(n) : n \in N}
  <2>1. PICK n \in N : f = Leaving(n)
    BY <1>1
  <2>2. f.node = n /\ f.leave = TRUE
    BY <2>1 DEF Leaving
  <2> QED
    BY <2>1, <2>2
<1>2. CASE f \in [leave : {FALSE}, node : N, key : PathNames \union {NoKey},
                  raw : Seq(PathNames), path : Seq(PathNames), depth : Nat]
  BY <1>2
<1> QED
  BY <1>1, <1>2 DEF RedactFrames

LEMMA VisitTyped ==
    ASSUME NEW N, NEW n \in N, NEW k \in PathNames \union {NoKey}, NEW r \in Seq(PathNames), NEW p \in Seq(PathNames),
           NEW d \in Nat
    PROVE  /\ Visit(n, k, r, p, d) \in RedactFrames(N) /\ Visit(n, k, r, p, d).leave = FALSE
           /\ Visit(n, k, r, p, d).node = n /\ Visit(n, k, r, p, d).key = k
           /\ Visit(n, k, r, p, d).raw = r /\ Visit(n, k, r, p, d).path = p /\ Visit(n, k, r, p, d).depth = d
BY DEF Visit, RedactFrames

LEMMA SameRedactTables ==
    ASSUME UNCHANGED job
    PROVE  Renames' = Renames /\ Forbidden' = Forbidden /\ Nodes' = Nodes
<1>1. ASSUME NEW t PROVE ReplacedText(t)' = ReplacedText(t)
  BY DEF ReplacedText, Configured
<1>2. Renames' = Renames
  BY DEF Renames, ReplacedText, Configured
<1> QED
  BY <1>2 DEF Forbidden, Nodes

\* One atom that is no letter makes no text of letters.
LEMMA SinglesAreClean ==
    ASSUME NEW S, NEW t \in Seq(S), Len(t) = 1, t[1] \notin Letters, NEW d \in Seq(Letters)
    PROVE  ~Occurs(d, t)
<1>1. SUFFICES ASSUME Occurs(d, t) PROVE FALSE
  OBVIOUS
<1>2. PICK A : A = S \union Letters
  OBVIOUS
<1>3. t \in Seq(A) /\ d \in Seq(A)
  BY <1>2, SeqMonotonic
<1>4. PICK i \in 1..Len(t) : At(d, t, i) /\ d # <<>>
  BY <1>1, <1>3, OccursIs
<1>5. Len(d) \in Nat /\ Len(d) >= 1 /\ d[1] \in Letters
  BY <1>4, EmptySeq, ElementOfSeq
<1>6. i = 1 /\ 1 \in 1..Len(d)
  BY <1>4, <1>5
<1>7. t[1 + 1 - 1] = d[1]
  BY <1>4, <1>6 DEF At
<1> QED
  BY <1>5, <1>7
-----------------------------------------------------------------------------
(* The paths on the stack of the redactor.                                    *)

LEMMA BeforeAppend ==
    ASSUME NEW S, NEW p \in Seq(S), NEW q \in Seq(S), NEW x \in S, NEW y \in S
    PROVE  /\ Before(q, q)
           /\ Before(Append(q, x), p) => Before(q, p)
           /\ Before(p, Append(q, x)) => Before(p, q) \/ Before(q, p)
           /\ ~Before(Append(q, x), q)
           /\ Before(Append(q, x), Append(q, y)) => x = y
<1>1. PICK a, b, n : a = Append(q, x) /\ b = Append(q, y) /\ n = Len(q)
  OBVIOUS
<1>2. /\ n \in Nat /\ Len(p) \in Nat /\ Len(a) = n + 1 /\ Len(b) = n + 1
      /\ \A i \in 1..n : a[i] = q[i] /\ b[i] = q[i]
      /\ a[n + 1] = x /\ b[n + 1] = y
  BY <1>1, AppendProperties, LenProperties
<1>3. Before(q, q)
  BY <1>1, <1>2 DEF Before
<1>4. Before(a, p) => Before(q, p)
  <2>1. SUFFICES ASSUME Before(a, p) PROVE Before(q, p)
    OBVIOUS
  <2>2. n + 1 <= Len(p) /\ \A i \in 1..(n + 1) : a[i] = p[i]
    BY <1>2, <2>1 DEF Before
  <2>3. n <= Len(p) /\ \A i \in 1..n : q[i] = p[i]
    BY <1>2, <2>2
  <2> QED
    BY <1>1, <2>3 DEF Before
<1>5. Before(p, a) => Before(p, q) \/ Before(q, p)
  <2>1. SUFFICES ASSUME Before(p, a) PROVE Before(p, q) \/ Before(q, p)
    OBVIOUS
  <2>2. Len(p) <= n + 1 /\ \A i \in 1..Len(p) : p[i] = a[i]
    BY <1>2, <2>1 DEF Before
  <2>3. CASE Len(p) <= n
    <3>1. \A i \in 1..Len(p) : p[i] = q[i]
      BY <1>2, <2>2, <2>3
    <3> QED
      BY <1>1, <2>3, <3>1 DEF Before
  <2>4. CASE ~(Len(p) <= n)
    <3>1. n <= Len(p) /\ \A i \in 1..n : q[i] = p[i]
      BY <1>2, <2>2, <2>4
    <3> QED
      BY <1>1, <3>1 DEF Before
  <2> QED
    BY <2>3, <2>4
<1>6. ~Before(a, q)
  BY <1>1, <1>2 DEF Before
<1>7. Before(a, b) => x = y
  <2>1. n + 1 \in 1..Len(a)
    BY <1>2
  <2> QED
    BY <1>2, <2>1 DEF Before
<1> QED
  BY <1>1, <1>3, <1>4, <1>5, <1>6, <1>7

\* A frame none of whose path is a part of another path on the stack.
Loose(f, s) == \A i \in DOMAIN s : ~s[i].leave => ~Before(f.path, s[i].path) /\ ~Before(s[i].path, f.path)

Unwritten(outs, f) == \A o \in outs : ~Before(f.path, o.path)

\* The next one is taken from the stack.
LEMMA RedactPopped ==
    ASSUME NEW N, NEW s \in Seq(RedactFrames(N)), s # <<>>, NEW outs, NEW renames,
           NamedStack(renames, s), Free(s), NewTo(outs, s)
    PROVE  LET r == Front(s)
               f == Last(s)
           IN /\ r \in Seq(RedactFrames(N)) /\ f \in RedactFrames(N)
              /\ NamedStack(renames, r) /\ Free(r) /\ NewTo(outs, r)
              /\ PlainStack(s) <=> PlainStack(r) /\ (~f.leave => f.path = f.raw)
              /\ ~f.leave => Named(renames, f) /\ Loose(f, r) /\ Unwritten(outs, f)
<1>1. PICK F : F = RedactFrames(N)
  OBVIOUS
<1>2. PICK r, f, n : r = Front(s) /\ f = Last(s) /\ n = Len(s)
  OBVIOUS
<1>3. /\ r \in Seq(F) /\ f \in F
      /\ n \in Nat /\ n >= 1 /\ Len(r) = n - 1 /\ s[n] = f
      /\ \A i \in 1..(n - 1) : r[i] = s[i]
  <2>1. s \in Seq(F)
    BY <1>1
  <2>2. /\ Front(s) \in Seq(F) /\ Last(s) \in F
        /\ Len(s) \in Nat /\ Len(s) >= 1 /\ Len(Front(s)) = Len(s) - 1
        /\ \A i \in 1..(Len(s) - 1) : Front(s)[i] = s[i]
        /\ Last(s) = s[Len(s)]
    BY <2>1, FrontAndLast
  <2> QED
    BY <1>2, <2>2
<1>4. DOMAIN s = 1..n /\ DOMAIN r = 1..(n - 1)
  BY <1>2, <1>3, LenProperties
<1>5. \A i \in DOMAIN r : i \in DOMAIN s /\ r[i] = s[i] /\ i # n
  BY <1>3, <1>4
<1>6. \A i \in DOMAIN s : i = n \/ i \in DOMAIN r
  BY <1>3, <1>4
<1>7. n \in DOMAIN s /\ s[n] = f
  BY <1>3, <1>4
<1>8. NamedStack(renames, r) /\ Free(r) /\ NewTo(outs, r)
  <2>1. NamedStack(renames, r)
    BY <1>5, Zenon DEF NamedStack
  <2>2. Free(r)
    BY <1>5, Zenon DEF Free
  <2>3. NewTo(outs, r)
    BY <1>5, Zenon DEF NewTo
  <2> QED
    BY <2>1, <2>2, <2>3
<1>9. PlainStack(s) <=> PlainStack(r) /\ (~f.leave => f.path = f.raw)
  BY <1>5, <1>6, <1>7, Zenon DEF PlainStack
<1>10. ASSUME ~f.leave PROVE Named(renames, f) /\ Loose(f, r) /\ Unwritten(outs, f)
  <2>1. Named(renames, f)
    BY <1>7, <1>10, Zenon DEF NamedStack
  <2>2. Loose(f, r)
    BY <1>5, <1>7, <1>10, Zenon DEF Free, Loose
  <2>3. Unwritten(outs, f)
    BY <1>7, <1>10, Zenon DEF NewTo, Unwritten
  <2> QED
    BY <2>1, <2>2, <2>3
<1> QED
  BY <1>1, <1>2, <1>3, <1>8, <1>9, <1>10, Zenon

\* What has been visited is written, where nothing has been.
LEMMA WrittenPath ==
    ASSUME NEW f, NEW outs, NEW o, o.path = f.path, Unwritten(outs, f), f.path \in Seq(PathNames),
           IsFiniteSet(PathsOf(outs))
    PROVE  /\ IsFiniteSet(PathsOf(outs \union {o}))
           /\ Cardinality(PathsOf(outs \union {o})) = Cardinality(PathsOf(outs)) + 1
<1>2. PICK P, x : P = PathsOf(outs) /\ x = f.path
  OBVIOUS
<1>3. PathsOf(outs \union {o}) = P \union {x}
  BY <1>2 DEF PathsOf
<1>4. x \notin P
  <2>1. SUFFICES ASSUME x \in P PROVE FALSE
    OBVIOUS
  <2>2. PICK p \in outs : p.path = x
    BY <1>2, <2>1 DEF PathsOf
  <2>3. Before(x, x)
    <3>1. Len(x) \in Nat
      BY <1>2, LenProperties
    <3> QED
      BY <3>1 DEF Before
  <2> QED
    BY <1>2, <2>2, <2>3, Zenon DEF Unwritten
<1>5. IsFiniteSet(P)
  BY <1>2
<1>6. IsFiniteSet(P \union {x}) /\ Cardinality(P \union {x}) = Cardinality(P) + 1
  BY <1>4, <1>5, FS_AddElement
<1> QED
  BY <1>2, <1>3, <1>6

\* The frames for the items of what is at a path, and none of them twice.
Grown(f, c) == \A i \in DOMAIN c : ~c[i].leave => \E x \in PathNames : c[i].path = Append(f.path, x)
Different(c) == \A i, j \in DOMAIN c : ~c[i].leave /\ ~c[j].leave /\ c[i].path = c[j].path => i = j

LEMMA RedactPut ==
    ASSUME NEW N, NEW r \in Seq(RedactFrames(N)), NEW c \in Seq(RedactFrames(N)),
           NEW f, f.path \in Seq(PathNames), NEW outs, NEW renames,
           \A o \in outs : o.path \in Seq(PathNames),
           NamedStack(renames, r), Free(r), NewTo(outs, r), Loose(f, r),
           NamedStack(renames, c), Grown(f, c), Different(c), NewTo(outs, c)
    PROVE  LET t == r \o c
           IN /\ t \in Seq(RedactFrames(N))
              /\ NamedStack(renames, t) /\ Free(t) /\ NewTo(outs, t)
              /\ PlainStack(t) <=> PlainStack(r) /\ PlainStack(c)
              /\ (\A i \in DOMAIN c : c[i].leave) => Loose(f, t)
<1>1. PICK F, t, m, q : F = RedactFrames(N) /\ t = r \o c /\ m = Len(r) /\ q = f.path
  OBVIOUS
<1>2. /\ r \in Seq(F) /\ c \in Seq(F) /\ m \in Nat /\ Len(c) \in Nat
      /\ DOMAIN r = 1..m /\ DOMAIN c = 1..Len(c)
  BY <1>1, LenProperties
<1>3. /\ t \in Seq(F) /\ Len(t) = m + Len(c)
      /\ \A i \in 1..m + Len(c) : t[i] = IF i <= m THEN r[i] ELSE c[i - m]
  BY <1>1, <1>2, ConcatProperties
<1>4. DOMAIN t = 1..(m + Len(c))
  BY <1>3, LenProperties
<1>5. \A i \in DOMAIN t : \/ i \in DOMAIN r /\ t[i] = r[i]
                          \/ i - m \in DOMAIN c /\ t[i] = c[i - m]
  BY <1>2, <1>3, <1>4
<1>6. \A i \in DOMAIN r : i \in DOMAIN t /\ t[i] = r[i]
  BY <1>2, <1>3, <1>4
<1>7. \A i \in DOMAIN c : i + m \in DOMAIN t /\ t[i + m] = c[i]
  BY <1>2, <1>3, <1>4
<1>8. \A i \in DOMAIN r : ~r[i].leave => r[i].path \in Seq(PathNames)
  <2>1. \A i \in DOMAIN r : r[i] \in RedactFrames(N)
    BY <1>1, <1>2, ElementOfSeq
  <2> QED
    BY <2>1, RedactFrameFacts, Zenon
<1>9. ASSUME NEW i \in DOMAIN r, ~r[i].leave PROVE ~Before(q, r[i].path) /\ ~Before(r[i].path, q)
  BY <1>1, <1>9, Zenon DEF Loose
<1>10. NamedStack(renames, t)
  <2>1. SUFFICES ASSUME NEW i \in DOMAIN t, ~t[i].leave PROVE Named(renames, t[i])
    BY Zenon DEF NamedStack
  <2> QED
    BY <1>5, <2>1, Zenon DEF NamedStack
<1>11. NewTo(outs, t)
  <2>1. SUFFICES ASSUME NEW i \in DOMAIN t, NEW o \in outs, ~t[i].leave PROVE ~Before(t[i].path, o.path)
    BY Zenon DEF NewTo
  <2> QED
    BY <1>5, <2>1, Zenon DEF NewTo
<1>12. PlainStack(t) <=> PlainStack(r) /\ PlainStack(c)
  <2>1. ASSUME PlainStack(t) PROVE PlainStack(r) /\ PlainStack(c)
    BY <1>6, <1>7, <2>1, Zenon DEF PlainStack
  <2>2. ASSUME PlainStack(r), PlainStack(c) PROVE PlainStack(t)
    BY <1>5, <2>2, Zenon DEF PlainStack
  <2> QED
    BY <2>1, <2>2, Zenon
<1>13. (\A i \in DOMAIN c : c[i].leave) => Loose(f, t)
  BY <1>5, Zenon DEF Loose
<1>14. ASSUME NEW i \in DOMAIN r, NEW j \in DOMAIN c, ~r[i].leave, ~c[j].leave
       PROVE  ~Before(r[i].path, c[j].path) /\ ~Before(c[j].path, r[i].path)
  <2>1. PICK x \in PathNames : c[j].path = Append(q, x)
    BY <1>1, <1>14, Zenon DEF Grown
  <2>2. r[i].path \in Seq(PathNames) /\ q \in Seq(PathNames)
    BY <1>1, <1>8, <1>14
  <2>3. /\ Before(Append(q, x), r[i].path) => Before(q, r[i].path)
        /\ Before(r[i].path, Append(q, x)) => Before(r[i].path, q) \/ Before(q, r[i].path)
    BY <2>2, BeforeAppend
  <2> QED
    BY <1>9, <1>14, <2>1, <2>3
<1>15. ASSUME NEW i \in DOMAIN c, NEW j \in DOMAIN c, ~c[i].leave, ~c[j].leave,
              Before(c[i].path, c[j].path)
       PROVE  i = j
  <2>1. PICK x \in PathNames : c[i].path = Append(q, x)
    BY <1>1, <1>15, Zenon DEF Grown
  <2>2. PICK y \in PathNames : c[j].path = Append(q, y)
    BY <1>1, <1>15, Zenon DEF Grown
  <2>3. q \in Seq(PathNames)
    BY <1>1
  <2>4. Before(Append(q, x), Append(q, y)) => x = y
    BY <2>3, BeforeAppend
  <2> QED
    BY <1>15, <2>1, <2>2, <2>4, Zenon DEF Different
<1>16. Free(t)
  <2>1. SUFFICES ASSUME NEW i \in DOMAIN t, NEW j \in DOMAIN t, ~t[i].leave, ~t[j].leave,
                        Before(t[i].path, t[j].path)
                 PROVE  i = j
    BY Zenon DEF Free
  <2>2. CASE i \in DOMAIN r /\ t[i] = r[i]
    <3>1. CASE j \in DOMAIN r /\ t[j] = r[j]
      BY <2>1, <2>2, <3>1, Zenon DEF Free
    <3>2. CASE j - m \in DOMAIN c /\ t[j] = c[j - m]
      BY <1>14, <2>1, <2>2, <3>2, Zenon
    <3> QED
      BY <1>5, <3>1, <3>2, Zenon
  <2>3. CASE i - m \in DOMAIN c /\ t[i] = c[i - m]
    <3>1. CASE j \in DOMAIN r /\ t[j] = r[j]
      BY <1>14, <2>1, <2>3, <3>1, Zenon
    <3>2. CASE j - m \in DOMAIN c /\ t[j] = c[j - m]
      <4>1. i - m = j - m
        BY <1>15, <2>1, <2>3, <3>2, Zenon
      <4> QED
        BY <1>2, <1>4, <4>1
    <3> QED
      BY <1>5, <3>1, <3>2, Zenon
  <2> QED
    BY <1>5, <2>2, <2>3, Zenon
<1> QED
  BY <1>1, <1>3, <1>10, <1>11, <1>12, <1>13, <1>16, Zenon

\* The frames of the items come after what is written of the container itself.
LEMMA ItemsAreNew ==
    ASSUME NEW c, NEW f, f.path \in Seq(PathNames), NEW outs, NEW o, o.path = f.path,
           \A p \in outs : p.path \in Seq(PathNames),
           Grown(f, c), Unwritten(outs, f)
    PROVE  NewTo(outs \union {o}, c)
<1>1. SUFFICES ASSUME NEW i \in DOMAIN c, NEW p \in outs \union {o}, ~c[i].leave
               PROVE  ~Before(c[i].path, p.path)
  BY Zenon DEF NewTo
<1>2. PICK q : q = f.path
  OBVIOUS
<1>3. q \in Seq(PathNames)
  BY <1>2
<1>4. PICK x \in PathNames : c[i].path = Append(q, x)
  BY <1>1, <1>2, Zenon DEF Grown
<1>5. CASE p \in outs
  <2>1. p.path \in Seq(PathNames) /\ ~Before(q, p.path)
    BY <1>2, <1>5, Zenon DEF Unwritten
  <2>2. Before(Append(q, x), p.path) => Before(q, p.path)
    BY <1>3, <2>1, BeforeAppend
  <2> QED
    BY <1>4, <2>1, <2>2
<1>6. CASE p = o
  <2>1. ~Before(Append(q, x), q)
    BY <1>3, BeforeAppend
  <2> QED
    BY <1>2, <1>4, <1>6, <2>1
<1> QED
  BY <1>1, <1>5, <1>6
-----------------------------------------------------------------------------
(* What is counted as a replacement.                                          *)

LEMMA MarksAreFinite ==
    ASSUME NEW k \in Nat, NEW marks, \A i \in 1..k : IsFiniteSet(marks[i])
    PROVE  LET all == UNION {{i} \X marks[i] : i \in 1..k}
           IN Cardinality(all) \in Nat /\ (Cardinality(all) = 0 <=> \A i \in 1..k : marks[i] = {})
<1>1. PICK T, g, all : /\ T = {{i} \X marks[i] : i \in 1..k}
                       /\ g = [i \in 1..k |-> {i} \X marks[i]]
                       /\ all = UNION {{i} \X marks[i] : i \in 1..k}
  OBVIOUS
<1>2. g \in Surjection(1..k, T)
  <2>1. g \in [1..k -> T] /\ \A t \in T : \E i \in 1..k : g[i] = t
    BY <1>1
  <2> QED
    BY <2>1, Zenon DEF Surjection
<1>3. IsFiniteSet(1..k)
  BY FS_Interval
<1>4. IsFiniteSet(T)
  BY <1>2, <1>3, FS_Surjection
<1>5. \A t \in T : IsFiniteSet(t)
  <2>1. SUFFICES ASSUME NEW i \in 1..k PROVE IsFiniteSet({i} \X marks[i])
    BY <1>1
  <2>2. IsFiniteSet({i}) /\ IsFiniteSet(marks[i])
    BY FS_Singleton
  <2> QED
    BY <2>2, FS_Product
<1>6. IsFiniteSet(all)
  <2>1. IsFiniteSet(UNION T)
    BY <1>4, <1>5, FS_UNION
  <2> QED
    BY <1>1, <2>1
<1>7. Cardinality(all) \in Nat /\ (Cardinality(all) = 0 <=> all = {})
  BY <1>6, FS_EmptySet, FS_CardinalityType
<1>8. all = {} => \A i \in 1..k : marks[i] = {}
  <2>1. SUFFICES ASSUME NEW i \in 1..k, NEW x \in marks[i] PROVE <<i, x>> \in all
    OBVIOUS
  <2>2. <<i, x>> \in {i} \X marks[i]
    BY <2>1
  <2> QED
    BY <1>1, <2>2, Zenon
<1>9. (\A i \in 1..k : marks[i] = {}) => all = {}
  <2>1. SUFFICES ASSUME \A i \in 1..k : marks[i] = {}, NEW y \in all PROVE FALSE
    OBVIOUS
  <2>2. PICK i \in 1..k : y \in {i} \X marks[i]
    BY <1>1, <2>1, Zenon
  <2>3. marks[i] = {}
    BY <2>1
  <2> QED
    BY <2>2, <2>3
<1> QED
  BY <1>1, <1>7, <1>8, <1>9, Zenon

LEMMA MarkersAre ==
    ASSUME NEW S, NEW text \in Seq(S)
    PROVE  /\ IsFiniteSet(MarkersAt(text)) /\ Markers(text) \in Nat
           /\ Markers(text) = 0 <=> ~HasMarker(text)
           /\ MarkersAt(text) = {} <=> ~HasMarker(text)
<1>1. Len(text) \in Nat /\ DOMAIN text = 1..Len(text)
  BY LenProperties
<1>2. MarkersAt(text) \in SUBSET (1..Len(text))
  BY <1>1 DEF MarkersAt
<1>3. IsFiniteSet(1..Len(text))
  BY <1>1, FS_Interval
<1>4. IsFiniteSet(MarkersAt(text))
  BY <1>2, <1>3, FS_Subset
<1>5. MarkersAt(text) = {} <=> ~HasMarker(text)
  BY DEF MarkersAt, HasMarker
<1> QED
  BY <1>4, <1>5, FS_EmptySet, FS_CardinalityType DEF Markers

LEMMA LettersHaveNoMarker ==
    ASSUME NEW text \in Seq(Letters)
    PROVE  ~HasMarker(text)
<1>1. \A i \in DOMAIN text : text[i] \in Letters
  BY ElementOfSeq, LenProperties
<1> QED
  BY <1>1, LettersAssumption DEF HasMarker

\* A text that is replaced is another one exactly when there is a marker in it.
LEMMA RenamedIs ==
    ASSUME job \in Jobs, NEW text \in Seq(Letters)
    PROVE  /\ ReplacedText(text) \in Seq(Letters \union MarkerAtoms)
           /\ Markers(ReplacedText(text)) \in Nat /\ IsFiniteSet(MarkersAt(ReplacedText(text)))
           /\ Markers(ReplacedText(text)) = 0 <=> ReplacedText(text) = text
           /\ MarkersAt(ReplacedText(text)) = {} <=> ReplacedText(text) = text
           /\ \A d \in Forbidden : ~Occurs(d, ReplacedText(text))
           /\ <<text, ReplacedText(text)>> \in Renames
           /\ text \in PathNames /\ ReplacedText(text) \in PathNames
<1>1. PICK A, r : A = Letters \union MarkerAtoms /\ r = ReplacedText(text)
  OBVIOUS
<1>2. text \in Seq(A) /\ MarkerAtoms \subseteq A /\ Letters \subseteq A
  BY <1>1, SeqMonotonic
<1>3. /\ r \in Seq(A)
      /\ \A c \in Range(job.policy.texts) \union {Token} : ~Occurs(c.text, r)
      /\ r = text \/ HasMarker(r)
  BY <1>1, <1>2, ReplacedTextFacts
<1>4. ~HasMarker(text)
  BY LettersHaveNoMarker
<1>5. r = text <=> ~HasMarker(r)
  BY <1>3, <1>4
<1>6. /\ IsFiniteSet(MarkersAt(r)) /\ Markers(r) \in Nat
      /\ Markers(r) = 0 <=> ~HasMarker(r)
      /\ MarkersAt(r) = {} <=> ~HasMarker(r)
  BY <1>3, MarkersAre
<1>7. \A d \in Forbidden : ~Occurs(d, r)
  BY <1>3, Zenon DEF Forbidden
<1>8. text \in PathNames /\ r \in PathNames
  BY <1>1, <1>2, <1>3 DEF PathNames
<1>9. <<text, r>> \in Renames
  BY <1>1, <1>8 DEF Renames
<1> QED
  BY <1>1, <1>3, <1>5, <1>6, <1>7, <1>8, <1>9
-----------------------------------------------------------------------------
(* The items of a container.                                                  *)

Originals(n) == [i \in DOMAIN Obj(n).items |->
    IF Obj(n).type = "dict" THEN Str(Obj(n).items[i].key) ELSE Index[i]]
NewNames(n) == [i \in DOMAIN Obj(n).items |->
    IF Obj(n).type = "dict" THEN NewKeys(n)[i] ELSE Index[i]]

\* The names of the items are all different, and none of them is counted as a
\* replacement exactly when they are the original ones.
LEMMA NamesOfItems ==
    ASSUME job \in Jobs, NEW n \in Nodes, Obj(n).type \in Containers,
           Obj(n).type = "dict" => IsInjective(NewKeys(n)),
           NEW m, m = Len(Obj(n).items)
    PROVE  /\ m \in Nat /\ DOMAIN Obj(n).items = 1..m /\ \A i \in 1..m : Obj(n).items[i].to \in Nodes
           /\ \A i \in 1..m : /\ Originals(n)[i] \in PathNames /\ NewNames(n)[i] \in PathNames
                              /\ <<Originals(n)[i], NewNames(n)[i]>> \in Renames
           /\ \A i, j \in 1..m : NewNames(n)[i] = NewNames(n)[j] => i = j
           /\ KeyReplacements(n) \in Nat
           /\ KeyReplacements(n) = 0 <=> \A i \in 1..m : NewNames(n)[i] = Originals(n)[i]
<1>1. PICK items, K, keys : /\ items = Obj(n).items
                            /\ K = [key : Seq(Letters) \union {NotStr, NoKey}, to : 1..Len(job.heap)]
                            /\ keys = NewKeys(n)
  OBVIOUS
<1>2. /\ IsHeapObject(Obj(n), Len(job.heap)) /\ Nodes = 1..Len(job.heap)
  BY HeapTyped
<1>3. /\ items \in Seq(K)
      /\ Obj(n).type = "dict" => \A i \in DOMAIN items : items[i].key # NoKey
      /\ Obj(n).type = "list" => Len(items) <= Len(Index)
  BY <1>1, <1>2 DEF IsHeapObject
<1>4. m \in Nat /\ DOMAIN items = 1..m /\ \A i \in 1..m : items[i] \in K
  BY <1>1, <1>3, ElementOfSeq, LenProperties
<1>5. \A i \in 1..m : items[i].to \in Nodes /\ items[i].key \in Seq(Letters) \union {NotStr, NoKey}
  BY <1>1, <1>2, <1>4
<1>6. DOMAIN keys = 1..m
  BY <1>1, <1>4 DEF NewKeys
<1>7. CASE Obj(n).type = "dict"
  <2>1. \A i \in 1..m : /\ Originals(n)[i] = Str(items[i].key) /\ NewNames(n)[i] = keys[i]
                        /\ keys[i] = ReplacedText(Str(items[i].key))
    BY <1>1, <1>4, <1>7 DEF Originals, NewNames, NewKeys
  <2>2. ASSUME NEW i \in 1..m PROVE Str(items[i].key) \in Seq(Letters)
    <3>1. items[i].key # NoKey
      BY <1>3, <1>4, <1>7
    <3>2. <<"k">> \in Seq(Letters)
      BY LettersAssumption
    <3> QED
      BY <1>5, <3>1, <3>2 DEF Str
  <2>3. ASSUME NEW i \in 1..m
        PROVE  /\ Originals(n)[i] \in PathNames /\ NewNames(n)[i] \in PathNames
               /\ <<Originals(n)[i], NewNames(n)[i]>> \in Renames
               /\ IsFiniteSet(MarkersAt(keys[i]))
               /\ MarkersAt(keys[i]) = {} <=> NewNames(n)[i] = Originals(n)[i]
    <3>1. PICK t : t = Str(items[i].key)
      OBVIOUS
    <3>2. t \in Seq(Letters)
      BY <2>2, <3>1
    <3> QED
      BY <2>1, <3>1, <3>2, RenamedIs
  <2>4. \A i, j \in 1..m : NewNames(n)[i] = NewNames(n)[j] => i = j
    BY SMTT(60), <1>1, <1>6, <1>7, <2>1 DEF IsInjective
  <2>5. PICK marks : marks = [i \in 1..m |-> MarkersAt(keys[i])]
    OBVIOUS
  <2>6. \A i \in 1..m : IsFiniteSet(marks[i]) /\ (marks[i] = {} <=> NewNames(n)[i] = Originals(n)[i])
    BY <2>3, <2>5
  <2>7. KeyReplacements(n) = Cardinality(UNION {{i} \X marks[i] : i \in 1..m})
    <3>1. {{i} \X MarkersAt(keys[i]) : i \in 1..m} = {{i} \X marks[i] : i \in 1..m}
      BY <2>5
    <3> QED
      BY <1>1, <1>6, <3>1 DEF KeyReplacements
  <2>8. KeyReplacements(n) \in Nat /\ (KeyReplacements(n) = 0 <=> \A i \in 1..m : marks[i] = {})
    <3>1. \A i \in 1..m : IsFiniteSet(marks[i])
      BY <2>6
    <3>2. PICK all : all = UNION {{i} \X marks[i] : i \in 1..m}
      OBVIOUS
    <3>3. Cardinality(all) \in Nat /\ (Cardinality(all) = 0 <=> \A i \in 1..m : marks[i] = {})
      BY <1>4, <3>1, <3>2, MarksAreFinite
    <3> QED
      BY <2>7, <3>2, <3>3
  <2> QED
    BY <1>1, <1>4, <1>5, <2>3, <2>4, <2>6, <2>8
<1>8. CASE Obj(n).type # "dict"
  <2>1. Obj(n).type = "list"
    BY <1>8 DEF Containers
  <2>2. \A i \in 1..m : Originals(n)[i] = Index[i] /\ NewNames(n)[i] = Index[i]
    BY <1>1, <1>4, <1>8 DEF Originals, NewNames
  <2>3. m <= Len(Index) /\ Len(Index) \in Nat /\ DOMAIN Index = 1..Len(Index)
    BY <1>1, <1>3, <2>1, IndexAssumption, LenProperties
  <2>4. \A i \in 1..m : i \in DOMAIN Index
    BY <1>4, <2>3
  <2>5. \A i \in 1..m : Index[i] \in Range(Index)
    BY <2>4, Zenon DEF Range
  <2>6. \A i \in 1..m : Index[i] \in PathNames
    BY <2>5 DEF PathNames
  <2>7. ASSUME NEW i \in 1..m PROVE <<Index[i], Index[i]>> \in Renames
    BY <2>5, <2>6 DEF Renames
  <2>8. \A i, j \in 1..m : NewNames(n)[i] = NewNames(n)[j] => i = j
    BY <2>2, <2>4, IndexAssumption DEF IsInjective
  <2>9. PICK marks : marks = [i \in 1..m |-> MarkersAt(keys[i])]
    OBVIOUS
  <2>10. \A i \in 1..m : marks[i] = {}
    <3>1. \A i \in 1..m : keys[i] = <<>>
      BY <1>1, <1>4, <1>8 DEF NewKeys
    <3>2. MarkersAt(<<>>) = {}
      BY DEF MarkersAt
    <3> QED
      BY <2>9, <3>1, <3>2
  <2>11. KeyReplacements(n) = Cardinality(UNION {{i} \X marks[i] : i \in 1..m})
    <3>1. {{i} \X MarkersAt(keys[i]) : i \in 1..m} = {{i} \X marks[i] : i \in 1..m}
      BY <2>9
    <3> QED
      BY <1>1, <1>6, <3>1 DEF KeyReplacements
  <2>12. \A i \in 1..m : IsFiniteSet(marks[i])
    BY <2>10, FS_EmptySet
  <2>13. KeyReplacements(n) \in Nat /\ KeyReplacements(n) = 0
    BY ZenonT(60), <1>4, <2>10, <2>11, <2>12, MarksAreFinite
  <2> QED
    BY <1>1, <1>4, <1>5, <2>2, <2>6, <2>7, <2>8, <2>13
<1> QED
  BY <1>7, <1>8

LEMMA RedactedChildrenOf ==
    ASSUME job \in Jobs, NEW f \in RedactFrames(Nodes), ~f.leave, Named(Renames, f),
           Obj(f.node).type \in Containers,
           Obj(f.node).type = "dict" => IsInjective(NewKeys(f.node)),
           NEW c, c = RedactedChildren(f)
    PROVE  /\ c \in Seq(RedactFrames(Nodes)) /\ NamedStack(Renames, c) /\ Grown(f, c) /\ Different(c)
           /\ KeyReplacements(f.node) \in Nat
           /\ f.path = f.raw => (PlainStack(c) <=> KeyReplacements(f.node) = 0)
<1>1. PICK n, m, raw, path, d : /\ n = f.node /\ m = Len(Obj(n).items)
                                /\ raw = f.raw /\ path = f.path /\ d = f.depth + 1
  OBVIOUS
<1>2. n \in Nodes /\ raw \in Seq(PathNames) /\ path \in Seq(PathNames) /\ d \in Nat
  <2>1. f.node \in Nodes /\ f.raw \in Seq(PathNames) /\ f.path \in Seq(PathNames) /\ f.depth \in Nat
    BY RedactFrameFacts
  <2> QED
    BY <1>1, <2>1
<1>3. PICK old, new : old = Originals(n) /\ new = NewNames(n)
  OBVIOUS
<1>4. /\ m \in Nat /\ DOMAIN Obj(n).items = 1..m /\ \A i \in 1..m : Obj(n).items[i].to \in Nodes
      /\ \A i \in 1..m : /\ old[i] \in PathNames /\ new[i] \in PathNames /\ <<old[i], new[i]>> \in Renames
      /\ \A i, j \in 1..m : new[i] = new[j] => i = j
      /\ KeyReplacements(n) \in Nat
      /\ KeyReplacements(n) = 0 <=> \A i \in 1..m : new[i] = old[i]
  BY SMTT(60), <1>1, <1>2, <1>3, NamesOfItems
<1>5. PICK key : key = [i \in 1..m |-> IF Obj(n).type = "dict" THEN new[i] ELSE NoKey]
  OBVIOUS
<1>6. c = [i \in 1..m |-> Visit(Obj(n).items[i].to, key[i], Append(raw, old[i]), Append(path, new[i]), d)]
  <2>1. c = [i \in 1..m |->
          Visit(Obj(n).items[i].to, IF Obj(n).type = "dict" THEN NewKeys(n)[i] ELSE NoKey,
                Append(raw, IF Obj(n).type = "dict" THEN Str(Obj(n).items[i].key) ELSE Index[i]),
                Append(path, IF Obj(n).type = "dict" THEN NewKeys(n)[i] ELSE Index[i]), d)]
    BY <1>1, <1>4 DEF RedactedChildren
  <2>2. \A i \in 1..m :
          /\ old[i] = IF Obj(n).type = "dict" THEN Str(Obj(n).items[i].key) ELSE Index[i]
          /\ new[i] = IF Obj(n).type = "dict" THEN NewKeys(n)[i] ELSE Index[i]
          /\ key[i] = IF Obj(n).type = "dict" THEN NewKeys(n)[i] ELSE NoKey
    BY <1>3, <1>4, <1>5 DEF Originals, NewNames
  <2> QED
    BY <2>1, <2>2
<1>7. \A i \in 1..m : /\ key[i] \in PathNames \union {NoKey} /\ (key[i] = NoKey \/ key[i] = new[i])
                      /\ Append(raw, old[i]) \in Seq(PathNames) /\ Append(path, new[i]) \in Seq(PathNames)
  <2>1. SUFFICES ASSUME NEW i \in 1..m
                 PROVE  /\ key[i] \in PathNames \union {NoKey} /\ (key[i] = NoKey \/ key[i] = new[i])
                        /\ Append(raw, old[i]) \in Seq(PathNames) /\ Append(path, new[i]) \in Seq(PathNames)
    OBVIOUS
  <2>2. old[i] \in PathNames /\ new[i] \in PathNames
    BY <1>4
  <2>3. Append(raw, old[i]) \in Seq(PathNames) /\ Append(path, new[i]) \in Seq(PathNames)
    BY <1>2, <2>2, AppendProperties
  <2>4. key[i] = NoKey \/ key[i] = new[i]
    BY <1>5
  <2> QED
    BY <2>2, <2>3, <2>4
<1>8. ASSUME NEW i \in 1..m
      PROVE  /\ c[i] \in RedactFrames(Nodes) /\ ~c[i].leave /\ c[i].key = key[i]
             /\ c[i].raw = Append(raw, old[i]) /\ c[i].path = Append(path, new[i])
  <2>1. PICK t, k, r, p : /\ t = Obj(n).items[i].to /\ k = key[i]
                          /\ r = Append(raw, old[i]) /\ p = Append(path, new[i])
    OBVIOUS
  <2>2. t \in Nodes /\ k \in PathNames \union {NoKey} /\ r \in Seq(PathNames) /\ p \in Seq(PathNames) /\ c[i] = Visit(t, k, r, p, d)
    BY <1>4, <1>6, <1>7, <2>1
  <2>3. /\ Visit(t, k, r, p, d) \in RedactFrames(Nodes) /\ Visit(t, k, r, p, d).leave = FALSE
        /\ Visit(t, k, r, p, d).key = k /\ Visit(t, k, r, p, d).raw = r /\ Visit(t, k, r, p, d).path = p
    <3>1. Visit(t, k, r, p, d) \in RedactFrames(Nodes)
      BY <1>2, <2>2, VisitTyped
    <3> QED
      BY <3>1 DEF Visit
  <2> QED
    BY <2>1, <2>2, <2>3
<1>9. c \in Seq(RedactFrames(Nodes)) /\ DOMAIN c = 1..m
  <2>1. DOMAIN c = 1..m /\ \A i \in 1..m : c[i] \in RedactFrames(Nodes)
    BY <1>6, <1>8
  <2>2. PICK F : F = RedactFrames(Nodes)
    OBVIOUS
  <2>3. c = [i \in 1..m |-> c[i]] /\ \A i \in 1..m : c[i] \in F
    BY <1>6, <2>1, <2>2
  <2>4. c \in [1..m -> F]
    BY <2>3
  <2>5. c \in Seq(F)
    BY <1>4, <2>4
  <2> QED
    BY <2>1, <2>2, <2>5
<1>10. ASSUME NEW i \in 1..m PROVE Named(Renames, c[i])
  <2>1. PICK a, b, x, y : /\ a = Append(raw, x) /\ b = Append(path, y) /\ x = old[i] /\ y = new[i]
    OBVIOUS
  <2>2. PICK k \in Nat : k = Len(path)
    BY <1>2, LenProperties
  <2>3. x \in PathNames /\ y \in PathNames /\ <<x, y>> \in Renames
    BY <1>4, <2>1
  <2>4. Len(raw) = k /\ \A j \in 1..k : <<raw[j], path[j]>> \in Renames
    BY <1>1, <2>2, Zenon DEF Named
  <2>5. /\ a \in Seq(PathNames) /\ Len(a) = k + 1 /\ a[k + 1] = x /\ \A j \in 1..k : a[j] = raw[j]
        /\ b \in Seq(PathNames) /\ Len(b) = k + 1 /\ b[k + 1] = y /\ \A j \in 1..k : b[j] = path[j]
    BY <1>2, <2>1, <2>2, <2>3, <2>4, AppendProperties
  <2>6. ASSUME NEW j \in 1..(k + 1) PROVE <<a[j], b[j]>> \in Renames
    <3>1. CASE j = k + 1
      BY <2>3, <2>5, <3>1
    <3>2. CASE j # k + 1
      <4>1. j \in 1..k
        BY <3>2
      <4> QED
        BY <2>4, <2>5, <4>1
    <3> QED
      BY <3>1, <3>2
  <2>7. b # <<>>
    BY <2>5, EmptySeq
  <2>8. c[i].raw = a /\ c[i].path = b /\ (c[i].key = NoKey \/ c[i].key = y)
    BY <1>7, <1>8, <2>1
  <2>9. Len(a) = Len(b) /\ \A j \in 1..Len(b) : <<a[j], b[j]>> \in Renames
    BY <2>5, <2>6
  <2>10. b[Len(b)] = y
    BY <2>5
  <2> QED
    <3>1. /\ Len(c[i].raw) = Len(c[i].path)
          /\ \A j \in 1..Len(c[i].path) : <<c[i].raw[j], c[i].path[j]>> \in Renames
      BY <2>8, <2>9
    <3>2. ASSUME c[i].key # NoKey PROVE c[i].path # <<>> /\ c[i].key = c[i].path[Len(c[i].path)]
      BY <2>7, <2>8, <2>10, <3>2
    <3> QED
      BY <3>1, <3>2, Zenon DEF Named
<1>11. NamedStack(Renames, c)
  BY <1>9, <1>10, Zenon DEF NamedStack
<1>12. Grown(f, c)
  <2>1. \A i \in 1..m : new[i] \in PathNames /\ c[i].path = Append(f.path, new[i])
    BY <1>1, <1>4, <1>8
  <2> QED
    BY <1>9, <2>1, Zenon DEF Grown
<1>13. Different(c)
  <2>1. SUFFICES ASSUME NEW i \in 1..m, NEW j \in 1..m, c[i].path = c[j].path PROVE i = j
    BY <1>9, Zenon DEF Different
  <2>2. Append(path, new[i]) = Append(path, new[j])
    BY <1>8, <2>1
  <2>3. new[i] = new[j]
    BY <1>2, <1>4, <2>2
  <2> QED
    BY <1>4, <2>3
<1>14. ASSUME path = raw PROVE PlainStack(c) <=> \A i \in 1..m : new[i] = old[i]
  <2>1. ASSUME NEW i \in 1..m PROVE c[i].path = c[i].raw <=> new[i] = old[i]
    <3>1. c[i].path = Append(raw, new[i]) /\ c[i].raw = Append(raw, old[i])
      BY <1>8, <1>14
    <3>2. Append(raw, new[i]) = Append(raw, old[i]) <=> new[i] = old[i]
      BY <1>2, <1>4
    <3> QED
      BY <3>1, <3>2
  <2>2. \A i \in 1..m : ~c[i].leave
    BY <1>8
  <2>3. PlainStack(c) <=> \A i \in 1..m : c[i].path = c[i].raw
    BY <1>9, <2>2, Zenon DEF PlainStack
  <2> QED
    BY <2>1, <2>3
<1> QED
  BY <1>1, <1>4, <1>9, <1>11, <1>12, <1>13, <1>14

\* In whichever order they are put onto the stack.
LEMMA ReversedItems ==
    ASSUME NEW N, NEW k \in Seq(RedactFrames(N)), NEW f, NEW renames
    PROVE  LET c == Reverse(k)
           IN /\ c \in Seq(RedactFrames(N))
              /\ NamedStack(renames, k) => NamedStack(renames, c)
              /\ Grown(f, k) => Grown(f, c)
              /\ Different(k) => Different(c)
              /\ PlainStack(c) <=> PlainStack(k)
<1>1. PICK F, c, m : F = RedactFrames(N) /\ c = Reverse(k) /\ m = Len(k)
  OBVIOUS
<1>2. /\ k \in Seq(F) /\ m \in Nat /\ DOMAIN k = 1..m
  BY <1>1, LenProperties
<1>3. /\ c \in Seq(F) /\ Len(c) = m /\ \A i \in 1..m : c[i] = k[m - i + 1]
      /\ \A i \in DOMAIN c : \E j \in DOMAIN k : c[i] = k[j]
      /\ \A j \in DOMAIN k : \E i \in DOMAIN c : c[i] = k[j]
  BY <1>1, <1>2, ReverseTyped
<1>4. DOMAIN c = 1..m
  BY <1>3, LenProperties
<1>5. NamedStack(renames, k) => NamedStack(renames, c)
  BY <1>3, Zenon DEF NamedStack
<1>6. Grown(f, k) => Grown(f, c)
  BY <1>3, Zenon DEF Grown
<1>7. PlainStack(c) <=> PlainStack(k)
  <2>1. ASSUME PlainStack(k), NEW i \in DOMAIN c, ~c[i].leave PROVE c[i].path = c[i].raw
    <3>1. PICK j \in DOMAIN k : c[i] = k[j]
      BY <1>3, Zenon
    <3> QED
      BY <2>1, <3>1 DEF PlainStack
  <2>2. ASSUME PlainStack(c), NEW j \in DOMAIN k, ~k[j].leave PROVE k[j].path = k[j].raw
    <3>1. PICK i \in DOMAIN c : c[i] = k[j]
      BY <1>3, Zenon
    <3> QED
      BY <2>2, <3>1 DEF PlainStack
  <2> QED
    BY <2>1, <2>2, Zenon DEF PlainStack
<1>8. Different(k) => Different(c)
  <2>1. SUFFICES ASSUME Different(k), NEW i \in 1..m, NEW j \in 1..m, ~c[i].leave, ~c[j].leave,
                        c[i].path = c[j].path
                 PROVE  i = j
    BY <1>4, Zenon DEF Different
  <2>2. m - i + 1 \in DOMAIN k /\ m - j + 1 \in DOMAIN k
    BY <1>2
  <2>3. m - i + 1 = m - j + 1
    <3>1. PICK a, b : a = m - i + 1 /\ b = m - j + 1
      OBVIOUS
    <3>2. a \in DOMAIN k /\ b \in DOMAIN k /\ k[a] = c[i] /\ k[b] = c[j]
      BY <1>3, <2>2, <3>1
    <3>3. ~k[a].leave /\ ~k[b].leave /\ k[a].path = k[b].path
      BY <2>1, <3>2
    <3>4. a = b
      BY <2>1, <3>2, <3>3, Zenon DEF Different
    <3> QED
      BY <3>1, <3>4
  <2> QED
    BY <1>2, <2>3
<1> QED
  BY <1>1, <1>3, <1>5, <1>6, <1>7, <1>8, Zenon
-----------------------------------------------------------------------------
(* One value more is written.                                                 *)

LEMMA SinglesDiffer ==
    ASSUME NEW a \in Plain, NEW t \in Seq(Letters \union MarkerAtoms)
    PROVE  t # <<a>>
<1>1. SUFFICES ASSUME t = <<a>> PROVE FALSE
  OBVIOUS
<1>2. Len(t) = 1 /\ t[1] = a
  BY <1>1
<1>3. t[1] \in Letters \union MarkerAtoms
  BY <1>2, ElementOfSeq
<1>4. a \notin Letters
  BY LettersAssumption
<1>5. a \notin MarkerAtoms
  BY DEF Plain, Types, Containers, MarkerAtoms
<1> QED
  BY <1>2, <1>3, <1>4, <1>5

LEMMA PlainIsClean ==
    ASSUME job \in Jobs, NEW a \in Plain, NEW d \in Forbidden
    PROVE  ~Occurs(d, <<a>>) /\ <<a>> \in Seq(Letters \union MarkerAtoms \union Plain)
<1>1. d \in Seq(Letters)
  <2>1. PICK c \in Range(job.policy.texts) \union {Token} : d = c.text
    BY DEF Forbidden
  <2>2. \E i \in 1..Len(Configured) : Configured[i] = c
    BY ConfiguredTyped
  <2>3. Configured \in Seq(Replacements)
    BY ConfiguredTyped
  <2>4. PICK i \in 1..Len(Configured) : Configured[i] = c
    BY <2>2
  <2>5. c \in Replacements
    BY <2>3, <2>4, ElementOfSeq
  <2> QED
    BY <2>1, <2>5 DEF Replacements
<1>2. PICK t : t = <<a>>
  OBVIOUS
<1>3. t \in Seq(Plain) /\ Len(t) = 1 /\ t[1] = a
  BY <1>2
<1>4. a \notin Letters
  BY LettersAssumption
<1>5. ~Occurs(d, t)
  BY <1>1, <1>3, <1>4, SinglesAreClean
<1> QED
  BY <1>2, <1>5

\* What is written of what is not entered.
LEMMA RedactedIs ==
    ASSUME job \in Jobs, NEW f \in RedactFrames(Nodes), ~f.leave,
           Obj(f.node).type \notin Containers \/ Hidden(f.path, f.key)
    PROVE  /\ Redacted(f).value \in Seq(Letters \union MarkerAtoms \union Plain)
           /\ Redacted(f).records \in Nat
           /\ \A d \in Forbidden : ~Occurs(d, Redacted(f).value)
           /\ Hidden(f.path, f.key) => Redacted(f).value = Marker
           /\ Redacted(f).records = 0 <=> Redacted(f).value = PlainValue(Obj(f.node))
<1>1. PICK object, text, A, V : /\ object = Obj(f.node) /\ text = ReplacedText(object.text)
                                /\ A = Letters \union MarkerAtoms /\ V = A \union Plain
  OBVIOUS
<1>2. f.node \in Nodes
  BY RedactFrameFacts
<1>3. IsHeapObject(object, Len(job.heap))
  BY <1>1, <1>2, HeapTyped
<1>4. object.type \in Types /\ object.text \in Seq(Letters)
  BY <1>3 DEF IsHeapObject
<1>5. /\ text \in Seq(A) /\ Markers(text) \in Nat
      /\ Markers(text) = 0 <=> text = object.text
      /\ \A d \in Forbidden : ~Occurs(d, text)
  BY <1>1, <1>4, RenamedIs
<1>6. text \in Seq(V) /\ object.text \in Seq(A)
  BY <1>1, <1>4, <1>5, SeqMonotonic
<1>7. "typed marker" \in Plain /\ "number" \in Plain /\ "bytes" \in Plain /\ object.type \in Plain
      /\ object.type # "typed marker"
  BY <1>4 DEF Plain, Types, Containers
<1>8. /\ Marker \in Seq(V) /\ <<"number">> \in Seq(V)
      /\ \A d \in Forbidden : ~Occurs(d, Marker) /\ ~Occurs(d, <<"number">>)
  <2>1. \A a \in Plain : <<a>> \in Seq(V)
    BY <1>1
  <2>2. \A a \in Plain : \A d \in Forbidden : ~Occurs(d, <<a>>)
    BY PlainIsClean
  <2> QED
    BY <1>7, <2>1, <2>2 DEF Marker
<1>9. Marker # object.text /\ Marker # <<object.type>> /\ text # <<object.type>>
  <2>1. object.text # <<"typed marker">> /\ text # <<object.type>>
    BY <1>1, <1>5, <1>6, <1>7, SinglesDiffer
  <2>2. <<"typed marker">> # <<object.type>>
    BY <1>7
  <2> QED
    BY <2>1, <2>2 DEF Marker
<1>10. Marker # PlainValue(object)
  BY <1>9 DEF PlainValue
<1>11. CASE Hidden(f.path, f.key)
  <2>1. Redacted(f) = [value |-> Marker, records |-> 1]
    BY <1>11 DEF Redacted
  <2> QED
    BY <1>1, <1>8, <1>10, <1>11, <2>1
<1>12. CASE ~Hidden(f.path, f.key) /\ object.type = "number"
  <2>1. Redacted(f) = [value |-> <<"number">>, records |-> 0]
    BY <1>1, <1>12 DEF Redacted
  <2>2. PlainValue(object) = <<"number">>
    BY <1>12 DEF PlainValue, Containers
  <2> QED
    BY <1>1, <1>8, <1>12, <2>1, <2>2
<1>13. CASE ~Hidden(f.path, f.key) /\ object.type = "text"
  <2>1. Redacted(f) = [value |-> text, records |-> Markers(text)]
    BY <1>1, <1>13 DEF Redacted
  <2>2. PlainValue(object) = object.text
    BY <1>13 DEF PlainValue, Containers
  <2> QED
    BY <1>1, <1>5, <1>6, <1>13, <2>1, <2>2
<1>14. CASE ~Hidden(f.path, f.key) /\ object.type = "bytes" /\ text # object.text
  <2>1. Redacted(f) = [value |-> text, records |-> Markers(text)]
    BY <1>1, <1>14 DEF Redacted
  <2>2. PlainValue(object) = <<object.type>>
    BY <1>14 DEF PlainValue, Containers
  <2> QED
    BY <1>1, <1>5, <1>6, <1>9, <1>14, <2>1, <2>2
<1>15. CASE /\ ~Hidden(f.path, f.key) /\ object.type \notin {"number", "text"}
            /\ ~(object.type = "bytes" /\ text # object.text)
  <2>1. Redacted(f) = [value |-> Marker, records |-> 1]
    BY <1>1, <1>15 DEF Redacted
  <2> QED
    BY <1>1, <1>8, <1>10, <1>15, <2>1
<1> QED
  BY <1>11, <1>12, <1>13, <1>14, <1>15

LEMMA HiddenIs ==
    ASSUME NEW path, NEW key
    PROVE  Hidden(path, key) <=> HiddenBy(job.policy, path, key)
BY DEF Hidden, HiddenBy

\* Whether the names on the stack are the original ones.
PlainAs(s, c, t) == PlainStack(t) <=> PlainStack(Front(s)) /\ PlainStack(c)

\* The stack after one more value has been written.
LEMMA WrittenStack ==
    ASSUME NEW N, NEW s \in Seq(RedactFrames(N)), s # <<>>, NEW outs, NEW renames,
           NamedStack(renames, s), Free(s), NewTo(outs, s),
           NEW f, f = Last(s), ~f.leave, NEW m \in N,
           \A o \in outs : o.path \in Seq(PathNames), NEW o, o.path = f.path,
           NEW c \in Seq(RedactFrames(N)), NamedStack(renames, c), Grown(f, c), Different(c),
           NEW t, t = Front(s) \o <<Leaving(m)>> \o c
    PROVE  /\ t \in Seq(RedactFrames(N)) /\ NamedStack(renames, t) /\ Free(t)
           /\ NewTo(outs \union {o}, t) /\ PlainAs(s, c, t)
<1>1. PICK r, l, w : r = Front(s) /\ l = <<Leaving(m)>> /\ w = outs \union {o}
  OBVIOUS
<1>2. /\ r \in Seq(RedactFrames(N)) /\ f \in RedactFrames(N)
      /\ NamedStack(renames, r) /\ Free(r) /\ NewTo(outs, r)
      /\ Loose(f, r) /\ Unwritten(outs, f)
  BY <1>1, RedactPopped, Zenon
<1>3. f.path \in Seq(PathNames)
  BY <1>2, RedactFrameFacts
<1>4. NewTo(w, r)
  BY <1>1, <1>2, Zenon DEF NewTo, Loose
<1>5. NewTo(w, c)
  BY <1>1, <1>2, <1>3, ItemsAreNew
<1>6. \A x \in w : x.path \in Seq(PathNames)
  BY <1>1, <1>3
<1>7. /\ l \in Seq(RedactFrames(N)) /\ \A i \in DOMAIN l : l[i].leave
  <2>1. Leaving(m) \in RedactFrames(N) /\ Leaving(m).leave
    BY DEF RedactFrames, Leaving
  <2>2. \A i \in DOMAIN l : i = 1 /\ l[i] = Leaving(m)
    BY <1>1
  <2>3. PICK F, x : F = RedactFrames(N) /\ x = Leaving(m)
    OBVIOUS
  <2>4. <<x>> \in Seq(F)
    BY <2>1, <2>3
  <2> QED
    BY <1>1, <2>1, <2>2, <2>3, <2>4
<1>8. NamedStack(renames, l) /\ Grown(f, l) /\ Different(l) /\ NewTo(w, l) /\ PlainStack(l)
  BY <1>7, Zenon DEF NamedStack, Grown, Different, NewTo, PlainStack
<1>9. PICK g : g = r \o l
  OBVIOUS
<1>10. /\ g \in Seq(RedactFrames(N)) /\ NamedStack(renames, g) /\ Free(g) /\ NewTo(w, g)
       /\ PlainStack(g) <=> PlainStack(r) /\ PlainStack(l)
       /\ (\A i \in DOMAIN l : l[i].leave) => Loose(f, g)
  <2>1. NamedStack(renames, l) /\ Grown(f, l) /\ Different(l) /\ NewTo(w, l)
    BY <1>8
  <2> QED
    BY <1>2, <1>3, <1>4, <1>6, <1>7, <1>9, <2>1, RedactPut, Zenon
<1>11. Loose(f, g)
  BY <1>7, <1>10
<1>12. /\ g \o c \in Seq(RedactFrames(N)) /\ NamedStack(renames, g \o c) /\ Free(g \o c) /\ NewTo(w, g \o c)
       /\ PlainStack(g \o c) <=> PlainStack(g) /\ PlainStack(c)
  BY <1>3, <1>5, <1>6, <1>10, <1>11, RedactPut, Zenon
<1>13. t = g \o c
  BY <1>1, <1>9
<1> QED
  BY <1>1, <1>8, <1>10, <1>12, <1>13, Zenon DEF PlainAs
-----------------------------------------------------------------------------
(* The redactor's steps.                                                      *)

\* The state with one value more.
LEMMA Recorded ==
    ASSUME NEW renames, NEW forbidden, NEW policy, NEW heap, NEW N, NEW s, NEW n, NEW outs, NEW reps,
           RedactState(renames, forbidden, policy, heap, N, s, n, outs, reps),
           s # <<>>, NEW f, f = Last(s), ~f.leave,
           NEW o \in Outs(N), o.path = f.path, o.raw = f.raw, o.key = f.key, Clean(forbidden, policy, o),
           NEW k \in Nat, NEW c, (k = 0 /\ f.path = f.raw) <=> (PlainOut(heap, o) /\ PlainStack(c)),
           NEW t \in Seq(RedactFrames(N)), NamedStack(renames, t), Free(t), NewTo(outs \union {o}, t),
           PlainStack(t) <=> PlainStack(Front(s)) /\ PlainStack(c)
    PROVE  RedactState(renames, forbidden, policy, heap, N, t, n + 1, outs \union {o}, reps + k)
<1>1. /\ s \in Seq(RedactFrames(N)) /\ NamedStack(renames, s) /\ Free(s)
      /\ outs \subseteq Outs(N) /\ NewTo(outs, s)
      /\ \A x \in outs : Named(renames, x) /\ Clean(forbidden, policy, x)
      /\ n \in Nat /\ IsFiniteSet(PathsOf(outs)) /\ Cardinality(PathsOf(outs)) = n
      /\ reps \in Nat
      /\ reps = 0 <=> PlainStack(s) /\ \A x \in outs : PlainOut(heap, x)
  BY Zenon DEF RedactState
<1>2. PICK r, w : r = Front(s) /\ w = outs \union {o}
  OBVIOUS
<1>3. /\ NewTo(outs, r) /\ f \in RedactFrames(N)
      /\ PlainStack(s) <=> PlainStack(r) /\ f.path = f.raw
      /\ Named(renames, f) /\ Loose(f, r) /\ Unwritten(outs, f)
  BY <1>1, <1>2, RedactPopped, Zenon
<1>4. f.path \in Seq(PathNames)
  BY <1>3, RedactFrameFacts
<1>5. IsFiniteSet(PathsOf(w)) /\ Cardinality(PathsOf(w)) = n + 1
  <2>1. Unwritten(outs, f) /\ f.path \in Seq(PathNames) /\ IsFiniteSet(PathsOf(outs))
    BY <1>1, <1>3, <1>4
  <2>2. /\ IsFiniteSet(PathsOf(outs \union {o}))
        /\ Cardinality(PathsOf(outs \union {o})) = Cardinality(PathsOf(outs)) + 1
    BY <2>1, WrittenPath, Zenon
  <2> QED
    BY <1>1, <1>2, <2>2
<1>6. Named(renames, o)
  BY <1>3, Zenon DEF Named
<1>7. \A x \in w : Named(renames, x) /\ Clean(forbidden, policy, x)
  BY <1>1, <1>2, <1>6
<1>8. w \subseteq Outs(N)
  BY <1>1, <1>2
<1>9. PICK stackPlain, outsPlain, oPlain :
         /\ stackPlain = PlainStack(r) /\ outsPlain = (\A x \in outs : PlainOut(heap, x))
         /\ oPlain = PlainOut(heap, o)
  OBVIOUS
<1>10. (\A x \in w : PlainOut(heap, x)) <=> (\A x \in outs : PlainOut(heap, x)) /\ PlainOut(heap, o)
  BY <1>2
<1>11. reps + k \in Nat /\ (reps + k = 0 <=> reps = 0 /\ k = 0)
  BY <1>1
<1>12. reps + k = 0 <=> PlainStack(t) /\ \A x \in w : PlainOut(heap, x)
  BY <1>1, <1>2, <1>3, <1>10, <1>11, Zenon
<1>13. n + 1 \in Nat
  BY <1>1
<1> QED
  BY <1>2, <1>5, <1>7, <1>8, <1>11, <1>12, <1>13, Zenon DEF RedactState

LEMMA NothingToPut ==
    ASSUME NEW N, NEW f, NEW renames
    PROVE  /\ <<>> \in Seq(RedactFrames(N)) /\ NamedStack(renames, <<>>) /\ Grown(f, <<>>)
           /\ Different(<<>>) /\ PlainStack(<<>>)
<1>1. DOMAIN <<>> = {}
  OBVIOUS
<1> QED
  BY <1>1 DEF NamedStack, Grown, Different, PlainStack

\* A step of the redactor has the state after it to show.
LEMMA RedactGoesOn ==
    ASSUME RedactInv, UNCHANGED job, verdict' \in {"none", "accepted", "raised"},
           NEW s, NEW n, NEW outs, NEW reps,
           s = stack', n = nodes', outs = out', reps = replacements',
           job.who = "redactor" =>
              RedactState(Renames, Forbidden, job.policy, job.heap, Nodes, s, n, outs, reps),
           job.who = "redactor" /\ verdict' = "accepted" => stack' = <<>>
    PROVE  RedactInv'
<1>1. Renames' = Renames /\ Forbidden' = Forbidden /\ Nodes' = Nodes
  BY SameRedactTables
<1>2. ASSUME job.who = "redactor"
      PROVE  (RedactState(Renames, Forbidden, job.policy, job.heap, Nodes, stack, nodes, out, replacements))'
  BY <1>1, <1>2, Zenon
<1> QED
  BY <1>2 DEF RedactInv

LEMMA RedactStarts == WalkInit => RedactInv
<1>1. SUFFICES ASSUME WalkInit, job.who = "redactor"
               PROVE  RedactState(Renames, Forbidden, job.policy, job.heap, Nodes, stack, nodes, out,
                                  replacements)
  BY DEF WalkInit, RedactInv
<1>2. PICK f : f = Visit(1, NoKey, <<>>, <<>>, 0)
  OBVIOUS
<1>3. 1 \in Nodes
  BY <1>1, HeapTyped DEF WalkInit
<1>4. /\ f \in RedactFrames(Nodes) /\ f.leave = FALSE /\ f.key = NoKey /\ f.raw = <<>> /\ f.path = <<>>
  <2>1. <<>> \in Seq(PathNames) /\ 0 \in Nat /\ NoKey \in PathNames \union {NoKey}
    OBVIOUS
  <2>2. Visit(1, NoKey, <<>>, <<>>, 0) \in RedactFrames(Nodes)
    BY <1>3, <2>1, VisitTyped
  <2> QED
    BY <1>2, <2>2 DEF Visit
<1>5. PICK s : s = <<f>>
  OBVIOUS
<1>6. stack = s /\ nodes = 0 /\ out = {} /\ replacements = 0
  BY <1>1, <1>2, <1>5 DEF WalkInit
<1>7. s \in Seq(RedactFrames(Nodes)) /\ \A i \in DOMAIN s : i = 1 /\ s[i] = f
  <2>1. PICK F : F = RedactFrames(Nodes)
    OBVIOUS
  <2>2. <<f>> \in Seq(F)
    BY <1>4, <2>1
  <2> QED
    BY <1>5, <2>1, <2>2
<1>8. Named(Renames, f)
  <2>1. Len(f.raw) = Len(f.path) /\ 1..Len(f.path) = {}
    BY <1>4
  <2> QED
    BY <1>4, <2>1 DEF Named
<1>9. NamedStack(Renames, s) /\ Free(s) /\ NewTo({}, s) /\ PlainStack(s)
  <2>1. NamedStack(Renames, s)
    BY <1>7, <1>8, Zenon DEF NamedStack
  <2>2. Free(s)
    BY <1>7, Zenon DEF Free
  <2>3. PlainStack(s)
    BY <1>4, <1>7 DEF PlainStack
  <2> QED
    BY <2>1, <2>2, <2>3, Zenon DEF NewTo
<1>10. IsFiniteSet(PathsOf({})) /\ Cardinality(PathsOf({})) = 0
  <2>1. PathsOf({}) = {}
    BY DEF PathsOf
  <2> QED
    BY <2>1, FS_EmptySet
<1> QED
  BY <1>6, <1>7, <1>9, <1>10 DEF RedactState

LEMMA RedactLeaves == RedactInv /\ RedactLeave => RedactInv'
<1>1. SUFFICES ASSUME RedactInv, RedactLeave PROVE RedactInv'
  OBVIOUS
<1>2. PICK s, n, outs, reps : s = stack /\ n = nodes /\ outs = out /\ reps = replacements
  OBVIOUS
<1>3. /\ job.who = "redactor" /\ verdict = "none" /\ s # <<>> /\ Last(s).leave /\ stack' = Front(s)
      /\ nodes' = n /\ out' = outs /\ replacements' = reps /\ job' = job /\ verdict' = "none"
  BY <1>1, <1>2 DEF RedactLeave, Running, Top
<1>4. RedactState(Renames, Forbidden, job.policy, job.heap, Nodes, s, n, outs, reps)
  BY <1>1, <1>2, <1>3 DEF RedactInv
<1>5. s \in Seq(RedactFrames(Nodes)) /\ NamedStack(Renames, s) /\ Free(s) /\ NewTo(outs, s)
  BY <1>4, Zenon DEF RedactState
<1>6. PICK r : r = Front(s)
  OBVIOUS
<1>7. /\ r \in Seq(RedactFrames(Nodes)) /\ NamedStack(Renames, r) /\ Free(r) /\ NewTo(outs, r)
      /\ PlainStack(s) <=> PlainStack(r)
  BY <1>3, <1>5, <1>6, RedactPopped, Zenon
<1>8. RedactState(Renames, Forbidden, job.policy, job.heap, Nodes, r, n, outs, reps)
  BY <1>4, <1>7, Zenon DEF RedactState
<1>9. r = stack' /\ n = nodes' /\ outs = out' /\ reps = replacements' /\ verdict' \in {"none", "accepted", "raised"}
      /\ ~(verdict' = "accepted") /\ UNCHANGED job
  BY <1>3, <1>6
<1> QED
  BY <1>1, <1>8, <1>9, RedactGoesOn, Zenon

LEMMA RedactEnters ==
    ASSUME RedactInv, job.who = "redactor", verdict = "none", stack # <<>>, ~Top.leave, Enters,
           Obj(Top.node).type = "dict" => IsInjective(NewKeys(Top.node)),
           UNCHANGED <<job, verdict>>, nodes' = nodes + 1,
           stack' = Front(stack) \o <<Leaving(Top.node)>> \o Reverse(RedactedChildren(Top)),
           RecordValue(Top, <<Obj(Top.node).type>>, KeyReplacements(Top.node))
    PROVE  RedactInv'
<1>1. PICK s, n, outs, reps, heap, N :
         /\ s = stack /\ n = nodes /\ outs = out /\ reps = replacements /\ heap = job.heap /\ N = Nodes
  OBVIOUS
<1>2. PICK f, m, v, k : /\ f = Top /\ m = f.node /\ v = <<Obj(m).type>> /\ k = KeyReplacements(m)
  OBVIOUS
<1>3. job \in Jobs /\ RedactState(Renames, Forbidden, job.policy, heap, N, s, n, outs, reps)
  BY <1>1 DEF RedactInv
<1>4. /\ s \in Seq(RedactFrames(N)) /\ NamedStack(Renames, s) /\ Free(s) /\ NewTo(outs, s)
      /\ outs \subseteq Outs(N) /\ s # <<>> /\ f = Last(s) /\ ~f.leave
  BY <1>1, <1>2, <1>3, Zenon DEF RedactState, Top
<1>5. f \in RedactFrames(N) /\ Named(Renames, f)
  BY <1>4, RedactPopped, Zenon
<1>6. /\ m \in N /\ f.key \in PathNames \union {NoKey} /\ f.raw \in Seq(PathNames) /\ f.path \in Seq(PathNames)
  BY <1>2, <1>4, <1>5, RedactFrameFacts
<1>7. /\ Obj(m).type \in Containers /\ ~Hidden(f.path, f.key)
      /\ Obj(m).type = "dict" => IsInjective(NewKeys(m))
  BY <1>2 DEF Enters
<1>8. PICK o : o = [node |-> m, key |-> f.key, raw |-> f.raw, path |-> f.path, value |-> v]
  OBVIOUS
<1>9. o.path = f.path /\ o.raw = f.raw /\ o.key = f.key /\ o.value = v /\ o.node = m
  BY <1>8
<1>10. Obj(m).type \in Plain
  BY <1>7 DEF Plain, Types
<1>11. \A d \in Forbidden : ~Occurs(d, v)
  BY <1>2, <1>3, <1>10, PlainIsClean
<1>12. Clean(Forbidden, job.policy, o)
  BY <1>7, <1>9, <1>11, HiddenIs DEF Clean
<1>13. o \in Outs(N)
  <2>1. v \in Seq(Letters \union MarkerAtoms \union Plain)
    BY <1>2, <1>10
  <2> QED
    BY <1>6, <1>8, <2>1 DEF Outs
<1>14. PICK g, c : g = RedactedChildren(f) /\ c = Reverse(g)
  OBVIOUS
<1>15. /\ g \in Seq(RedactFrames(N)) /\ NamedStack(Renames, g) /\ Grown(f, g) /\ Different(g)
       /\ k \in Nat /\ (f.path = f.raw => (PlainStack(g) <=> k = 0))
  <2>1. f \in RedactFrames(Nodes)
    BY <1>1, <1>5
  <2>2. /\ g \in Seq(RedactFrames(Nodes)) /\ NamedStack(Renames, g) /\ Grown(f, g) /\ Different(g)
        /\ KeyReplacements(f.node) \in Nat
        /\ f.path = f.raw => (PlainStack(g) <=> KeyReplacements(f.node) = 0)
    BY <1>2, <1>3, <1>4, <1>5, <1>7, <1>14, <2>1, RedactedChildrenOf, Zenon
  <2> QED
    BY <1>1, <1>2, <2>2
<1>16. /\ c \in Seq(RedactFrames(N)) /\ NamedStack(Renames, c) /\ Grown(f, c) /\ Different(c)
       /\ PlainStack(c) <=> PlainStack(g)
  BY <1>14, <1>15, ReversedItems, Zenon
<1>17. (k = 0 /\ f.path = f.raw) <=> (PlainOut(heap, o) /\ PlainStack(c))
  <2>1. PlainValue(heap[m]) = v
    BY <1>1, <1>2, <1>7 DEF PlainValue, Obj
  <2>2. PlainOut(heap, o) <=> f.path = f.raw
    BY <1>9, <2>1 DEF PlainOut
  <2> QED
    BY <1>15, <1>16, <2>2, Zenon
<1>18. PICK t : t = Front(s) \o <<Leaving(m)>> \o c
  OBVIOUS
<1>19. \A x \in outs : x.path \in Seq(PathNames)
  BY <1>4 DEF Outs
<1>20. /\ t \in Seq(RedactFrames(N)) /\ NamedStack(Renames, t) /\ Free(t)
       /\ NewTo(outs \union {o}, t)
       /\ PlainStack(t) <=> PlainStack(Front(s)) /\ PlainStack(c)
  <2>1. /\ s \in Seq(RedactFrames(N)) /\ s # <<>> /\ NamedStack(Renames, s) /\ Free(s) /\ NewTo(outs, s)
        /\ f = Last(s) /\ ~f.leave /\ m \in N
        /\ \A x \in outs : x.path \in Seq(PathNames)
        /\ o.path = f.path
        /\ c \in Seq(RedactFrames(N)) /\ NamedStack(Renames, c) /\ Grown(f, c) /\ Different(c)
    BY <1>4, <1>6, <1>9, <1>16, <1>19
  <2>2. PICK w : w = Front(s) \o <<Leaving(m)>> \o c
    OBVIOUS
  <2>3. w \in Seq(RedactFrames(N))
    BY <2>1, <2>2, WrittenStack
  <2>4. NamedStack(Renames, w) /\ Free(w)
    BY <2>1, <2>2, WrittenStack
  <2>5. NewTo(outs \union {o}, w) /\ PlainAs(s, c, w)
    BY <2>1, <2>2, WrittenStack
  <2> QED
    BY <1>18, <2>2, <2>3, <2>4, <2>5 DEF PlainAs
<1>21. RedactState(Renames, Forbidden, job.policy, heap, N, t, n + 1, outs \union {o}, reps + k)
  BY <1>3, <1>4, <1>9, <1>12, <1>13, <1>15, <1>17, <1>20, Recorded, Zenon
<1>22. /\ t = stack' /\ n + 1 = nodes' /\ outs \union {o} = out' /\ reps + k = replacements'
       /\ UNCHANGED job /\ verdict' = "none"
  BY <1>1, <1>2, <1>8, <1>14, <1>18 DEF RecordValue
<1>23. PICK n2, outs2, reps2 : n2 = n + 1 /\ outs2 = outs \union {o} /\ reps2 = reps + k
  OBVIOUS
<1>24. RedactState(Renames, Forbidden, job.policy, job.heap, Nodes, t, n2, outs2, reps2)
  BY <1>1, <1>21, <1>23, Zenon
<1>25. /\ t = stack' /\ n2 = nodes' /\ outs2 = out' /\ reps2 = replacements'
       /\ verdict' \in {"none", "accepted", "raised"} /\ ~(verdict' = "accepted")
  BY <1>22, <1>23
<1> QED
  BY <1>22, <1>24, <1>25, RedactGoesOn, Zenon

LEMMA RedactWrites ==
    ASSUME RedactInv, job.who = "redactor", verdict = "none", stack # <<>>, ~Top.leave, ~Enters,
           UNCHANGED <<job, verdict>>, nodes' = nodes + 1, stack' = Front(stack),
           RecordValue(Top, Redacted(Top).value, Redacted(Top).records)
    PROVE  RedactInv'
<1>1. PICK s, n, outs, reps, heap, N :
         /\ s = stack /\ n = nodes /\ outs = out /\ reps = replacements /\ heap = job.heap /\ N = Nodes
  OBVIOUS
<1>2. PICK f, m, v, k : /\ f = Top /\ m = f.node /\ v = Redacted(f).value /\ k = Redacted(f).records
  OBVIOUS
<1>3. job \in Jobs /\ RedactState(Renames, Forbidden, job.policy, heap, N, s, n, outs, reps)
  BY <1>1 DEF RedactInv
<1>4. /\ s \in Seq(RedactFrames(N)) /\ NamedStack(Renames, s) /\ Free(s) /\ NewTo(outs, s)
      /\ outs \subseteq Outs(N) /\ s # <<>> /\ f = Last(s) /\ ~f.leave
      /\ IsFiniteSet(PathsOf(outs)) /\ Cardinality(PathsOf(outs)) = n
  BY <1>1, <1>2, <1>3, Zenon DEF RedactState, Top
<1>5. PICK r : r = Front(s)
  OBVIOUS
<1>6. /\ f \in RedactFrames(N) /\ r \in Seq(RedactFrames(N))
      /\ NamedStack(Renames, r) /\ Free(r) /\ NewTo(outs, r)
      /\ Loose(f, r) /\ Unwritten(outs, f)
  BY <1>4, <1>5, RedactPopped, Zenon
<1>7. /\ m \in N /\ f.key \in PathNames \union {NoKey} /\ f.raw \in Seq(PathNames) /\ f.path \in Seq(PathNames)
  BY <1>2, <1>4, <1>6, RedactFrameFacts
<1>8. Obj(f.node).type \notin Containers \/ Hidden(f.path, f.key)
  BY <1>2 DEF Enters
<1>9. PICK o : o = [node |-> m, key |-> f.key, raw |-> f.raw, path |-> f.path, value |-> v]
  OBVIOUS
<1>10. o.path = f.path /\ o.raw = f.raw /\ o.key = f.key /\ o.value = v /\ o.node = m
  BY <1>9
<1>11. /\ v \in Seq(Letters \union MarkerAtoms \union Plain) /\ k \in Nat
       /\ \A d \in Forbidden : ~Occurs(d, v)
       /\ Hidden(f.path, f.key) => v = Marker
       /\ k = 0 <=> v = PlainValue(heap[m])
  <2>1. f \in RedactFrames(Nodes)
    BY <1>1, <1>6
  <2>2. /\ Redacted(f).value \in Seq(Letters \union MarkerAtoms \union Plain)
        /\ Redacted(f).records \in Nat
        /\ \A d \in Forbidden : ~Occurs(d, Redacted(f).value)
        /\ Hidden(f.path, f.key) => Redacted(f).value = Marker
        /\ Redacted(f).records = 0 <=> Redacted(f).value = PlainValue(Obj(f.node))
    BY <1>3, <1>4, <1>8, <2>1, RedactedIs, Zenon
  <2>3. Obj(f.node) = heap[m]
    BY <1>1, <1>2 DEF Obj
  <2> QED
    BY <1>2, <2>2, <2>3, Zenon
<1>12. Clean(Forbidden, job.policy, o)
  BY <1>10, <1>11, HiddenIs DEF Clean
<1>13. o \in Outs(N)
  BY <1>7, <1>9, <1>11 DEF Outs
<1>14. PICK c : c = <<>>
  OBVIOUS
<1>15. PlainStack(c)
  BY <1>14, NothingToPut
<1>16. (k = 0 /\ f.path = f.raw) <=> (PlainOut(heap, o) /\ PlainStack(c))
  <2>1. PlainOut(heap, o) <=> f.path = f.raw /\ v = PlainValue(heap[m])
    BY <1>10 DEF PlainOut
  <2> QED
    BY <1>11, <1>15, <2>1, Zenon
<1>17. NewTo(outs \union {o}, r)
  BY <1>6, <1>10, Zenon DEF NewTo, Loose
<1>18. PlainStack(r) <=> PlainStack(Front(s)) /\ PlainStack(c)
  BY <1>5, <1>15, Zenon
<1>19. RedactState(Renames, Forbidden, job.policy, heap, N, r, n + 1, outs \union {o}, reps + k)
  BY <1>3, <1>4, <1>6, <1>10, <1>11, <1>12, <1>13, <1>16, <1>17, <1>18, Recorded, Zenon
<1>20. PICK n2, outs2, reps2 : n2 = n + 1 /\ outs2 = outs \union {o} /\ reps2 = reps + k
  OBVIOUS
<1>21. RedactState(Renames, Forbidden, job.policy, job.heap, Nodes, r, n2, outs2, reps2)
  BY <1>1, <1>19, <1>20, Zenon
<1>22. /\ r = stack' /\ n2 = nodes' /\ outs2 = out' /\ reps2 = replacements'
       /\ verdict' \in {"none", "accepted", "raised"} /\ ~(verdict' = "accepted") /\ UNCHANGED job
  BY <1>1, <1>2, <1>5, <1>9, <1>20 DEF RecordValue
<1> QED
  BY <1>21, <1>22, RedactGoesOn, Zenon

\* What does not touch what has been written.
LEMMA RedactStays ==
    ASSUME RedactInv, UNCHANGED <<job, stack, nodes, out, replacements>>,
           verdict' \in {"none", "accepted", "raised"},
           job.who = "redactor" /\ verdict' = "accepted" => stack = <<>>
    PROVE  RedactInv'
<1>1. PICK s, n, outs, reps : s = stack /\ n = nodes /\ outs = out /\ reps = replacements
  OBVIOUS
<1>2. job.who = "redactor" =>
        RedactState(Renames, Forbidden, job.policy, job.heap, Nodes, s, n, outs, reps)
  BY <1>1, Zenon DEF RedactInv
<1>3. /\ s = stack' /\ n = nodes' /\ outs = out' /\ reps = replacements' /\ UNCHANGED job
      /\ job.who = "redactor" /\ verdict' = "accepted" => stack' = <<>>
  BY <1>1
<1> QED
  BY <1>2, <1>3, RedactGoesOn, Zenon

LEMMA RedactStep == RedactInv /\ [WalkNext]_walkVars => RedactInv'
<1>1. SUFFICES ASSUME RedactInv, [WalkNext]_walkVars PROVE RedactInv'
  OBVIOUS
<1>2. ASSUME job.who # "redactor", UNCHANGED job, verdict' \in {"none", "accepted", "raised"}
      PROVE  RedactInv'
  BY <1>1, <1>2 DEF RedactInv
<1>3. CASE LeaveContainer
  <2>1. job.who # "redactor" /\ UNCHANGED job /\ verdict' \in {"none", "accepted", "raised"}
    BY <1>3 DEF LeaveContainer, Running, Raise
  <2> QED
    BY <1>2, <2>1
<1>4. CASE ValidateNode
  <2>1. job.who # "redactor" /\ UNCHANGED job /\ verdict' \in {"none", "accepted", "raised"}
    BY <1>4 DEF ValidateNode, Running, Raise
  <2> QED
    BY <1>2, <2>1
<1>5. CASE ScriptNode
  <2>1. job.who # "redactor" /\ UNCHANGED job /\ verdict' \in {"none", "accepted", "raised"}
    BY <1>5 DEF ScriptNode, Running, Raise
  <2> QED
    BY <1>2, <2>1
<1>6. CASE RedactLeave
  BY <1>1, <1>6, RedactLeaves
<1>7. CASE RedactNode
  <2>1. job.who = "redactor" /\ verdict = "none" /\ stack # <<>> /\ ~Top.leave
    BY <1>7 DEF RedactNode, Running
  <2>2. CASE Raise
    <3>1. UNCHANGED <<job, stack, nodes, out, replacements>> /\ verdict' = "raised"
      BY <2>2 DEF Raise
    <3> QED
      BY <1>1, <3>1, RedactStays
  <2>3. CASE ~Raise /\ Enters
    <3>1. /\ Obj(Top.node).type = "dict" => IsInjective(NewKeys(Top.node))
          /\ UNCHANGED <<job, verdict>> /\ nodes' = nodes + 1
          /\ stack' = Front(stack) \o <<Leaving(Top.node)>> \o Reverse(RedactedChildren(Top))
          /\ RecordValue(Top, <<Obj(Top.node).type>>, KeyReplacements(Top.node))
      BY <1>7, <2>3, Zenon DEF RedactNode
    <3> QED
      BY <1>1, <2>1, <2>3, <3>1, RedactEnters
  <2>4. CASE ~Raise /\ ~Enters
    <3>1. /\ UNCHANGED <<job, verdict>> /\ nodes' = nodes + 1 /\ stack' = Front(stack)
          /\ RecordValue(Top, Redacted(Top).value, Redacted(Top).records)
      BY <1>7, <2>4, Zenon DEF RedactNode
    <3> QED
      BY <1>1, <2>1, <2>4, <3>1, RedactWrites
  <2> QED
    BY <2>2, <2>3, <2>4
<1>8. CASE CompileUserPattern
  <2>1. job.who # "redactor" /\ UNCHANGED job /\ verdict' \in {"none", "accepted", "raised"}
    BY <1>8 DEF CompileUserPattern
  <2> QED
    BY <1>2, <2>1
<1>9. CASE Accept
  <2>1. UNCHANGED <<job, stack, nodes, out, replacements>> /\ verdict' = "accepted" /\ stack = <<>>
    BY <1>9 DEF Accept
  <2> QED
    BY <1>1, <2>1, RedactStays
<1>10. CASE WalkEnds \/ UNCHANGED walkVars
  <2>1. UNCHANGED <<job, stack, nodes, out, replacements, verdict>>
    BY <1>10 DEF WalkEnds, walkVars
  <2>2. verdict' \in {"none", "accepted", "raised"} /\ (job.who = "redactor" /\ verdict' = "accepted" => stack = <<>>)
    BY <1>1, <2>1 DEF RedactInv
  <2> QED
    BY <1>1, <2>1, <2>2, RedactStays
<1> QED
  BY <1>1, <1>3, <1>4, <1>5, <1>6, <1>7, <1>8, <1>9, <1>10 DEF WalkNext

\* Nothing configured and no token is left in what _Redactor.visit returns,
\* although canaries, patterns and tokens are replaced one after the other and
\* names as well as values; and what is denied, or has a secret key, is gone.
THEOREM NothingSecretStays == WalkSpec => []NothingSecretIsLeft
<1>1. RedactInv => NothingSecretIsLeft
  <2>1. SUFFICES ASSUME RedactInv, job.who = "redactor", NEW o \in out
                 PROVE  LET clean == \A name \in Range(o.raw) : ReplacedText(name) = name
                            secret == o.key # NoKey /\ Contains(Last(o.raw), "s")
                                      /\ ~Covered(o.raw, job.policy.allow)
                        IN /\ \A text \in Range(o.path) \union {o.value} :
                                 \A c \in Range(job.policy.texts) \union {Token} : ~Occurs(c.text, text)
                           /\ clean /\ o.raw # <<>> /\ (Covered(o.raw, job.policy.deny) \/ secret) =>
                                 o.value = Marker
    BY DEF NothingSecretIsLeft, Walked
  <2>2. PICK N : N = Nodes
    OBVIOUS
  <2>3. /\ job \in Jobs /\ o \in Outs(N) /\ Named(Renames, o) /\ Clean(Forbidden, job.policy, o)
    <3>1. RedactState(Renames, Forbidden, job.policy, job.heap, Nodes, stack, nodes, out, replacements)
      BY <2>1 DEF RedactInv
    <3>2. job \in Jobs
      BY <2>1 DEF RedactInv
    <3> QED
      BY <2>1, <2>2, <3>1, <3>2 DEF RedactState
  <2>4. PICK raw, path : raw = o.raw /\ path = o.path
    OBVIOUS
  <2>5. /\ raw \in Seq(PathNames) /\ path \in Seq(PathNames) /\ Len(path) \in Nat /\ Len(raw) = Len(path)
        /\ DOMAIN path = 1..Len(path) /\ DOMAIN raw = 1..Len(path)
        /\ \A i \in 1..Len(path) : <<raw[i], path[i]>> \in Renames
        /\ o.key # NoKey => path # <<>> /\ o.key = path[Len(path)]
    <3>1. raw \in Seq(PathNames) /\ path \in Seq(PathNames)
      BY <2>3, <2>4 DEF Outs
    <3>2. /\ Len(raw) = Len(path) /\ \A i \in 1..Len(path) : <<raw[i], path[i]>> \in Renames
          /\ o.key # NoKey => path # <<>> /\ o.key = path[Len(path)]
      BY <2>3, <2>4, Zenon DEF Named
    <3> QED
      BY <3>1, <3>2, LenProperties
  <2>6. \A i \in 1..Len(path) : \/ raw[i] \in Seq(Letters) /\ path[i] = ReplacedText(raw[i])
                                \/ raw[i] \in Range(Index) /\ path[i] = raw[i]
    BY <2>5 DEF Renames
  <2>7. \A c \in Range(job.policy.texts) \union {Token} : c.text \in Forbidden /\ c.text \in Seq(Letters)
    <3>1. SUFFICES ASSUME NEW c \in Range(job.policy.texts) \union {Token}
                   PROVE  c.text \in Forbidden /\ c.text \in Seq(Letters)
      OBVIOUS
    <3>2. Configured \in Seq(Replacements) /\ \E i \in 1..Len(Configured) : Configured[i] = c
      BY <2>3, ConfiguredTyped
    <3>3. c \in Replacements
      BY <3>2, ElementOfSeq
    <3> QED
      BY <3>3 DEF Replacements, Forbidden
  <2>8. ASSUME NEW i \in 1..Len(path), NEW c \in Range(job.policy.texts) \union {Token}
        PROVE  ~Occurs(c.text, path[i])
    <3>1. CASE raw[i] \in Seq(Letters) /\ path[i] = ReplacedText(raw[i])
      <4>1. \A d \in Forbidden : ~Occurs(d, ReplacedText(raw[i]))
        BY <2>3, <3>1, RenamedIs
      <4> QED
        BY <2>7, <3>1, <4>1
    <3>2. CASE raw[i] \in Range(Index) /\ path[i] = raw[i]
      <4>1. PICK j \in DOMAIN Index : path[i] = Index[j]
        BY <3>2, Zenon DEF Range
      <4>2. PICK S, t : S = Range(Index[j]) /\ t = Index[j]
        OBVIOUS
      <4>3. t \in Seq(S) /\ Len(t) = 1 /\ t[1] \notin Letters
        BY <4>2, IndexAssumption
      <4>4. PICK d : d = c.text
        OBVIOUS
      <4>5. d \in Seq(Letters)
        BY <2>7, <4>4
      <4>6. ~Occurs(d, t)
        BY <4>3, <4>5, SinglesAreClean
      <4> QED
        BY <4>1, <4>2, <4>4, <4>6
    <3> QED
      BY <2>6, <3>1, <3>2
  <2>9. ASSUME NEW text \in Range(o.path) \union {o.value}, NEW c \in Range(job.policy.texts) \union {Token}
        PROVE  ~Occurs(c.text, text)
    <3>1. CASE text \in Range(o.path)
      <4>1. PICK i \in DOMAIN path : text = path[i]
        BY <2>4, <3>1, Zenon DEF Range
      <4> QED
        BY <2>5, <2>8, <4>1
    <3>2. CASE text = o.value
      BY <2>3, <2>7, <3>2 DEF Clean
    <3> QED
      BY <3>1, <3>2
  <2>10. ASSUME \A name \in Range(o.raw) : ReplacedText(name) = name, o.raw # <<>>,
                \/ Covered(o.raw, job.policy.deny)
                \/ o.key # NoKey /\ Contains(Last(o.raw), "s") /\ ~Covered(o.raw, job.policy.allow)
         PROVE  o.value = Marker
    <3>1. ASSUME NEW i \in 1..Len(path) PROVE path[i] = raw[i]
      <4>1. raw[i] \in Range(o.raw)
        BY <2>4, <2>5, Zenon DEF Range
      <4> QED
        BY <2>6, <2>10, <4>1
    <3>2. path = raw
      BY <2>5, <3>1, SeqEqual
    <3>3. Last(o.raw) = path[Len(path)]
      BY <2>4, <3>2 DEF Last
    <3>4. HiddenBy(job.policy, o.path, o.key)
      <4>1. CASE Covered(o.raw, job.policy.deny)
        BY <2>4, <2>10, <3>2, <4>1 DEF HiddenBy
      <4>2. CASE o.key # NoKey /\ Contains(Last(o.raw), "s") /\ ~Covered(o.raw, job.policy.allow)
        <5>1. o.key = Last(o.raw)
          BY <2>5, <3>3, <4>2
        <5> QED
          BY <2>4, <3>2, <4>2, <5>1, Zenon DEF HiddenBy
      <4> QED
        BY <2>10, <4>1, <4>2
    <3> QED
      BY <2>3, <3>4 DEF Clean
  <2> QED
    BY <2>9, <2>10
<1> QED
  BY <1>1, RedactStarts, RedactStep, PTL DEF WalkSpec

\* The report of redact_with_report is true: it counts no replacements exactly
\* when names and values are all the original ones; and as visit refuses names
\* that become the same, no two fields become one.
THEOREM ReportStaysTrue == WalkSpec => []ReportIsTrue
<1>1. RedactInv => ReportIsTrue
  <2>1. SUFFICES ASSUME RedactInv, job.who = "redactor", verdict = "accepted"
                 PROVE  /\ replacements = 0 <=>
                              \A o \in out : o.path = o.raw /\ o.value = PlainValue(Obj(o.node))
                        /\ Cardinality({o.path : o \in out}) = nodes
    BY DEF ReportIsTrue, Walked
  <2>2. /\ RedactState(Renames, Forbidden, job.policy, job.heap, Nodes, stack, nodes, out, replacements)
        /\ stack = <<>>
    BY <2>1 DEF RedactInv
  <2>3. PlainStack(stack)
    BY <2>2, NothingToPut
  <2>4. /\ Cardinality(PathsOf(out)) = nodes
        /\ replacements = 0 <=> PlainStack(stack) /\ \A o \in out : PlainOut(job.heap, o)
    BY <2>2, Zenon DEF RedactState
  <2>5. \A o \in out : PlainOut(job.heap, o) <=> o.path = o.raw /\ o.value = PlainValue(Obj(o.node))
    BY DEF PlainOut, Obj
  <2> QED
    BY <2>3, <2>4, <2>5 DEF PathsOf
<1> QED
  BY <1>1, RedactStarts, RedactStep, PTL DEF WalkSpec
=============================================================================

------------------------------ MODULE Reproducer ------------------------------
(***************************************************************************)
(* `reprosieve export' and what it exports (export.py): the command reads an *)
(* archive (SafeRead, Archives), writes it with a stand-alone reproduce.py   *)
(* and a README into a new directory, and may fail or be killed between any  *)
(* two steps; the script, run by hand, loads the capsule next to it and runs *)
(* the embedded predicate Trials times, with a main thread, two drain        *)
(* threads, the child and the clock side by side.                           *)
(*                                                                         *)
(* A drain thread's buffered read is one step here: PredicateRun shows the   *)
(* same protocol unit by unit.                                              *)
(***************************************************************************)
EXTENDS Environments, Guards, Archives, SafeRead

CONSTANTS
    Trials, Required,  \* K of N, from predicate.json
    OutputLimit,       \* output_limit_bytes, in units
    Chunk,             \* units of one stream.read()
    PipeSize,          \* units a pipe holds
    Plans,             \* what the children may do, trial by trial
    ArchiveDocs,       \* the archives there are, by name
    Second,            \* the archive in the second file, or in a rewritten one
    HostNames,         \* names the host's environment has
    MaxTenths,         \* bound: the time-outs looked at
    Worlds             \* what a behaviour starts from

ASSUME TrialsAssumption == Trials \in Nat \ {0} /\ Required \in 1..Trials
ASSUME SizesAssumption == /\ OutputLimit \in Nat \ {0}
                          /\ Chunk \in Nat \ {0}
                          /\ PipeSize \in Nat \ {0}

Streams == {1, 2}
Codes == {"exit_0", "exit_1", "exit_2", "signal"}
ScriptsOfChild == [writes : [Streams -> Nat], end : Codes \union {"hang"}]
ASSUME PlansAssumption == Plans \subseteq [1..Trials -> ScriptsOfChild]

\* The workspace has nothing of the name of the script's own directory, or has.
Layouts == {"plain", ".guard"}

FileNames == {"capsule", "script", "readme"}

VARIABLES
    world,          \* the archive in the first file, whether the output path
                    \* exists, the capsule's workspace and environment, the child
                    \* of each trial, what is put beside the script, if anything,
                    \* and whether this has its predicate in it (rigid)
    capsule,        \* the archive in the file `capsule', "torn" for none
    exporter,       \* where the export command is
    files,          \* the files of the directory: "absent", "part" or "whole"
    pc,             \* where the main thread of reproduce.py is
    embedded,       \* whether the members that were loaded hold what a trial needs
    results,        \* the results of the trials that are over
    exit,           \* exit status of reproduce.py, "none" while it runs
    childEnv,       \* environment of the child
    deadline, child, killing, left, unread, drain, counts, exceeded,
    timedOut, late  \* history: a deadline or a thread given up on, so far

exportVars == <<exporter, files, capsule, fileVars>>
childVars == <<deadline, child, left, unread, drain, counts, exceeded>>
historyVars == <<timedOut, late>>
vars == <<world, exportVars, pc, embedded, results, exit, childEnv, childVars,
          killing, historyVars>>

Total(f) == f[1] + f[2]
Trial == Len(results) + 1
Nothing == [s \in Streams |-> 0]

-----------------------------------------------------------------------------
(* export_reproduction.                                                    *)

exporting == <<world, pc, embedded, results, exit, childEnv, childVars, killing, historyVars>>

Oversized ==
    (IF ArchiveDocs[world.source].large THEN {"file1"} ELSE {})
    \union (IF ArchiveDocs[Second].large THEN {"file2"} ELSE {})

\* What the read of a file has given: one state of its content, or parts of two.
DataRead ==
    IF data[1] # data[2] THEN "torn"
    ELSE IF data[1] \/ opened = "file2" THEN Second ELSE world.source

ReadSource ==
    /\ exporter = "check"
    /\ WorldStep \/ ReadStep(Oversized)
    /\ UNCHANGED <<exporter, files, capsule, exporting>>

\* Everything that is refused is refused before the directory is made.
ExportChecks ==
    /\ exporter = "check"
    /\ ReadOver
    /\ capsule' = IF at = "read" THEN DataRead ELSE "torn"
    /\ exporter' = IF /\ capsule' # "torn"
                      /\ Exportable(ArchiveDocs[capsule'])
                      /\ ~world.taken
                   THEN "capsule" ELSE "raised"
    /\ UNCHANGED <<files, fileVars, exporting>>

\* A mutant of NextFile: the README before the script.
NextFileReadme(f) == CASE f = "capsule" -> "readme" [] f = "readme" -> "script"
                       [] f = "script" -> "done"

\* write_bytes and write_text open the file, which creates it, and fill it.
NextFile(f) == CASE f = "capsule" -> "script" [] f = "script" -> "readme"
                 [] f = "readme" -> "done"

Create(f) ==
    /\ exporter = f
    /\ files[f] = "absent"
    /\ files' = [files EXCEPT ![f] = "part"]
    /\ UNCHANGED <<exporter, capsule, fileVars, exporting>>

Fill(f) ==
    /\ exporter = f
    /\ files[f] = "part"
    /\ files' = [files EXCEPT ![f] = "whole"]
    /\ exporter' = NextFile(f)
    /\ UNCHANGED <<capsule, fileVars, exporting>>

WriteFails(f) ==
    /\ exporter = f
    /\ exporter' = "rmtree"
    /\ UNCHANGED <<files, capsule, fileVars, exporting>>

\* rmtree removes the files in the order the directory lists them.
RemoveFile(f) ==
    /\ exporter = "rmtree"
    /\ files[f] # "absent"
    /\ files' = [files EXCEPT ![f] = "absent"]
    /\ UNCHANGED <<exporter, capsule, fileVars, exporting>>

RmtreeEnds ==
    /\ exporter = "rmtree"
    /\ \A f \in FileNames : files[f] = "absent"
    /\ exporter' = "raised"
    /\ UNCHANGED <<files, capsule, fileVars, exporting>>

ExporterKilled ==
    /\ exporter \notin {"done", "raised", "killed"}
    /\ exporter' = "killed"
    /\ UNCHANGED <<files, capsule, fileVars, exporting>>

ExportOver == exporter \in {"done", "raised", "killed"}

\* Somebody may put another capsule beside the script before it is run.
Replaced == world.beside = "exported" \/ capsule = world.beside

ReplaceCapsule ==
    /\ ExportOver /\ files["capsule"] = "whole"
    /\ pc = "idle"
    /\ ~Replaced
    /\ capsule' = world.beside
    /\ UNCHANGED <<exporter, files, fileVars, exporting>>

-----------------------------------------------------------------------------
(* reproduce.py: main and trial.                                           *)

mainKeeps == <<world, exportVars, killing, historyVars>>

Leave(status) ==
    /\ exit' = status
    /\ pc' = "over"

\* What load and predicate_spec accept, and what a trial of that can run.
Accepted(name) ==
    /\ StandaloneLoads(ArchiveDocs[name])
    /\ StandaloneSpec(ContentOf(ArchiveDocs[name], "predicate"))
Runnable(name) == Accepted(name) /\ TrialRuns(ArchiveDocs[name])

ASSUME WorldsAssumption ==
    /\ HostNames \subseteq Names
    /\ Second \in DOMAIN ArchiveDocs
    /\ \A w \in Worlds :
          /\ w.source \in DOMAIN ArchiveDocs /\ w.taken \in BOOLEAN
          /\ w.layout \in Layouts /\ w.captured \subseteq Names /\ w.plan \in Plans
          /\ w.top \in Tops /\ w.name \in Things /\ w.moves \in 0..Moves
          /\ w.beside \in DOMAIN ArchiveDocs \union {"exported"}
          /\ w.runs = (w.beside # "exported" /\ Accepted(w.beside) => Runnable(w.beside))

\* The script is run once the export is over.  One cut short is not the
\* program: it may do nothing and leave 0, or be no Python and leave 1.
Launch(trusted) ==
    /\ pc = "idle"
    /\ ExportOver
    /\ files["script"] # "absent"
    /\ files["capsule"] = "whole" => Replaced
    /\ IF files["script"] = "part" THEN \E code \in {"0", "1"} : Leave(code)
       ELSE IF trusted /\ files["capsule"] = "whole" /\ Accepted(capsule)
       THEN pc' = "trial" /\ UNCHANGED exit
       ELSE Leave("2")
    /\ embedded' = (pc' = "trial" /\ Runnable(capsule))
    /\ UNCHANGED <<mainKeeps, results, childEnv, childVars>>

Verdict(rs) ==
    IF \E t \in DOMAIN rs : rs[t] = "invalid" THEN "2"
    ELSE IF Cardinality({t \in DOMAIN rs : rs[t] = "reproduces"}) >= Required
    THEN "0" ELSE "1"

FreshTrial ==
    /\ deadline' = FALSE
    /\ child' = "none"
    /\ killing' = FALSE
    /\ left' = Nothing
    /\ unread' = Nothing
    /\ drain' = [s \in Streams |-> "reading"]
    /\ counts' = Nothing
    /\ exceeded' = FALSE

\* The value a trial adds to the list, and after the last one the exit status.
Record(r) ==
    /\ results' = Append(results, r)
    /\ IF Trial = Trials THEN Leave(Verdict(results')) ELSE pc' = "trial" /\ UNCHANGED exit
    /\ FreshTrial
    /\ UNCHANGED <<world, exportVars, embedded, childEnv, historyVars>>

\* A trial makes its files in a fresh directory and starts the child there: the
\* workspace, replay.json over whatever has this name, and .guard, which must
\* not exist.  The trial of a predicate that is not in the workspace is None.
StartTrial ==
    /\ pc = "trial"
    /\ world.layout # ".guard"
    /\ embedded
    /\ pc' = "poll"
    /\ childEnv' = TrialEnvironment(HostNames, world.captured)
    /\ child' = "running"
    /\ left' = world.plan[Trial].writes
    /\ UNCHANGED <<mainKeeps, embedded, results, exit, deadline, unread, drain, counts, exceeded>>

MkdirFails ==
    /\ pc = "trial"
    /\ world.layout = ".guard"
    /\ Leave("2")
    /\ UNCHANGED <<mainKeeps, embedded, results, childEnv, childVars>>

NoTrial ==
    /\ pc = "trial"
    /\ world.layout # ".guard"
    /\ ~embedded
    /\ Record("invalid")

-----------------------------------------------------------------------------
(* run_command: the loop over process.poll().                              *)

Goto(place) ==
    /\ pc' = place
    /\ UNCHANGED <<world, exportVars, embedded, results, exit, childEnv, childVars, historyVars>>

Poll ==
    /\ pc = "poll"
    /\ Goto(IF child = "running" THEN "test" ELSE "join1")
    /\ UNCHANGED killing

\* A mutant of TestLimits: only the output is looked at.
TestLimitsOutput ==
    /\ pc = "test"
    /\ Goto(IF exceeded THEN "terminate" ELSE "poll")
    /\ UNCHANGED killing

TestLimits ==
    /\ pc = "test"
    /\ Goto(IF exceeded \/ deadline THEN "terminate" ELSE "poll")
    /\ UNCHANGED killing

\* SIGKILL for the group; the exception of a group that is gone is passed over.
Terminate ==
    /\ pc = "terminate"
    /\ killing' = TRUE
    /\ Goto("reap")

\* process.wait() has no time-out, the two joins of one second follow, and the
\* result is None whatever they find.
Reap ==
    /\ pc = "reap"
    /\ child # "running"
    /\ Goto("none1")
    /\ UNCHANGED killing

After == [join1 |-> "join2", join2 |-> "result", none1 |-> "none2", none2 |-> "none"]
StreamOf == [join1 |-> 1, join2 |-> 2, none1 |-> 1, none2 |-> 2]

JoinReturns ==
    /\ pc \in DOMAIN After
    /\ drain[StreamOf[pc]] # "reading"
    /\ Goto(After[pc])
    /\ UNCHANGED killing

JoinTimesOut ==
    /\ pc \in DOMAIN After
    /\ drain[StreamOf[pc]] = "reading"
    /\ pc' = After[pc]
    /\ late' = TRUE
    /\ UNCHANGED <<world, exportVars, embedded, results, exit, childEnv, childVars,
                   killing, timedOut>>

Stopped == pc = "none" /\ Record("invalid")

\* A mutant of Returned: the return code is taken without asking for the output.
ReturnedUnread ==
    /\ pc = "result"
    /\ Record(CASE child = "exit_0" -> "reproduces" [] child = "exit_1" -> "absent"
                [] OTHER -> "invalid")

Returned ==
    /\ pc = "result"
    /\ Record(IF exceeded \/ Total(counts) > OutputLimit THEN "invalid"
              ELSE CASE child = "exit_0" -> "reproduces"
                     [] child = "exit_1" -> "absent"
                     [] OTHER -> "invalid")

-----------------------------------------------------------------------------
(* The child, the drain threads and the clock.                             *)

others == <<world, exportVars, pc, embedded, results, exit, childEnv, killing>>

ChildWrites(s) ==
    /\ child = "running"
    /\ left[s] > 0
    /\ unread[s] < PipeSize + Chunk
    /\ left' = [left EXCEPT ![s] = @ - 1]
    /\ unread' = [unread EXCEPT ![s] = @ + 1]
    /\ UNCHANGED <<others, deadline, child, drain, counts, exceeded, historyVars>>

ChildEnds ==
    /\ child = "running"
    /\ left = Nothing
    /\ world.plan[Trial].end # "hang"
    /\ child' = world.plan[Trial].end
    /\ UNCHANGED <<others, deadline, left, unread, drain, counts, exceeded, historyVars>>

ChildDies ==
    /\ child = "running"
    /\ killing
    /\ child' = "signal"
    /\ UNCHANGED <<others, deadline, left, unread, drain, counts, exceeded, historyVars>>

DeadlinePasses ==
    /\ child # "none"
    /\ ~deadline
    /\ deadline' = TRUE
    /\ timedOut' = TRUE
    /\ UNCHANGED <<others, child, left, unread, drain, counts, exceeded, late>>

ChildGone == child \notin {"none", "running"}
Least(a, b) == IF a < b THEN a ELSE b

\* A whole chunk, or what is left at the end of the stream.
Drain(s) ==
    LET counted == [counts EXCEPT ![s] = @ + Least(unread[s], Chunk)]
        over == Total(counted) > OutputLimit
    IN /\ drain[s] = "reading"
       /\ unread[s] >= Chunk \/ (ChildGone /\ unread[s] > 0)
       /\ counts' = counted
       /\ unread' = [unread EXCEPT ![s] = @ - Least(@, Chunk)]
       /\ exceeded' = (exceeded \/ over)
       /\ drain' = [drain EXCEPT ![s] = IF over THEN "limit" ELSE @]
       /\ UNCHANGED <<others, deadline, child, left, historyVars>>

DrainEnds(s) ==
    /\ drain[s] = "reading"
    /\ ChildGone /\ unread[s] = 0
    /\ drain' = [drain EXCEPT ![s] = "eof"]
    /\ UNCHANGED <<others, deadline, child, left, unread, counts, exceeded, historyVars>>

-----------------------------------------------------------------------------
Init ==
    /\ world \in Worlds
    /\ capsule = "torn"
    /\ ReadInit(world.top, world.name, world.moves)
    /\ exporter = "check"
    /\ files = [f \in FileNames |-> "absent"]
    /\ pc = "idle"
    /\ embedded = FALSE
    /\ results = <<>>
    /\ exit = "none"
    /\ childEnv = [n \in Names |-> "unset"]
    /\ deadline = FALSE
    /\ child = "none"
    /\ killing = FALSE
    /\ left = Nothing
    /\ unread = Nothing
    /\ drain = [s \in Streams |-> "reading"]
    /\ counts = Nothing
    /\ exceeded = FALSE
    /\ timedOut = FALSE
    /\ late = FALSE

ExportStep ==
    \/ ReadSource \/ ExportChecks \/ RmtreeEnds
    \/ \E f \in FileNames : Create(f) \/ Fill(f) \/ WriteFails(f) \/ RemoveFile(f)

MainStep ==
    \/ StartTrial \/ MkdirFails \/ NoTrial \/ Poll \/ TestLimits \/ Terminate \/ Reap
    \/ JoinReturns \/ JoinTimesOut \/ Stopped \/ Returned

Finished == (pc = "over" \/ (ExportOver /\ files["script"] = "absent")) /\ UNCHANGED vars

Next ==
    \/ ExportStep \/ ExporterKilled \/ ReplaceCapsule
    \/ \E trusted \in BOOLEAN : Launch(trusted)
    \/ MainStep
    \/ ChildEnds \/ ChildDies \/ DeadlinePasses
    \/ \E s \in Streams : ChildWrites(s) \/ Drain(s) \/ DrainEnds(s)
    \/ Finished

Spec == Init /\ [][Next]_vars

\* The threads of a process are scheduled, and the system delivers SIGKILL.
FairSpec ==
    /\ Spec
    /\ WF_vars(MainStep)
    /\ WF_vars(ChildDies)
    /\ \A s \in Streams : WF_vars(Drain(s) \/ DrainEnds(s))

-----------------------------------------------------------------------------
(* Properties.                                                             *)

FileStates == {"absent", "part", "whole"}

TypeOK ==
    /\ capsule \in DOMAIN ArchiveDocs \union {"torn"}
    /\ top \in Tops /\ entry \in [Dirs -> Things] /\ rewritten \subseteq RegularFiles
    /\ moves \in 0..Moves /\ opened \in Things /\ data \in Seq(BOOLEAN)
    /\ exporter \in FileNames \union {"check", "rmtree", "done", "raised", "killed"}
    /\ files \in [FileNames -> FileStates]
    /\ pc \in {"idle", "trial", "poll", "test", "terminate", "reap", "none",
               "result", "over"} \union DOMAIN After
    /\ results \in Seq({"reproduces", "absent", "invalid"})
    /\ exit \in {"none", "0", "1", "2"}
    /\ childEnv \in [Names -> {"unset", "host", "captured", "fixed", "empty"}]
    /\ embedded \in BOOLEAN /\ deadline \in BOOLEAN /\ killing \in BOOLEAN
    /\ child \in Codes \union {"none", "running"}
    /\ left \in [Streams -> Nat] /\ unread \in [Streams -> 0..(PipeSize + Chunk)]
    /\ drain \in [Streams -> {"reading", "eof", "limit"}]
    /\ counts \in [Streams -> Nat]
    /\ exceeded \in BOOLEAN /\ timedOut \in BOOLEAN /\ late \in BOOLEAN

EndVerdict(t) ==
    IF ~world.runs THEN "invalid"
    ELSE CASE world.plan[t].end = "exit_0" -> "reproduces"
           [] world.plan[t].end = "exit_1" -> "absent"
           [] OTHER -> "invalid"
Asked == files["script"] = "whole" /\ Len(results) = Trials
Promise == INSTANCE Verdicts WITH
    verdicts <- [t \in 1..Trials |-> EndVerdict(t)],
    floods <- {t \in 1..Trials : Total(world.plan[t].writes) > OutputLimit},
    stopped <- timedOut,
    unread <- late,
    results <- results,
    answer <- IF ~Asked THEN "none"
              ELSE CASE exit = "0" -> "reproduces" [] exit = "1" -> "absent"
                     [] exit = "2" -> "invalid" [] OTHER -> "none"

\* reproduce.py keeps the promise of the predicate protocol, as run_predicate
\* does (PredicateRun): whatever the child, its output, the threads and the
\* clock do, its exit status is the K-of-N verdict of the declared predicate.
ImplementsVerdicts == Promise!Spec

\* The README, which tells how to run the script, is the last file to become
\* whole: a killed or failing export never leaves it beside a script or a
\* capsule that is cut short, and an export that fails leaves no directory.
ReadmeComesLast ==
    /\ files["readme"] = "whole" /\ exporter # "rmtree" =>
          \A f \in FileNames : files[f] = "whole"
    /\ exporter = "raised" => \A f \in FileNames : files[f] = "absent"

\* The child of reproduce.py has the environment the runner gave the predicate
\* when the capsule was reduced and verified, and none of a provider's names,
\* unless the capsule has captured a locale that the host sets too.  Neither
\* guard lets it do what the other refuses, but for its capsule's file, which it
\* may change where that is the runner's copy; and in neither does its CPU time
\* run out before the time-out does.
ChildSeesWhatTheRunnerShows ==
    child # "none" =>
        /\ \A n \in Names \ Locale :
              childEnv[n] = MinimalEnvironment(HostNames, world.captured)[n]
        /\ world.captured \intersect HostNames \intersect Locale = {} =>
              childEnv = MinimalEnvironment(HostNames, world.captured)
        /\ \A n \in Withheld : childEnv[n] \in {"unset", "empty"}
        /\ \A op \in Operations :
              /\ RunnerDenies(op) => ScriptDenies(op)
              /\ ScriptDenies(op) => RunnerDenies(op) \/ OnCapsule(op)
        /\ \A tenths \in 1..MaxTenths :
              tenths < 10 * RunnerCpu(tenths) /\ tenths < 10 * ScriptCpu(tenths)

\* What the export reads is the file that had the path's name when the read
\* looked at it first, whichever two steps of another process come in between:
\* a file that takes its place is refused, also when it is taken away again.  (A
\* third rename could hide the first two.)  Undisturbed, a read is not through a
\* link, and of one state of the file.
ReadIsOfThePath ==
    at = "read" =>
        /\ opened \in RegularFiles
        /\ world.moves <= 2 => before.name \in {"nothing", opened}
        /\ moves = world.moves =>
              top # "link to dir2" /\ opened = Name /\ data = <<FALSE, FALSE>>

\* The package and the script accept the same archives, and the script can run
\* all that is exported.  A capsule that is loaded and written again is loaded
\* as the same capsule.  The predicate reads the same recorded outputs in the
\* script's replay.json as in the runner's, each result with its own call and
\* each response with its own request.
LoadersAgree ==
    capsule # "torn" /\ pc = "idle" =>
        LET archive == ArchiveDocs[capsule] IN
        /\ Loads(archive) <=> StandaloneLoads(archive)
        /\ Exportable(archive) <=> Runnable(capsule)
        /\ Loads(archive) =>
              LET again == CapsuleBytes(Loaded(archive))
                  events == EventDocs[ContentOf(archive, "events")]
                  outputs == OfflineReplay(events)
              IN /\ Loads(again) /\ Loaded(again) = Loaded(archive)
                 /\ StandaloneReplay(events) = outputs
                 /\ \A o \in Range(outputs.tools) : \E c \in Range(events) :
                       c.id = o.call /\ c.kind = "tool_call"
                 /\ Len(outputs.models) + Len(outputs.tools) =
                       Cardinality({e \in Range(events) : e.kind \in {"model_response", "tool_result"}})

\* A trial whose deadline has passed ends, because a killed child dies and the
\* joins have time-outs; process.wait() has none.
DeadlineEndsTrial ==
    \A t \in 1..Trials :
        (deadline /\ Trial = t) ~> (pc = "over" \/ Trial > t)
===============================================================================

---------------------------- MODULE CaptureCommand ----------------------------
(***************************************************************************)
(* cli._capture with the processes it starts: the target, which a           *)
(* sitecustomize module turns into a traced process                         *)
(* (_capture_bootstrap.install_from_environment) if it is a Python, and     *)
(* otherwise every Python that it starts.  TraceCapture.tla is one traced   *)
(* process in detail; of a second one only what it does to the file is      *)
(* kept.                                                                    *)
(***************************************************************************)
EXTENDS TraceCapture

CONSTANTS
    Requests,     \* the arguments a capture may be called with:
                  \*   target  "python", or a "launcher" of Pythons
                  \*   flaw    what is wrong with the arguments, or "none"
                  \*   files, names  of the workspace and the environment
    PlainStarts   \* bound: the spans that start after shutdown, with a launcher
                  \* or with something declared

ASSUME PlainStartsAssumption == PlainStarts \in 0..MaxStarts

\* What _capture itself finds, and what the bootstrap does.
CommandFlaws == {"no target", "no executable", "canary in the path", "timeout", "no root"}
BootstrapFlaws == {"event limit", "unsupported SDK", "configuration too large"}

ASSUME RequestsAssumption ==
    \A r \in Requests : /\ r.target \in {"python", "launcher"}
                        /\ r.flaw \in {"none"} \union CommandFlaws \union BootstrapFlaws
                        /\ r.files \in Seq(Range(r.files))
                        /\ \A name \in Range(r.files) \union Range(r.names) :
                              name.secret \in BOOLEAN

VARIABLES
    cli,       \* how _capture stands
    born,      \* the traced process has started
    launcher,  \* a launcher runs
    other      \* a second Python: "none", "up", "writing" or "gone"

command == <<cli, born, launcher, other>>
captureVars == <<processor, output, alive, request, command>>

-------------------------------------------------------------------------------
\* ensure_new_path, _resolve_target and the checks of the arguments.
Prepare ==
    /\ cli = "preparing"
    /\ cli' = IF file = "absent" /\ request.flaw \notin CommandFlaws THEN "ready" ELSE "error"
    /\ UNCHANGED <<processor, output, alive, request, born, launcher, other>>

Launch ==
    /\ cli = "ready"
    /\ cli' = "waiting"
    /\ launcher' = (request.target = "launcher")
    /\ UNCHANGED <<processor, output, alive, request, born, other>>

\* A mutant of Configured: the configuration is read and stays.
ConfiguredEver == cli = "waiting"

\* A Python that starts has the configuration in its environment: the target
\* takes it out of its own before anything else, a launcher does not know it.
Configured == cli = "waiting" /\ (request.target = "launcher" \/ ~born)

\* What the process waits for.
TargetRuns == IF request.target = "launcher" THEN launcher ELSE born => alive

\* install_from_environment, in the target or below the launcher: it exits
\* with status 78 rather than run untraced.  It may die before, too.
Bootstrap ==
    /\ Configured
    /\ ~born
    /\ TargetRuns
    /\ born' = TRUE
    /\ alive' \in {FALSE, request.flaw \notin BootstrapFlaws}
    /\ UNCHANGED <<processor, output, request, cli, launcher, other>>

Traced ==
    /\ ProcessorStep
    /\ \/ starts' <= PlainStarts
       \/ /\ request.target = "python" /\ request.files = <<>> /\ request.names = <<>>
          /\ closed => starts' = starts
    /\ UNCHANGED command

\* The traced process exits or crashes, at any time.
Exit ==
    /\ alive
    /\ Die
    /\ UNCHANGED command

\* The target or the launcher starts another Python; without a configuration
\* that stops at once and does nothing.
StartOther ==
    /\ Configured
    /\ launcher \/ born
    /\ request.flaw \notin BootstrapFlaws
    /\ TargetRuns
    /\ other = "none"
    /\ starts <= PlainStarts
    /\ other' = "up"
    /\ UNCHANGED <<processor, output, alive, request, cli, born, launcher>>

OtherOpens ==
    /\ other = "up"
    /\ Creatable
    /\ other' = "writing"
    /\ file' = "partial"
    /\ author' = "other"
    /\ UNCHANGED <<processor, alive, request, cli, born, launcher>>

OtherWrites ==
    /\ other = "writing"
    /\ other' = "gone"
    /\ file' = "whole"
    /\ UNCHANGED <<processor, author, alive, request, cli, born, launcher>>

OtherEnds ==
    /\ other \in {"up", "writing"}
    /\ other' = "gone"
    /\ UNCHANGED <<processor, output, alive, request, cli, born, launcher>>

\* A launcher need not wait for what it has started.
LauncherExits ==
    /\ launcher
    /\ launcher' = FALSE
    /\ UNCHANGED <<processor, output, alive, request, cli, born, other>>

\* Timeout and kill of the process group.
Timeout ==
    /\ cli = "waiting"
    /\ TargetRuns
    /\ Die
    /\ cli' = "error"
    /\ launcher' = FALSE
    /\ other' = IF other = "none" THEN "none" ELSE "gone"
    /\ UNCHANGED born

\* load_capsule rejects a file that is not whole.
Collect ==
    /\ cli = "waiting"
    /\ ~TargetRuns
    /\ cli' = IF file = "whole" THEN "captured" ELSE "error"
    /\ UNCHANGED <<processor, output, alive, request, born, launcher, other>>

-------------------------------------------------------------------------------
CaptureInit ==
    /\ request \in Requests
    /\ Start
    /\ file \in {"absent", "whole"}
    /\ author = IF file = "absent" THEN "nobody" ELSE "earlier"
    /\ alive = FALSE
    /\ cli = "preparing"
    /\ born = FALSE
    /\ launcher = FALSE
    /\ other = "none"

CaptureNext ==
    \/ Prepare
    \/ Launch
    \/ Bootstrap
    \/ Traced
    \/ Exit
    \/ StartOther
    \/ OtherOpens
    \/ OtherWrites
    \/ OtherEnds
    \/ LauncherExits
    \/ Timeout
    \/ Collect

CaptureSpec == CaptureInit /\ [][CaptureNext]_captureVars

-------------------------------------------------------------------------------
(* Properties.                                                               *)

\* A capture that ends well has a file that was written to its end and by this
\* capture's own processes; if the target is a Python, by the target, whatever
\* that has started, and with every callback of it in order (cli._capture,
\* install_from_environment).
CapturedIsOwn ==
    cli = "captured" =>
        /\ file = "whole"
        /\ request.flaw = "none"
        /\ author \in {"first", "other"}
        /\ request.target = "python" => author = "first" /\ ~refused

\* A file is begun only for a capsule that shows all that happened, with every
\* callback in order (on_trace_end, shutdown, write_capsule), and what a
\* capture reports as captured is its own.
PublishedShowsAll ==
    /\ writing => ~refused /\ ShowsAll(completed[1])
    /\ CapturedIsOwn

\* A failure of the traced process that comes before it begins the file keeps
\* it from ever beginning it.
FailureIsFinal == [][failure /\ author # "first" => author' # "first"]_captureVars

\* A file has one author: once begun it is written to its end by the process
\* that has begun it, or never, and a whole file stays as it is (write_capsule).
OneAuthor ==
    [][/\ file # "absent" => author' = author
       /\ file = "whole" => file' = "whole"
       /\ file = "partial" /\ file' = "whole" =>
              (other = "writing" <=> author = "other")]_captureVars

\* Whatever is built is a valid capsule within the limits, with every declared
\* file (_build_capsule, _capture_workspace, validate_capsule).
CompletedIsValid == \A capsule \in Range(completed) : WellBuilt(capsule) /\ HasTheFiles(capsule)
===============================================================================

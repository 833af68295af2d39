-------------------------------- MODULE Guards --------------------------------
(***************************************************************************)
(* The sitecustomize.py that stands in the way of a predicate's child: the  *)
(* text the runner writes (_network_guard_source in predicate.py) and the    *)
(* one reproduce.py writes (guard_source in export.py).  Python calls an     *)
(* audit hook with the event and its arguments before an operation; what    *)
(* the hook raises, the operation raises.                                   *)
(***************************************************************************)
EXTENDS Integers

\* Where a path resolves to: the trial's directory, the capsule's file, the
\* Python installation, anywhere else; a descriptor is no path.
Places == {"workspace", "capsule", "prefix", "host", "descriptor"}

\* One event of each class that the hook tells apart.
Operations ==
    [event : {"socket", "start a process", "load a library"}, from : {"host"}, to : {"host"}]
    \union [event : {"open to read", "open to write", "remove", "make a directory",
                     "change the directory", "list"}, from : Places, to : {"host"}]
    \union [event : {"rename"}, from : Places, to : Places]

\* fspath refuses a descriptor, which then counts as inside.
Inside(place, roots) == place \in roots \union {"descriptor"}

\* The runner puts the capsule's file into the trial's directory.
RunnerRoot == {"workspace", "capsule"}

RunnerDenies(op) ==
    \/ op.event \in {"socket", "start a process", "load a library"}
    \/ op.event = "open to read" /\ ~Inside(op.from, RunnerRoot \union {"capsule", "prefix"})
    \/ op.event \in {"open to write", "remove", "make a directory", "change the directory"}
         /\ ~Inside(op.from, RunnerRoot)
    \/ op.event = "list" /\ ~Inside(op.from, RunnerRoot \union {"prefix"})
    \/ op.event = "rename" /\ (~Inside(op.from, RunnerRoot) \/ ~Inside(op.to, RunnerRoot))

\* The capsule's file of reproduce.py is beside the script.
ScriptRoot == {"workspace"}

\* A mutant of ScriptDenies: only what is renamed is looked at.
ScriptDeniesSource(op) ==
    \/ op.event \in {"socket", "start a process", "load a library"}
    \/ op.event = "open to read" /\ ~Inside(op.from, ScriptRoot \union {"capsule", "prefix"})
    \/ op.event \in {"open to write", "remove", "make a directory",
                     "change the directory", "rename"} /\ ~Inside(op.from, ScriptRoot)
    \/ op.event = "list" /\ ~Inside(op.from, ScriptRoot \union {"prefix"})

ScriptDenies(op) ==
    \/ op.event \in {"socket", "start a process", "load a library"}
    \/ op.event = "open to read" /\ ~Inside(op.from, ScriptRoot \union {"capsule", "prefix"})
    \/ op.event \in {"open to write", "remove", "make a directory", "change the directory"}
         /\ ~Inside(op.from, ScriptRoot)
    \/ op.event = "list" /\ ~Inside(op.from, ScriptRoot \union {"prefix"})
    \/ op.event = "rename" /\ \E p \in {op.from, op.to} : ~Inside(p, ScriptRoot)

\* An operation on the capsule's own file, which the two guards see elsewhere.
OnCapsule(op) == "capsule" \in {op.from, op.to}

\* RLIMIT_CPU in seconds, from the time-out in tenths of a second.
RunnerCpu(tenths) == (tenths + 9) \div 10 + 1
ScriptCpu(tenths) == tenths \div 10 + 2
===============================================================================

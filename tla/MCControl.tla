------------------------------- MODULE MCControl -------------------------------
(* Instances of Control.                                                   *)
EXTENDS Control

CONSTANTS t1, t2, t3, g1, g2, g3

\* The last two tasks could change places but for their priorities.
Depends == [t \in Task |-> IF t = t1 THEN {} ELSE {t1}]
Order == [t \in Task |-> IF t = t1 THEN 1 ELSE IF t = t2 THEN 2 ELSE 0]
Hours == [t \in Task |-> IF t = t3 THEN 2 ELSE 1]
Owners == [g \in Gate |-> IF g = g1 THEN t1 ELSE IF g = g2 THEN t2 ELSE t3]

NoEvidence == [g \in Gate |-> {}]
Docs(tasks, gates, evidence, blockers) ==
    [tasks |-> tasks, gates |-> gates, evidence |-> evidence, blockers |-> blockers, updated |-> 0]
Pending == Docs([t \in Task |-> "pending"], [g \in Gate |-> "pending"], NoEvidence, {})

Fresh == [clock |-> 0, control |-> 0, source |-> 0, support |-> 0, collector |-> 0,
          verifier |-> [g \in Gate |-> 0], docs |-> Pending, open |-> {}, runs |-> {}]
Anchored == [Fresh EXCEPT !.clock = 1, !.docs.updated = 1]

Begin(tools, edits, acts, until, cs, t, measured) ==
    [tools |-> tools, edits |-> edits, acts |-> acts, until |-> until, now |-> 1,
     commits |-> cs, tree |-> t, measured |-> measured,
     gates |-> Gate, kind |-> [g \in Gate |-> "suite"]]

-----------------------------------------------------------------------------
\* next_task, with every PROGRESS.json.
ManifestAt(g, time) ==
    [gate |-> g, id |-> 1, commit |-> 1, verifier |-> 0, files |-> [outcome |-> "passed"],
     started |-> time, finished |-> time]
SomeManifest(g) == ManifestAt(g, 1)
Matching(ts) == [g \in Gate |-> IF ts[Owner[g]] = "passed" THEN "passed" ELSE "pending"]
Progresses ==
    {Docs(ts, gs, e, b) :
        ts \in [Task -> TaskStatus], gs \in [Gate -> {"pending", "in_progress", "passed"}],
        e \in {NoEvidence, [g \in Gate |-> {SomeManifest(g)}]}, b \in SUBSET {t2, t3}}
OneOff ==
    {d \in Progresses : Cardinality({g \in Gate : d.gates[g] # Matching(d.tasks)[g]}) <= 1}
Plans ==
    {Begin({"next_task"}, {}, 0, 1, <<[tree |-> Anchored, parent |-> 0]>>,
           [Anchored EXCEPT !.docs = d, !.open = o], {}) :
        d \in OneOff, o \in SUBSET {t3}}

\* bootstrap, in a fresh directory.
FreshDirectory == Begin({"bootstrap"}, {"clock", "control"}, 3, 3, <<>>, Fresh, {})

\* generate and release: the first two tasks are passed.
Run1(g) == [gate |-> g, id |-> 1, manifest |-> SomeManifest(g), intact |-> TRUE]
TwoPassed ==
    [Anchored EXCEPT
        !.runs = {Run1(g1), Run1(g2)},
        !.docs.tasks = [t \in Task |-> IF t = t3 THEN "pending" ELSE "passed"],
        !.docs.gates = [g \in Gate |-> IF g = g3 THEN "pending" ELSE "passed"],
        !.docs.evidence = [g \in Gate |-> IF g = g3 THEN {} ELSE {SomeManifest(g)}]]
Measured1(g) ==
    [gate |-> g, id |-> 1, commit |-> 1, started |-> 1, source |-> 0, touched |-> FALSE]
LastTask(edits, acts, until) ==
    [Begin({"generate", "release"}, {"progress"} \union edits, acts, until,
           <<[tree |-> Anchored, parent |-> 0], [tree |-> TwoPassed, parent |-> 1]>>,
           TwoPassed, {Measured1(g1), Measured1(g2)}) EXCEPT !.gates = {g3}]
\* The same, by bundles.
LastBundles(kind, edits, acts) ==
    [LastTask(edits, acts, 1) EXCEPT !.kind[g3] = kind]
LastTasks ==
    {LastTask({"source"}, 4, 1), LastTask({"support", "verifier"}, 4, 1),
     LastTask({"history"}, 4, 1), LastTask({"damage"}, 3, 1), LastTask({}, 2, 4),
     LastBundles("portable", {"collector"}, 3), LastBundles("package", {"collector", "damage"}, 3)}
\* All of it was measured at 2, so that it would pass by a clock set anew then.
AllPassed ==
    [TwoPassed EXCEPT
        !.runs = {[Run1(g) EXCEPT !.manifest = ManifestAt(g, 2)] : g \in Gate},
        !.docs.tasks = [t \in Task |-> "passed"],
        !.docs.gates = [g \in Gate |-> "passed"],
        !.docs.evidence = [g \in Gate |-> {ManifestAt(g, 2)}],
        !.docs.updated = 2]
Finished ==
    [Begin({"release"}, {"clock", "history"}, 4, 4,
           <<[tree |-> Anchored, parent |-> 0], [tree |-> AllPassed, parent |-> 1]>>,
           AllPassed, {[Measured1(g) EXCEPT !.started = 2] : g \in Gate}) EXCEPT !.now = 2]

\* The same, when no clock was committed at first.
Unanchored ==
    [Finished EXCEPT
        !.edits = {"clock"},
        !.commits = <<[tree |-> Fresh, parent |-> 0],
                      [tree |-> [AllPassed EXCEPT !.clock = 0], parent |-> 1]>>,
        !.tree.clock = 0]

\* final_release_gate.
Candidate ==
    Begin({"final"}, {"source", "control", "history"}, 4, 1,
          <<[tree |-> Anchored, parent |-> 0]>>, Anchored, {})

AllStarts == Plans \union {FreshDirectory, Finished, Unanchored, Candidate} \union LastTasks
===============================================================================

-------------------------------- MODULE Control --------------------------------
(***************************************************************************)
(* The control plane of the repository (scripts/): bootstrap.py,             *)
(* next_task.py, generate_gate_evidence.py with gates/_verify.py,            *)
(* release_gate.py and final_release_gate.py, one of them at work at a time,  *)
(* beside a builder who edits, commits and takes back what he likes.         *)
(*                                                                         *)
(* A commit is a tree and a parent.  A tree has the clock (.agent-state.json: *)
(* 0 when there is none, Cut when it is cut short), the other immutable files,*)
(* the sources, each gate's verifier, their support file, the collectors of     *)
(* bundles, PROGRESS.json, the tasks with an open manual item, and the          *)
(* evidence.  A verifier of version v pins version v of the support file.  A     *)
(* manifest is what a reference to it names by its hash; the files that it       *)
(* refers to, by their hashes, are its `files'.                               *)
(***************************************************************************)
EXTENDS Plan, Evidence, Sequences

CONSTANTS
    Starts,        \* how a behaviour may begin
    Total,         \* deadline_hours_total
    Checks,        \* how many checks the final gate runs
    RunIds,        \* names of evidence directories
    MaxCommits, MaxVersion   \* bounds of the model, beside acts and until of a start

Cut == -1
Nothing == [none |-> TRUE]

VARIABLES
    start,    \* of Starts (rigid)
    now, commits, head, tree,
    tool,     \* the command at work and its local variables
    said,     \* of next_task: its answer, and PROGRESS.json as it read it
    green,    \* of a green release gate: what it read
    receipt,  \* of the final gate
    log       \* history: what was measured and anchored, and the builder's acts

vars == <<start, now, commits, head, tree, tool, said, green, receipt, log>>

Idle == [kind |-> "none"]
Command(kind, pc, locals) ==
    LET common == [kind |-> kind, pc |-> pc, touched |-> FALSE, moved |-> {}]
    IN [f \in DOMAIN common \union DOMAIN locals |->
           IF f \in DOMAIN common THEN common[f] ELSE locals[f]]
HeadTree == commits[head].tree
Clean == head # 0 /\ tree = HeadTree
RootTree == commits[1].tree

\* The commits from which commit c descends, and itself: those in every set that
\* has c and the parents of its members.
Reached(c) ==
    {d \in 1..Len(commits) : \A some \in SUBSET (1..Len(commits)) :
        c \in some /\ (\A b \in some : commits[b].parent \in some \union {0}) => d \in some}

-----------------------------------------------------------------------------
(* The builder.                                                            *)

\* What the builder does is marked in the command that is at work: whether he has
\* touched the sources, and the parts of the tree, or the history, that a commit or
\* a reset has moved.
Acts(touches, moves) ==
    /\ log.acts < start.acts
    /\ log' = [log EXCEPT !.acts = @ + 1]
    /\ tool' = IF tool = Idle THEN tool
               ELSE [tool EXCEPT !.touched = @ \/ touches, !.moved = @ \union moves]
    /\ UNCHANGED <<start, now, said, green, receipt>>

Edits(kind) ==
    kind \in start.edits /\ Acts(kind = "source", {}) /\ UNCHANGED <<commits, head>>

Edit(change) ==
    /\ Edits(change) /\ tree[change] < MaxVersion
    /\ tree' = [tree EXCEPT ![change] = @ + 1]

\* Verifiers are made to pin the support file as it is.
EditVerifiers ==
    /\ Edits("verifier")
    /\ \E some \in SUBSET Gate :
          tree' = [tree EXCEPT !.verifier = [g \in Gate |-> IF g \in some THEN tree.support ELSE @[g]]]
    /\ tree' # tree

\* The clock is taken away, or set anew.
EditClock ==
    /\ Edits("clock")
    /\ \E clock \in {0, now} : tree' = [tree EXCEPT !.clock = clock]

\* A file of a run is damaged or lost.
Damage(r) ==
    /\ Edits("damage") /\ r.intact
    /\ tree' = [tree EXCEPT !.runs = (@ \ {r}) \union {[r EXCEPT !.intact = FALSE]}]

\* A task and its gates are marked as passed, by whatever manifest.
RecordPassed(t) ==
    /\ Edits("progress") /\ tree.docs.tasks[t] # "passed"
    /\ \E r \in {s \in tree.runs : s.manifest # Nothing} :
          tree' = [tree EXCEPT
              !.docs.tasks[t] = "passed",
              !.docs.gates = [g \in Gate |-> IF g \in Owned(t) THEN "passed" ELSE @[g]],
              !.docs.evidence = [g \in Gate |-> IF g \in Owned(t) THEN {r.manifest} ELSE @[g]],
              !.docs.updated = now]

CommitAll(parent) ==
    /\ commits' = Append(commits, [tree |-> tree, parent |-> parent])
    /\ head' = Len(commits')
    /\ UNCHANGED tree

\* The parts in which HEAD or the working tree differs from the tree `new' that both
\* are about to have.
Moved(new) == {part \in DOMAIN new : new[part] # HeadTree[part] \/ new[part] # tree[part]}

Commit ==
    /\ head # 0 /\ ~Clean /\ Len(commits) < MaxCommits
    /\ CommitAll(head) /\ Acts(FALSE, Moved(tree))

\* git reset --hard: what was never committed and is no part of a commit stays.
ResetTo(c) ==
    /\ "history" \in start.edits /\ c # 0
    /\ LET new == commits[c].tree
       IN Acts(new.source # tree.source,
               Moved(new) \union IF c = head THEN {} ELSE {"history"})
    /\ head' = c
    /\ tree' = [commits[c].tree EXCEPT !.runs = @ \union (tree.runs \ HeadTree.runs)]
    /\ <<head', tree'>> # <<head, tree>>
    /\ UNCHANGED commits

TakeBack == head # 0 /\ (ResetTo(head) \/ ResetTo(commits[head].parent))

Tick ==
    /\ now < start.until
    /\ now' = now + 1
    /\ UNCHANGED <<start, commits, head, tree, tool, said, green, receipt, log>>

-----------------------------------------------------------------------------
(* Commands.                                                               *)

Begins(kind) == tool = Idle /\ kind \in start.tools

Keeps == UNCHANGED <<start, now, commits, head, said, green, receipt, log>>
Ends == tool' = Idle
At(kind, pc) == tool.kind = kind /\ tool.pc = pc
Goto(pc) == tool' = [tool EXCEPT !.pc = pc]

\* A command that fails, or is killed, leaves what it has written.
Dies ==
    /\ tool # Idle /\ Ends
    /\ UNCHANGED tree /\ Keeps

\* A mutant of ControlUnchanged: the files are compared with the last commit.
ControlUnchangedSince ==
    HeadTree.clock = tree.clock /\ HeadTree.control = tree.control

\* assert_control_plane_unchanged: the root commit has each of the files, and
\* nothing differs from it.
ControlUnchanged ==
    /\ RootTree.clock # 0
    /\ RootTree.clock = tree.clock /\ RootTree.control = tree.control

\* load_project_documents, of the tree as it is.
DocumentsLoad == ValidShape(tree.docs, tree.open)

ClockIsValid == tree.clock \in 1..now

(* bootstrap *)

BeginBootstrap ==
    /\ Begins("bootstrap")
    /\ IF head = 0 THEN tree.clock = 0 ELSE ClockIsValid
    /\ tool' = Command("bootstrap", IF head = 0 THEN "open" ELSE "check", [clock |-> now])
    /\ UNCHANGED tree /\ Keeps

\* write_text empties the file before it writes it.
OpenClock ==
    /\ At("bootstrap", "open")
    /\ tree' = [tree EXCEPT !.clock = Cut]
    /\ Goto("fill")
    /\ Keeps

FillClock ==
    /\ At("bootstrap", "fill")
    /\ tree' = [tree EXCEPT !.clock = tool.clock]
    /\ Goto("progress")
    /\ Keeps

WriteProgress ==
    /\ At("bootstrap", "progress")
    /\ tree' = [tree EXCEPT !.docs.updated = tool.clock]
    /\ Goto("commit")
    /\ Keeps

CommitAnchor ==
    /\ At("bootstrap", "commit")
    /\ CommitAll(0)
    /\ Goto("check")
    /\ UNCHANGED <<start, now, said, green, receipt, log>>

NextTask ==
    \E answer \in Answers(tree.docs) : said' = [answer |-> answer, docs |-> tree.docs]

\* verify.py and next_task.py both load the documents.
EndBootstrap ==
    /\ At("bootstrap", "check")
    /\ ControlUnchanged /\ DocumentsLoad
    /\ NextTask
    /\ log' = [log EXCEPT !.anchored = @ \union {tree.clock}]
    /\ Ends
    /\ UNCHANGED <<start, now, commits, head, tree, green, receipt>>

RunNextTask ==
    /\ Begins("next_task") /\ UNCHANGED tool
    /\ DocumentsLoad /\ ClockIsValid
    /\ NextTask
    /\ UNCHANGED <<start, now, commits, head, tree, green, receipt, log>>

(* generate_gate_evidence.  The test of the new manifest at its end decides   *)
(* only what is printed.                                                    *)

Incomplete(g, id) == [gate |-> g, id |-> id, manifest |-> Nothing, intact |-> TRUE]
Kind(g) == start.kind[g]

BeginGenerate(g, id) ==
    /\ Begins("generate")
    /\ g \in start.gates
    /\ Clean /\ DocumentsLoad
    /\ ~\E r \in tree.runs : r.gate = g /\ r.id = id
    /\ tool' = Command("generate", "measure",
                        [gate |-> g, id |-> id, commit |-> head, started |-> now, files |-> Nothing])
    /\ UNCHANGED tree /\ Keeps

\* Files are written, and referred to by their hashes; or something fails.
Measures(files, source) ==
    /\ tree' = [tree EXCEPT !.runs = @ \union {Incomplete(tool.gate, tool.id)}]
    /\ \/ Ends /\ UNCHANGED log
       \/ /\ tool' = [tool EXCEPT !.pc = "write", !.files = files]
          /\ log' = [log EXCEPT !.measured = @ \union
                {[gate |-> tool.gate, id |-> tool.id, commit |-> tool.commit,
                  started |-> tool.started, source |-> source, touched |-> tool.touched]}]
    /\ UNCHANGED <<start, now, commits, head, said, green, receipt>>

\* The gate's commands are run, with the sources as they are.
Measure ==
    /\ At("generate", "measure") /\ Kind(tool.gate) = "suite"
    /\ \E outcome \in {"passed", "skipped"} : Measures([outcome |-> outcome], tree.source)

\* The bundles that there are of the commit that is measured and the one before.
Bundles ==
    {Collected(Kind(tool.gate), c, commits[c].tree.collector, p) :
        c \in {tool.commit, commits[tool.commit].parent} \ {0}, p \in Platforms[Kind(tool.gate)]}

\* Bundles are copied, if they are found to be right; one has had a mishap at most.
CopyProofs ==
    /\ At("generate", "measure") /\ Kind(tool.gate) # "suite"
    /\ \E own \in CompleteSets(Kind(tool.gate), Bundles) : \E b \in own :
          \E x \in Arrived(b, Bundles) : LET inputs == (own \ {b}) \union {x} IN
              /\ InputsAreTaken(Kind(tool.gate), tool.commit, inputs)
              /\ Measures(Copied(Kind(tool.gate), inputs), commits[tool.commit].tree.source)

WriteManifest ==
    /\ At("generate", "write")
    /\ \E r \in tree.runs :
          /\ r.gate = tool.gate /\ r.id = tool.id
          /\ tree' = [tree EXCEPT !.runs = (@ \ {r}) \union {[r EXCEPT !.manifest =
                [gate |-> tool.gate, id |-> tool.id, commit |-> tool.commit,
                 verifier |-> tree.verifier[tool.gate], files |-> tool.files,
                 started |-> tool.started, finished |-> now]]}]
    /\ Ends
    /\ Keeps

(* release_gate.  It may report more than one failure, and is red with one, so *)
(* that the order of the gates makes no difference.  Its checks of resolved    *)
(* items are commands, which may fail it (Dies).  The five minutes' allowance   *)
(* for clocks that differ is less than a step of the clock.                   *)

BeginRelease ==
    /\ Begins("release")
    /\ DocumentsLoad /\ ClockIsValid
    /\ tool' = Command("release", "anchors",
                        [docs |-> tree.docs, open |-> tree.open, clock |-> tree.clock,
                         left |-> Gate, latest |-> tree.clock, at |-> now])
    /\ UNCHANGED tree /\ Keeps

CheckAnchors ==
    /\ At("release", "anchors")
    /\ Clean /\ ControlUnchanged
    /\ now <= tool.clock + Total
    /\ tool.docs.updated \in tool.clock..now
    /\ tool.open = {} /\ Passed(tool.docs) = Task
    /\ tool' = [tool EXCEPT !.pc = "gates", !.at = now]
    /\ UNCHANGED tree /\ Keeps

\* validate_evidence_window.
InWindow(g, m) ==
    /\ tool.clock <= m.started /\ m.started <= m.finished
    /\ m.finished <= tool.at /\ m.finished <= tool.clock + Deadline[Owner[g]]

\* assert_commit_exists.
CommitCounts(c) == c \in Reached(head)

\* The manifest is there, and so are the files it refers to, as they were.
Intact(m) == m # Nothing /\ \E r \in tree.runs : r.manifest = m /\ r.intact

\* run_gate_verifier and verify_manifest: the verifier in the tree finds the
\* support file it pins, and what it looks for in the files.
VerifierAccepts(g, m) ==
    /\ tree.support = tree.verifier[g] /\ Intact(m)
    /\ Shown(Kind(g), m.files, m.commit, commits[m.commit].tree.collector, tree.collector)

\* A mutant of EvidenceHolds: the verifier may be another than the one measured.
EvidenceHoldsToday(g, m) ==
    /\ m.gate = g
    /\ CommitCounts(m.commit) /\ InWindow(g, m) /\ VerifierAccepts(g, m)

\* verify_evidence_reference, and what is asked of each manifest.
EvidenceHolds(g, m) ==
    /\ m.gate = g
    /\ Intact(m)
    /\ tree.verifier[g] = m.verifier
    /\ commits[m.commit].tree.verifier[g] = m.verifier
    /\ CommitCounts(m.commit) /\ InWindow(g, m) /\ VerifierAccepts(g, m)

CheckGate(g) ==
    /\ At("release", "gates") /\ g \in tool.left
    /\ \A h \in tool.left : Priority[Owner[g]] <= Priority[Owner[h]]
    /\ \A m \in tool.docs.evidence[g] : EvidenceHolds(g, m)
    /\ LET times == {tool.latest} \union {m.finished : m \in tool.docs.evidence[g]}
       IN tool' = [tool EXCEPT !.left = @ \ {g},
                               !.latest = CHOOSE t \in times : \A u \in times : u <= t]
    /\ UNCHANGED tree /\ Keeps

EndRelease ==
    /\ At("release", "gates") /\ tool.left = {}
    /\ tool.docs.updated >= tool.latest /\ Clean
    /\ green' = [head |-> head, docs |-> tool.docs, clock |-> tool.clock, at |-> tool.at,
                 moved |-> tool.moved]
    /\ Ends
    /\ UNCHANGED <<start, now, commits, head, tree, said, receipt, log>>

(* final_release_gate *)

BeginFinal ==
    /\ Begins("final") /\ Clean
    /\ tool' = Command("final", "head", [commit |-> 0, ran |-> 0, sources |-> {}])
    /\ UNCHANGED tree /\ Keeps

\* _head, and the comparison with the commit that was asked for.
ReadHead ==
    /\ At("final", "head")
    /\ tool' = [tool EXCEPT !.pc = "checks", !.commit = head, !.moved = {}]
    /\ UNCHANGED tree /\ Keeps

RunCheck ==
    /\ At("final", "checks") /\ tool.ran < Checks
    /\ tool' = [tool EXCEPT !.ran = @ + 1, !.sources = @ \union {tree.source}]
    /\ UNCHANGED tree /\ Keeps

\* A mutant of EndFinal: the tree is not looked at again.
EndFinalUnseen ==
    /\ At("final", "checks") /\ tool.ran = Checks /\ receipt = Nothing
    /\ receipt' = [commit |-> tool.commit, sources |-> tool.sources, moved |-> tool.moved]
    /\ Ends
    /\ UNCHANGED <<start, now, commits, head, tree, said, green, log>>

EndFinal ==
    /\ At("final", "checks") /\ tool.ran = Checks /\ Clean
    /\ receipt = Nothing
    /\ receipt' = [commit |-> tool.commit, sources |-> tool.sources, moved |-> tool.moved]
    /\ Ends
    /\ UNCHANGED <<start, now, commits, head, tree, said, green, log>>

-----------------------------------------------------------------------------
(* What a behaviour may begin with is what the commands and a builder leave.   *)

IsTree(t) ==
    /\ t = [clock |-> t.clock, control |-> t.control, source |-> t.source,
            support |-> t.support, collector |-> t.collector, verifier |-> t.verifier,
            docs |-> t.docs, open |-> t.open, runs |-> t.runs]
    /\ t.docs = [tasks |-> t.docs.tasks, gates |-> t.docs.gates, evidence |-> t.docs.evidence,
                 blockers |-> t.docs.blockers, updated |-> t.docs.updated]
    /\ \A r \in t.runs :
          r = [gate |-> r.gate, id |-> r.id, manifest |-> r.manifest, intact |-> r.intact]
    /\ t.clock \in Int /\ t.source \in Nat /\ t.support \in Nat /\ t.collector \in Nat
    /\ t.verifier \in [Gate -> Nat]

IsHistory(cs) ==
    /\ Len(cs) \in Nat /\ cs = [c \in 1..Len(cs) |-> cs[c]]
    /\ \A c \in 1..Len(cs) :
          /\ cs[c] = [tree |-> cs[c].tree, parent |-> cs[c].parent]
          /\ cs[c].parent \in 0..(c - 1)
          /\ IsTree(cs[c].tree)

\* The bundles of a manifest were collected, each on some commit.
FilesAreOfBundles(kind, files) ==
    /\ files = [p \in Platforms[kind] |-> files[p]]
    /\ \A p \in Platforms[kind] : LET proof == files[p].proof IN
          /\ files[p] = [proof |-> proof, files |-> files[p].files]
          /\ proof = Collected(kind, proof.commit, proof.collector, proof.platform).proof

\* What a manifest says was measured so, on one of the commits cs.
WasMeasured(m, cs, measured, kinds) ==
    /\ m.commit \in 1..Len(cs) /\ m.gate \in Gate
    /\ \E x \in measured :
          /\ x.gate = m.gate /\ x.id = m.id /\ x.commit = m.commit /\ x.started = m.started
          /\ x.touched \/ x.source = cs[m.commit].tree.source
    /\ kinds[m.gate] # "suite" => FilesAreOfBundles(kinds[m.gate], m.files)

\* A clock, once there is one in the root commit, was not set before; and a
\* verifier pins no version of the support file that there has not been.
IsSound(t, cs, measured, kinds, time) ==
    /\ Cut <= t.clock /\ t.clock <= time
    /\ Len(cs) # 0 => t.clock = 0 \/ cs[1].tree.clock <= t.clock
    /\ \A g \in Gate : t.verifier[g] <= t.support
    /\ \A r \in t.runs : r.manifest # Nothing => WasMeasured(r.manifest, cs, measured, kinds)

ASSUME StartsAssumption ==
    \A s \in Starts :
        /\ s.now \in Nat /\ s.kind \in [Gate -> Kinds]
        /\ IsHistory(s.commits) /\ IsTree(s.tree)
        /\ \A t \in {s.tree} \union {s.commits[c].tree : c \in 1..Len(s.commits)} :
              IsSound(t, s.commits, s.measured, s.kind, s.now)

ASSUME BoundsAssumption == Total \in Nat /\ Checks \in Nat \ {0}

-----------------------------------------------------------------------------
Init ==
    /\ start \in Starts
    /\ now = start.now
    /\ commits = start.commits
    /\ head = Len(commits)
    /\ tree = start.tree
    /\ tool = Idle
    /\ said = Nothing
    /\ green = Nothing
    /\ receipt = Nothing
    /\ log = [measured |-> start.measured, anchored |-> {}, acts |-> 0]

Builder ==
    \/ \E change \in {"source", "support", "control", "collector"} : Edit(change)
    \/ EditVerifiers
    \/ EditClock
    \/ \E r \in tree.runs : Damage(r)
    \/ \E t \in Task : RecordPassed(t)
    \/ Commit \/ TakeBack

Bootstrap ==
    BeginBootstrap \/ OpenClock \/ FillClock \/ WriteProgress \/ CommitAnchor \/ EndBootstrap
Generate == (\E g \in Gate, id \in RunIds : BeginGenerate(g, id)) \/ Measure \/ CopyProofs \/ WriteManifest
Release == BeginRelease \/ CheckAnchors \/ (\E g \in Gate : CheckGate(g)) \/ EndRelease
Final == BeginFinal \/ ReadHead \/ RunCheck \/ EndFinal

Next == Builder \/ Tick \/ Dies \/ Bootstrap \/ RunNextTask \/ Generate \/ Release \/ Final

Spec == Init /\ [][Next]_vars

-----------------------------------------------------------------------------
(* Properties.                                                             *)

\* Whatever the builder has put into PROGRESS.json, next_task names a task that
\* may be worked on, and sends him to the release gate only when all is passed.
NextTaskIsRight == said # Nothing => AnswerIsRight(said.docs, said.answer)

\* Whatever is killed, deleted or set anew, every bootstrap that succeeds goes by the
\* clock of the root commit.  A green release gate goes by one no earlier, and has
\* begun in time by it; and it goes by that of the root commit unless the clock was
\* committed or taken back while the gate was at work: it reads the clock before it
\* asks whether the tree is clean.
ClockIsNeverReset ==
    /\ log.anchored # {} => log.anchored = {RootTree.clock}
    /\ green # Nothing =>
          /\ RootTree.clock <= green.clock /\ green.at <= green.clock + Total
          /\ "clock" \notin green.moved => green.clock = RootTree.clock

\* A green release gate means, whatever the builder does meanwhile, that every task
\* is passed in the PROGRESS.json it read, and each gate by evidence that was
\* measured, in time, on a commit and on what that commit has, unless the sources
\* were touched during the measurement; that tests have run and passed, and of
\* bundles there is one of each platform, with no file of another commit or machine.
\* Of the commit that is HEAD at the end it means that PROGRESS.json is its own, that
\* the commits measured are in its history, and that its verifiers and collectors are
\* those of the commits measured: each unless a commit or a reset has moved just
\* that while the gate was at work.
GreenIsProved ==
    green # Nothing =>
        LET docs == green.docs
            today == commits[green.head].tree
            Still(parts) == parts \intersect green.moved = {}
        IN /\ Passed(docs) = Task
           /\ Still({"docs"}) => docs = today.docs
           /\ \A g \in Gate :
                 /\ docs.evidence[g] # {}
                 /\ \A m \in docs.evidence[g] : LET then == commits[m.commit].tree IN
                       /\ green.clock <= m.started
                       /\ m.finished <= green.clock + Deadline[Owner[g]]
                       /\ \E x \in log.measured :
                             /\ x.gate = g /\ x.id = m.id
                             /\ x.commit = m.commit /\ x.started = m.started
                             /\ x.touched \/ x.source = then.source
                       /\ ShowsItsGate(Kind(g), m.files, m.commit, then.collector)
                       /\ Still({"history"}) => m.commit \in Reached(green.head)
                       /\ Still({"verifier", "support"}) =>
                             then.verifier[g] = today.verifier[g] /\ today.verifier[g] = today.support
                       /\ Still({"collector"}) =>
                             Kind(g) = "suite" \/ then.collector = today.collector

\* The final gate's receipt names the commit whose sources its checks ran on, although
\* it reads HEAD once and HEAD may move on: unless it is the sources that are
\* committed or taken back after it was read.
ReceiptIsOfItsCommit ==
    receipt # Nothing /\ "source" \notin receipt.moved =>
        receipt.sources = {commits[receipt.commit].tree.source}
===============================================================================

------------------------------ MODULE ControlProofs ------------------------------
(***************************************************************************)
(* The repository's control plane, for every task graph, every PROGRESS.json  *)
(* the builder may put into the tree, every history it may begin with and      *)
(* every interleaving of the commands with the builder.                       *)
(*                                                                         *)
(* What next_task says is right: what Answers says of a document is enough,    *)
(* as every document it is asked of has passed validate_state_shape.          *)
(*                                                                         *)
(* What the gates say is right: IInv has, for each command, what it knows at   *)
(* each line (BootstrapKnows, GenerateKnows, ReleaseKnows, FinalKnows), and    *)
(* of every tree that its clock is not before the root's, its verifiers are    *)
(* not ahead of the support file and its manifests say what was measured       *)
(* (IsSound).  Edits only let the versions in the tree rise; a commit or a      *)
(* reset settles the tree on HEAD's, and leaves what it does not move as it     *)
(* was (Settles).  So what is clean at the end of a gate, and was not moved,    *)
(* is what each of its checks saw.                                           *)
(***************************************************************************)
EXTENDS Control, TLAPS

\* What a task waits for includes its dependencies, and theirs.
LEMMA UpstreamIsClosed ==
    ASSUME NEW t \in Task
    PROVE  /\ Upstream(t) \subseteq Task
           /\ DependsOn[t] \subseteq Upstream(t)
           /\ \A s \in Upstream(t) : DependsOn[s] \subseteq Upstream(t)
<1>1. \A s \in Task : DependsOn[s] \subseteq Task
  BY PlanAssumption
<1> QED BY <1>1 DEF Upstream

\* In a valid PROGRESS.json, what a ready task waits for is passed.
LEMMA ReadyTasksWaitForNothing ==
    ASSUME NEW p, NEW open, ValidShape(p, open), NEW t \in Candidates(p)
    PROVE  Upstream(t) \subseteq Passed(p)
<1>1. Passed(p) \in SUBSET Task /\ DependsOn[t] \subseteq Passed(p)
  BY DEF Passed, Candidates
<1>2. \A s \in Passed(p) : DependsOn[s] \subseteq Passed(p)
  BY DEF Passed, ValidShape, TasksAreValid
<1> QED BY <1>1, <1>2 DEF Upstream

\* When none is ready, each task that is not passed is blocked or waits for one
\* that is: of what it waits for and is not passed, one waits for passed tasks
\* alone, and would be ready if it were not blocked.
LEMMA StuckTasksWaitForBlocked ==
    ASSUME NEW p, NEW open, ValidShape(p, open), Candidates(p) = {},
           NEW t \in Task, t \notin Passed(p)
    PROVE  \E u \in Upstream(t) \union {t} : u \in Task /\ p.tasks[u] = "blocked"
<1> DEFINE left == (Upstream(t) \union {t}) \ Passed(p)
<1>1. left \in SUBSET Task /\ left # {}
  BY UpstreamIsClosed
<1>2. PICK u \in left : DependsOn[u] \intersect left = {}
  BY <1>1, PlanAssumption DEF Acyclic
<1>3. DependsOn[u] \subseteq Upstream(t)
  BY UpstreamIsClosed
<1>4. u \in Task /\ u \notin Passed(p) /\ DependsOn[u] \subseteq Passed(p)
  BY <1>1, <1>2, <1>3
<1>5. p.tasks[u] \in TaskStatus
  BY <1>4 DEF ValidShape
<1> QED BY <1>2, <1>4, <1>5 DEF Candidates, Passed, TaskStatus

\* The task that is named is the only one under way, if any is.
LEMMA FirstIsTheActiveOne ==
    ASSUME NEW p, NEW open, ValidShape(p, open), NEW t \in Candidates(p),
           \A d \in Candidates(p) \ {t} : Before(p, t, d)
    PROVE  Active(p) \subseteq {t}
<1>1. SUFFICES ASSUME NEW u \in Active(p), u # t PROVE FALSE
  OBVIOUS
<1>2. u \in Candidates(p)
  BY DEF Active, Candidates, ValidShape, TasksAreValid
<1>3. t \in Active(p)
  BY <1>1, <1>2 DEF Before
<1> QED BY <1>1, <1>3 DEF ValidShape

LEMMA AnswersAreRight ==
    ASSUME NEW p, NEW open, ValidShape(p, open), NEW answer \in Answers(p)
    PROVE  AnswerIsRight(p, answer)
<1>1. CASE \E t \in Candidates(p) :
              /\ answer = [says |-> "task", task |-> t]
              /\ \A d \in Candidates(p) \ {t} : Before(p, t, d)
  <2>1. PICK t \in Candidates(p) :
            /\ answer = [says |-> "task", task |-> t]
            /\ \A d \in Candidates(p) \ {t} : Before(p, t, d)
    BY <1>1
  <2>2. t \notin Passed(p)
    BY DEF Candidates, Passed
  <2>3. Upstream(t) \subseteq Passed(p)
    BY ReadyTasksWaitForNothing
  <2>4. Active(p) \subseteq {t}
    BY <2>1, FirstIsTheActiveOne
  <2> QED BY <2>1, <2>2, <2>3, <2>4 DEF AnswerIsRight
<1>2. CASE /\ Candidates(p) = {}
           /\ answer = [says |-> "blocked"]
  <2>1. \A t \in Task \ Passed(p) :
            \E u \in Upstream(t) \union {t} : p.tasks[u] = "blocked"
    BY <1>2, StuckTasksWaitForBlocked
  <2> QED BY <1>2, <2>1 DEF AnswerIsRight
<1>3. CASE /\ Candidates(p) = {}
           /\ ~\E t \in Task : p.tasks[t] = "blocked"
           /\ answer = [says |-> "done"]
  <2>1. Task \subseteq Passed(p)
    BY <1>3, StuckTasksWaitForBlocked
  <2>2. Passed(p) = Task
    BY <2>1 DEF Passed
  <2> QED BY <1>3, <2>2 DEF AnswerIsRight
<1> QED BY <1>1, <1>2, <1>3 DEF Answers

-----------------------------------------------------------------------------
\* An answer was given of a document that had passed validate_state_shape.
SaidOfValid ==
    said # Nothing => \E open : ValidShape(said.docs, open) /\ said.answer \in Answers(said.docs)

LEMMA NextTaskSaysOfValid ==
    ASSUME NextTask, ValidShape(tree.docs, tree.open)
    PROVE  SaidOfValid'
<1>1. PICK answer \in Answers(tree.docs) : said' = [answer |-> answer, docs |-> tree.docs]
  BY DEF NextTask
<1> QED BY <1>1 DEF SaidOfValid

LEMMA SaidOfValidIsKept ==
    ASSUME SaidOfValid, [Next]_vars
    PROVE  SaidOfValid'
<1>1. CASE EndBootstrap
  BY SMTT(60), <1>1, NextTaskSaysOfValid DEF EndBootstrap, DocumentsLoad
<1>2. CASE RunNextTask
  BY SMTT(60), <1>2, NextTaskSaysOfValid DEF RunNextTask, DocumentsLoad
<1>3. CASE said' = said
  BY SMTT(60), <1>3 DEF SaidOfValid
<1>4. Builder => said' = said
  BY DEF Builder, Edit, EditVerifiers, EditClock, Damage, RecordPassed, Edits, Acts, Commit,
         TakeBack, ResetTo
<1>5. BeginBootstrap \/ OpenClock \/ FillClock \/ WriteProgress \/ CommitAnchor => said' = said
  BY DEF BeginBootstrap, OpenClock, FillClock, WriteProgress, CommitAnchor, Keeps
<1>6. Generate => said' = said
  BY ZenonT(60) DEF Generate, BeginGenerate, Measure, CopyProofs, Measures, WriteManifest, Keeps
<1>7. Release => said' = said
  BY DEF Release, BeginRelease, CheckAnchors, CheckGate, EndRelease, Keeps
<1>8. Final => said' = said
  BY DEF Final, BeginFinal, ReadHead, RunCheck, EndFinal, Keeps
<1>9. Tick \/ Dies \/ UNCHANGED vars => said' = said
  BY DEF Tick, Dies, Keeps, vars
<1> QED BY <1>1, <1>2, <1>3, <1>4, <1>5, <1>6, <1>7, <1>8, <1>9 DEF Next, Bootstrap

\* Whatever the graph and whatever the builder has put into PROGRESS.json,
\* next_task names a task that may be worked on and sends him to the release
\* gate only when all is passed.
THEOREM AnswersStayRight == Spec => []NextTaskIsRight
<1>1. Init => SaidOfValid
  BY DEF Init, SaidOfValid
<1>2. SaidOfValid => NextTaskIsRight
  BY AnswersAreRight DEF SaidOfValid, NextTaskIsRight
<1> QED BY <1>1, <1>2, SaidOfValidIsKept, PTL DEF Spec

-------------------------------------------------------------------------------
(* The clock, the evidence and the gates.                                  *)

\* The fields of a command, by its kind.
Fields == [none |-> {"kind"},
           bootstrap |-> {"kind", "pc", "touched", "moved", "clock"},
           generate |-> {"kind", "pc", "touched", "moved", "gate", "id", "commit", "started", "files"},
           release |-> {"kind", "pc", "touched", "moved", "docs", "open", "clock", "left", "latest", "at"},
           final |-> {"kind", "pc", "touched", "moved", "commit", "ran", "sources"}]

\* A command has the fields of its kind.
IsFramed(t) ==
    /\ t.kind \in {"none", "bootstrap", "generate", "release", "final"}
    /\ t = [f \in Fields[t.kind] |-> t[f]]
    /\ t.kind # "none" => t.touched \in BOOLEAN

\* The parts of the state have the shapes the commands give them.
Shapes ==
    /\ start.kind \in [Gate -> Kinds]
    /\ now \in Nat
    /\ IsHistory(commits)
    /\ head \in 0..Len(commits) /\ (head = 0 <=> Len(commits) = 0)
    /\ IsTree(tree)
    /\ log = [measured |-> log.measured, anchored |-> log.anchored, acts |-> log.acts]
    /\ IsFramed(tool)

\* Every commit, and the working tree, is as the commands and the builder leave it.
CommitsAreSound ==
    \A c \in 1..Len(commits) : IsSound(commits[c].tree, commits, log.measured, start.kind, now)
TreeIsSound == IsSound(tree, commits, log.measured, start.kind, now)

TreesAreSound == TreeIsSound /\ CommitsAreSound

\* bootstrap_clock has seen that nothing is committed, and commits but once.
BootstrapKnows ==
    tool.kind = "bootstrap" =>
        /\ tool.clock \in 0..now
        /\ \/ tool.pc \in {"open", "fill", "progress", "commit"} /\ head = 0
           \/ tool.pc = "check" /\ head # 0

\* generate_evidence has begun on a clean tree, and then has measured.
GenerateKnows ==
    tool.kind = "generate" =>
        /\ tool.gate \in Gate /\ tool.commit \in 1..Len(commits)
        /\ \/ /\ tool.pc = "measure"
              /\ ~tool.touched => tree.source = commits[tool.commit].tree.source
           \/ /\ tool.pc = "write"
              /\ WasMeasured([gate |-> tool.gate, id |-> tool.id, commit |-> tool.commit,
                              files |-> tool.files, started |-> tool.started],
                             commits, log.measured, start.kind)

\* A manifest of g tells what was measured, in time by the clock, on what its commit has.
Backs(g, m, clock) ==
    /\ m.commit \in 1..Len(commits)
    /\ clock <= m.started /\ m.finished <= clock + Deadline[Owner[g]]
    /\ \E x \in log.measured :
          /\ x.gate = g /\ x.id = m.id
          /\ x.commit = m.commit /\ x.started = m.started
          /\ x.touched \/ x.source = commits[m.commit].tree.source
    /\ ShowsItsGate(Kind(g), m.files, m.commit, commits[m.commit].tree.collector)

\* What the release gate has found of a manifest of g: what is said of HEAD, unless that
\* has been moved.
Held(g, m) ==
    /\ Backs(g, m, tool.clock)
    /\ commits[m.commit].tree.verifier[g] = m.verifier
    /\ "history" \notin tool.moved => m.commit \in Reached(head)
    /\ {"verifier", "support"} \intersect tool.moved = {} =>
          /\ HeadTree.support <= m.verifier /\ m.verifier <= tree.support
          /\ HeadTree.support <= tree.verifier[g]
    /\ "collector" \notin tool.moved /\ Kind(g) # "suite" =>
          commits[m.commit].tree.collector \in HeadTree.collector..tree.collector

\* The release gate: the clock it has loaded is no earlier than the root's, the versions
\* in the tree are no older than those committed, and what no commit or reset has moved
\* is what it has read, or has risen from it.
ReleaseKnows ==
    tool.kind = "release" =>
        /\ ValidShape(tool.docs, tool.open)
        /\ tool.clock \in 1..now /\ (head # 0 => RootTree.clock <= tool.clock)
        /\ "docs" \notin tool.moved /\ Passed(tool.docs) = Task => tree.docs = tool.docs
        /\ \/ /\ tool.pc = "anchors"
              /\ tool.left = Gate
              /\ "clock" \notin tool.moved => tree.clock = 0 \/ tool.clock <= tree.clock
           \/ /\ tool.pc = "gates" /\ head # 0
              /\ "clock" \notin tool.moved => tool.clock = RootTree.clock
              /\ tool.at <= tool.clock + Total
              /\ Passed(tool.docs) = Task
              /\ HeadTree.support <= tree.support /\ HeadTree.collector <= tree.collector
              /\ \A g \in Gate \ tool.left : \A m \in tool.docs.evidence[g] : Held(g, m)

\* The final gate: the sources in the tree are no older than HEAD's, and once HEAD is
\* read, unless they are moved, HEAD's stay those of the commit that was read, and its
\* checks saw none that are older.
FinalKnows ==
    tool.kind = "final" =>
        /\ head # 0 /\ HeadTree.source <= tree.source
        /\ tool.ran \in Nat
        /\ \/ tool.pc = "head" /\ tool.ran = 0 /\ tool.sources = {}
           \/ /\ tool.pc = "checks" /\ tool.commit \in 1..Len(commits)
              /\ "source" \notin tool.moved =>
                    /\ commits[tool.commit].tree.source = HeadTree.source
                    /\ \A s \in tool.sources :
                          s \in Nat /\ HeadTree.source <= s /\ s <= tree.source
        /\ tool.ran = 0 \/ tool.sources # {}

\* What was anchored is the clock of the root commit.
AnchoredIsTheRoot == log.anchored # {} => head # 0 /\ log.anchored = {RootTree.clock}
-----------------------------------------------------------------------------
\* What append does to a sequence of anything.
LEMMA AppendExtends ==
    ASSUME NEW s, NEW x, Len(s) \in Nat, s = [i \in 1..Len(s) |-> s[i]]
    PROVE  /\ Len(Append(s, x)) = Len(s) + 1
           /\ Append(s, x) = [i \in 1..(Len(s) + 1) |-> Append(s, x)[i]]
           /\ \A i \in 1..Len(s) : Append(s, x)[i] = s[i]
           /\ Append(s, x)[Len(s) + 1] = x
<1> DEFINE all == {s[i] : i \in 1..Len(s)} \union {x}
<1>1. s \in [1..Len(s) -> all]
  <2>1. \A i \in 1..Len(s) : s[i] \in all
    OBVIOUS
  <2> QED BY <2>1
<1>2. s \in Seq(all) /\ x \in all
  BY <1>1
<1>3. Append(s, x) \in Seq(all)
  BY <1>2
<1> HIDE DEF all
<1>4. /\ Len(Append(s, x)) = Len(s) + 1
      /\ \A i \in 1..Len(s) : Append(s, x)[i] = s[i]
      /\ Append(s, x)[Len(s) + 1] = x
  BY <1>2
<1>5. \A t \in Seq(all) : t = [i \in 1..Len(t) |-> t[i]]
  OBVIOUS
<1>6. Append(s, x) = [i \in 1..(Len(s) + 1) |-> Append(s, x)[i]]
  BY <1>3, <1>4, <1>5
<1> QED BY <1>4, <1>6

\* What the builder does while a command runs leaves a mark on it, and nothing else.
LEMMA ActsMark ==
    ASSUME NEW touches \in BOOLEAN, NEW moves, Acts(touches, moves), IsFramed(tool)
    PROVE  /\ IsFramed(tool') /\ tool'.kind = tool.kind
           /\ \A f \in Fields[tool.kind] \ {"touched", "moved"} : tool'[f] = tool[f]
           /\ tool.kind # "none" =>
                 /\ tool'.touched = (tool.touched \/ touches)
                 /\ tool'.moved = tool.moved \union moves
<1>1. CASE tool = Idle
  BY <1>1 DEF Acts, Idle, IsFramed, Fields
<1>2. CASE tool # Idle
  <2>1. tool.kind # "none" /\ tool.touched \in BOOLEAN
    BY <1>2 DEF Idle, IsFramed, Fields
  <2>2. tool' = [tool EXCEPT !.touched = @ \/ touches, !.moved = @ \union moves]
    BY <1>2 DEF Acts
  <2>3. {"kind", "touched", "moved"} \subseteq DOMAIN tool /\ DOMAIN tool = Fields[tool.kind]
    BY <2>1 DEF IsFramed, Fields
  <2>4. tool'.kind = tool.kind
    BY <2>2, <2>3
  <2>5. tool' = [f \in Fields[tool.kind] |-> tool'[f]]
    BY <2>2, <2>3
  <2>6. tool'.touched = (tool.touched \/ touches) /\ tool'.moved = tool.moved \union moves
    BY <2>2, <2>3
  <2>7. \A f \in Fields[tool.kind] \ {"touched", "moved"} : tool'[f] = tool[f]
    BY <2>2, <2>3
  <2>8. tool'.touched \in BOOLEAN
    BY <2>1, <2>6
  <2> QED BY <2>1, <2>4, <2>5, <2>6, <2>7, <2>8 DEF IsFramed
<1> QED BY <1>1, <1>2

-----------------------------------------------------------------------------
\* What the builder does to the working tree alone.
EditsTheTree ==
    \/ \E change \in {"source", "support", "control", "collector"} : Edit(change)
    \/ EditVerifiers
    \/ EditClock
    \/ \E r \in tree.runs : Damage(r)
    \/ \E t \in Task : RecordPassed(t)

\* What edits do to a tree, and what they do not.
Rises ==
    /\ commits' = commits /\ head' = head
    /\ IsTree(tree')
    /\ tree.source <= tree'.source
    /\ tree.support <= tree'.support /\ tree.collector <= tree'.collector
    /\ tree'.docs = tree.docs \/ \E t \in Task : tree.docs.tasks[t] # "passed"
    /\ \A g \in Gate : tree'.verifier[g] \in {tree.verifier[g], tree.support}
    /\ tree'.clock \in {tree.clock, 0, now}
    /\ \A r \in tree'.runs : \E q \in tree.runs : r.manifest = q.manifest

\* A tree that nobody edits has risen, too.
LEMMA StandingStillRises ==
    ASSUME IsTree(tree), UNCHANGED <<commits, head, tree>>
    PROVE  Rises
BY DEF Rises, IsTree

\* An edit puts a version into the tree that it has not had.
LEMMA EditRises ==
    ASSUME IsTree(tree), NEW change \in {"source", "support", "control", "collector"}, Edit(change)
    PROVE  Rises
<1>1. tree' = [tree EXCEPT ![change] = @ + 1] /\ UNCHANGED <<commits, head>>
  BY DEF Edit, Edits
<1>2. /\ tree'.verifier = tree.verifier /\ tree'.runs = tree.runs /\ tree'.docs = tree.docs
      /\ tree'.clock = tree.clock
      /\ tree' = [clock |-> tree'.clock, control |-> tree'.control, source |-> tree'.source,
            support |-> tree'.support, collector |-> tree'.collector, verifier |-> tree'.verifier,
            docs |-> tree'.docs, open |-> tree'.open, runs |-> tree'.runs]
  BY <1>1 DEF IsTree
<1>3. \A f \in {"source", "support", "collector"} :
          tree[f] \in Nat /\ tree'[f] \in {tree[f], tree[f] + 1}
  BY <1>1 DEF IsTree
<1>4. /\ tree'.source \in Nat /\ tree'.support \in Nat /\ tree'.collector \in Nat
      /\ tree.source <= tree'.source
      /\ tree.support <= tree'.support /\ tree.collector <= tree'.collector
  BY <1>3
<1>5. IsTree(tree')
  BY <1>2, <1>4 DEF IsTree
<1> QED BY <1>1, <1>2, <1>4, <1>5 DEF Rises, IsTree

\* A verifier is written anew against the support file as it is.
LEMMA EditVerifiersRises ==
    ASSUME IsTree(tree), EditVerifiers
    PROVE  Rises
<1>1. UNCHANGED <<commits, head>>
  BY DEF EditVerifiers, Edits
<1>2. PICK some \in SUBSET Gate :
          tree' = [tree EXCEPT !.verifier = [g \in Gate |-> IF g \in some THEN tree.support ELSE @[g]]]
  BY DEF EditVerifiers
<1>3. /\ tree'.verifier = [g \in Gate |-> IF g \in some THEN tree.support ELSE tree.verifier[g]]
      /\ tree'.runs = tree.runs /\ tree'.docs = tree.docs
      /\ tree'.clock = tree.clock /\ tree'.source = tree.source
      /\ tree'.support = tree.support /\ tree'.collector = tree.collector
  BY <1>2 DEF IsTree
<1>4. tree'.verifier \in [Gate -> Nat]
  BY <1>3 DEF IsTree
<1>5. IsTree(tree')
  BY <1>2, <1>3, <1>4 DEF IsTree
<1> QED BY <1>1, <1>3, <1>5 DEF Rises, IsTree

\* A clock that is written by hand tells the time, or none.
LEMMA EditClockRises ==
    ASSUME IsTree(tree), now \in Nat, EditClock
    PROVE  Rises
<1>1. UNCHANGED <<commits, head>>
  BY DEF EditClock, Edits
<1>2. PICK clock \in {0, now} : tree' = [tree EXCEPT !.clock = clock]
  BY DEF EditClock
<1> QED BY <1>1, <1>2 DEF Rises, IsTree

\* A damaged run keeps its manifest.
LEMMA DamageRises ==
    ASSUME IsTree(tree), NEW r \in tree.runs, Damage(r)
    PROVE  Rises
<1>1. UNCHANGED <<commits, head>>
  BY DEF Damage, Edits
<1>2. tree' = [tree EXCEPT !.runs = (@ \ {r}) \union {[r EXCEPT !.intact = FALSE]}]
  BY DEF Damage
<1>3. /\ tree'.runs = (tree.runs \ {r}) \union {[r EXCEPT !.intact = FALSE]}
      /\ tree'.docs = tree.docs /\ tree'.verifier = tree.verifier
      /\ tree'.clock = tree.clock /\ tree'.source = tree.source
      /\ tree'.support = tree.support /\ tree'.collector = tree.collector
  BY <1>2 DEF IsTree
<1>4. r = [gate |-> r.gate, id |-> r.id, manifest |-> r.manifest, intact |-> r.intact]
  BY DEF IsTree
<1>5. PICK d : d = [r EXCEPT !.intact = FALSE]
  OBVIOUS
<1>6. /\ d.manifest = r.manifest
      /\ d = [gate |-> d.gate, id |-> d.id, manifest |-> d.manifest, intact |-> d.intact]
  BY ZenonT(60), <1>4, <1>5
<1>7. \A q \in tree'.runs :
          /\ q = [gate |-> q.gate, id |-> q.id, manifest |-> q.manifest, intact |-> q.intact]
          /\ \E s \in tree.runs : q.manifest = s.manifest
  BY <1>3, <1>6, <1>5 DEF IsTree
<1>8. IsTree(tree')
  BY <1>2, <1>3, <1>7 DEF IsTree
<1> QED BY <1>1, <1>3, <1>7, <1>8 DEF Rises, IsTree

\* Who records that a task passed changes the documents, as long as one is left.
LEMMA RecordPassedRises ==
    ASSUME IsTree(tree), NEW t \in Task, RecordPassed(t)
    PROVE  Rises
<1>1. UNCHANGED <<commits, head>> /\ tree.docs.tasks[t] # "passed"
  BY SMTT(60) DEF RecordPassed, Edits
<1>2. PICK r \in tree.runs : tree' = [tree EXCEPT
              !.docs.tasks[t] = "passed",
              !.docs.gates = [g \in Gate |-> IF g \in Owned(t) THEN "passed" ELSE @[g]],
              !.docs.evidence = [g \in Gate |-> IF g \in Owned(t) THEN {r.manifest} ELSE @[g]],
              !.docs.updated = now]
  BY DEF RecordPassed
<1>3. /\ tree'.runs = tree.runs /\ tree'.verifier = tree.verifier
      /\ tree'.clock = tree.clock /\ tree'.source = tree.source
      /\ tree'.support = tree.support /\ tree'.collector = tree.collector
      /\ tree' = [clock |-> tree'.clock, control |-> tree'.control, source |-> tree'.source,
            support |-> tree'.support, collector |-> tree'.collector, verifier |-> tree'.verifier,
            docs |-> tree'.docs, open |-> tree'.open, runs |-> tree'.runs]
  BY <1>2 DEF IsTree
<1>4. tree'.docs = [tasks |-> tree'.docs.tasks, gates |-> tree'.docs.gates, evidence |-> tree'.docs.evidence,
                 blockers |-> tree'.docs.blockers, updated |-> tree'.docs.updated]
  BY ZenonT(60), <1>2 DEF IsTree
<1>5. IsTree(tree')
  BY <1>3, <1>4 DEF IsTree
<1> QED BY <1>1, <1>3, <1>5 DEF Rises, IsTree

\* So every edit has the tree rise.
LEMMA EditsRise ==
    ASSUME IsTree(tree), now \in Nat, EditsTheTree
    PROVE  Rises
BY EditRises, EditVerifiersRises, EditClockRises, DamageRises, RecordPassedRises DEF EditsTheTree

-----------------------------------------------------------------------------
\* What is kept of the history of the repository and of its measurements.
Grows ==
    /\ start' = start /\ now' \in Nat /\ now <= now'
    /\ IsHistory(commits') /\ Len(commits) <= Len(commits')
    /\ \A c \in 1..Len(commits) : commits'[c] = commits[c]
    /\ log.measured \subseteq log'.measured
    /\ log' = [measured |-> log'.measured, anchored |-> log'.anchored, acts |-> log'.acts]

\* What was measured is not forgotten.
LEMMA LogsAreKept ==
    ASSUME Shapes, NEW x,
           \/ log' = log
           \/ log' = [log EXCEPT !.acts = x]
           \/ log' = [log EXCEPT !.anchored = x]
           \/ log' = [log EXCEPT !.measured = log.measured \union x]
    PROVE  /\ log.measured \subseteq log'.measured
           /\ log' = [measured |-> log'.measured, anchored |-> log'.anchored, acts |-> log'.acts]
BY DEF Shapes

\* git commit adds one commit, on top of the one that was checked out.
LEMMA CommitAllGrows ==
    ASSUME Shapes, NEW parent \in 0..Len(commits), CommitAll(parent)
    PROVE  /\ IsHistory(commits') /\ Len(commits') = Len(commits) + 1
           /\ \A c \in 1..Len(commits) : commits'[c] = commits[c]
           /\ commits'[Len(commits')] = [tree |-> tree, parent |-> parent]
           /\ head' = Len(commits') /\ tree' = tree
<1> DEFINE new == [tree |-> tree, parent |-> parent]
<1>1. /\ commits' = Append(commits, new) /\ head' = Len(commits') /\ tree' = tree
  BY DEF CommitAll
<1>2. /\ Len(commits) \in Nat /\ IsTree(tree)
      /\ commits = [c \in 1..Len(commits) |-> commits[c]]
  BY DEF Shapes, IsHistory
<1>3. /\ Len(commits') = Len(commits) + 1
      /\ commits' = [i \in 1..(Len(commits) + 1) |-> commits'[i]]
      /\ \A i \in 1..Len(commits) : commits'[i] = commits[i]
      /\ commits'[Len(commits) + 1] = new
  BY <1>1, <1>2, AppendExtends
<1>4. ASSUME NEW c \in 1..Len(commits')
      PROVE  /\ commits'[c] = [tree |-> commits'[c].tree, parent |-> commits'[c].parent]
             /\ commits'[c].parent \in 0..(c - 1)
             /\ IsTree(commits'[c].tree)
  <2>1. CASE c \in 1..Len(commits)
    BY <2>1, <1>3 DEF Shapes, IsHistory
  <2>2. CASE c = Len(commits) + 1
    BY <2>2, <1>2, <1>3
  <2> QED BY <2>1, <2>2, <1>2, <1>3
<1> QED BY <1>1, <1>2, <1>3, <1>4 DEF IsHistory

\* Each commit has a tree, and comes after its parent.
LEMMA CommitsAreTrees ==
    ASSUME Shapes, NEW c \in 1..Len(commits)
    PROVE  IsTree(commits[c].tree) /\ commits[c].parent \in 0..(c - 1)
BY DEF Shapes, IsHistory

\* git reset brings back the tree of the commit, and leaves the runs git has not seen.
LEMMA ResetKeepsTrees ==
    ASSUME Shapes, NEW c \in 1..Len(commits), ResetTo(c), head # 0
    PROVE  /\ IsTree(tree') /\ head' = c
           /\ tree' = [commits[c].tree EXCEPT !.runs = @ \union (tree.runs \ HeadTree.runs)]
<1>1. tree' = [commits[c].tree EXCEPT !.runs = @ \union (tree.runs \ HeadTree.runs)]
  BY DEF ResetTo
<1>2. IsTree(commits[c].tree) /\ IsTree(tree)
  BY CommitsAreTrees DEF Shapes
<1>3. /\ tree'.runs = commits[c].tree.runs \union (tree.runs \ HeadTree.runs)
      /\ tree'.docs = commits[c].tree.docs /\ tree'.verifier = commits[c].tree.verifier
      /\ tree'.clock = commits[c].tree.clock /\ tree'.source = commits[c].tree.source
      /\ tree'.support = commits[c].tree.support /\ tree'.collector = commits[c].tree.collector
  BY <1>1, <1>2 DEF IsTree
<1>4. \A r \in tree'.runs :
          r = [gate |-> r.gate, id |-> r.id, manifest |-> r.manifest, intact |-> r.intact]
  BY <1>2, <1>3 DEF IsTree
<1>5. IsTree(tree')
  BY <1>1, <1>2, <1>3, <1>4 DEF IsTree
<1> QED BY <1>1, <1>5 DEF ResetTo

\* A tree with another clock is a tree.
LEMMA NewClocksAreTrees ==
    ASSUME IsTree(tree), NEW clock \in Int, tree' = [tree EXCEPT !.clock = clock]
    PROVE  IsTree(tree')
BY DEF IsTree

\* bootstrap writes nothing but the date into PROGRESS.json.
LEMMA WriteProgressKeepsTrees ==
    ASSUME IsTree(tree), WriteProgress
    PROVE  /\ IsTree(tree') /\ tree'.runs = tree.runs /\ tree'.verifier = tree.verifier
           /\ tree'.clock = tree.clock /\ tree'.source = tree.source
           /\ tree'.support = tree.support /\ tree'.collector = tree.collector
<1>1. tree' = [tree EXCEPT !.docs.updated = tool.clock]
  BY DEF WriteProgress
<1>2. /\ tree'.runs = tree.runs /\ tree'.verifier = tree.verifier
      /\ tree'.clock = tree.clock /\ tree'.source = tree.source
      /\ tree'.support = tree.support /\ tree'.collector = tree.collector
  BY <1>1 DEF IsTree
<1>3. IsTree(tree')
  BY <1>1, <1>2 DEF IsTree
<1> QED BY <1>2, <1>3

\* When only runs change, they keep the shape of runs.
LEMMA NewRunsAreTrees ==
    ASSUME IsTree(tree), NEW runs, tree' = [tree EXCEPT !.runs = runs],
           \A r \in runs :
               r = [gate |-> r.gate, id |-> r.id, manifest |-> r.manifest, intact |-> r.intact]
    PROVE  /\ IsTree(tree') /\ tree'.runs = runs /\ tree'.verifier = tree.verifier
           /\ tree'.clock = tree.clock /\ tree'.source = tree.source
           /\ tree'.support = tree.support /\ tree'.collector = tree.collector
<1>1. /\ tree'.runs = runs /\ tree'.verifier = tree.verifier /\ tree'.docs = tree.docs
      /\ tree'.clock = tree.clock /\ tree'.source = tree.source
      /\ tree'.support = tree.support /\ tree'.collector = tree.collector
  BY DEF IsTree
<1> QED BY <1>1 DEF IsTree

-----------------------------------------------------------------------------
\* What was measured goes on to have been measured.
LEMMA MeasurementsAreKept ==
    ASSUME Grows, NEW m, WasMeasured(m, commits, log.measured, start.kind)
    PROVE  WasMeasured(m, commits', log'.measured, start'.kind)
<1>1. m.commit \in 1..Len(commits') /\ commits'[m.commit] = commits[m.commit]
  BY DEF Grows, IsHistory, WasMeasured
<1> QED BY <1>1 DEF Grows, WasMeasured

\* A sound tree stays so while the history grows, once there is a root commit.
LEMMA SoundnessIsKept ==
    ASSUME Shapes, Grows, Len(commits) # 0 \/ commits' = commits,
           NEW t, IsTree(t), IsSound(t, commits, log.measured, start.kind, now)
    PROVE  IsSound(t, commits', log'.measured, start'.kind, now')
<1>1. \A r \in t.runs : r.manifest # Nothing =>
          WasMeasured(r.manifest, commits', log'.measured, start'.kind)
  BY MeasurementsAreKept DEF IsSound
<1>2. Cut <= t.clock /\ t.clock <= now'
  BY SMTT(60) DEF IsSound, Grows, Shapes, IsTree, Cut
<1>3. Len(commits') # 0 => t.clock = 0 \/ commits'[1].tree.clock <= t.clock
  <2>1. Len(commits) # 0 => commits'[1] = commits[1]
    BY SMTT(60) DEF Grows, Shapes, IsHistory
  <2> QED BY <2>1 DEF IsSound
<1>4. \A g \in Gate : t.verifier[g] <= t.support
  BY DEF IsSound
<1> QED BY <1>1, <1>2, <1>3, <1>4 DEF IsSound

\* Where nothing is committed, the commits stay sound ...
LEMMA CommitsStaySound ==
    ASSUME Shapes, Grows, CommitsAreSound, commits' = commits
    PROVE  CommitsAreSound'
BY SoundnessIsKept, CommitsAreTrees DEF CommitsAreSound

\* ... and so does a working tree that nobody touches.
LEMMA TreeStaysSound ==
    ASSUME Shapes, Grows, TreeIsSound, commits' = commits, tree' = tree
    PROVE  TreeIsSound'
<1>1. IsSound(tree, commits', log'.measured, start'.kind, now')
  BY SoundnessIsKept DEF TreeIsSound, Shapes
<1> QED BY <1>1 DEF TreeIsSound

\* A tree is sound when its clock, verifiers and manifests are.
LEMMA NewTreeIsSound ==
    ASSUME Shapes, Grows, IsTree(tree'), commits' = commits,
           Cut <= tree'.clock, tree'.clock <= now',
           Len(commits) # 0 => tree'.clock = 0 \/ RootTree.clock <= tree'.clock,
           \A g \in Gate : tree'.verifier[g] <= tree'.support,
           \A r \in tree'.runs : r.manifest # Nothing =>
               WasMeasured(r.manifest, commits, log.measured, start.kind)
    PROVE  TreeIsSound'
<1>1. \A r \in tree'.runs : r.manifest # Nothing =>
          WasMeasured(r.manifest, commits', log'.measured, start'.kind)
  BY MeasurementsAreKept
<1>2. Len(commits') # 0 => tree'.clock = 0 \/ commits'[1].tree.clock <= tree'.clock
  BY DEF RootTree
<1> QED BY <1>1, <1>2 DEF TreeIsSound, IsSound

\* The clock of the root commit tells a time that has been.
LEMMA RootClockIsPast ==
    ASSUME Shapes, CommitsAreSound, Len(commits) # 0
    PROVE  RootTree.clock <= now /\ RootTree.clock \in Int
<1>1. 1 \in 1..Len(commits)
  BY DEF Shapes, IsHistory
<1>2. IsTree(commits[1].tree)
  BY <1>1, CommitsAreTrees
<1> QED BY <1>1, <1>2 DEF CommitsAreSound, IsSound, RootTree, IsTree

\* Edits keep the working tree sound.
LEMMA RisingKeepsSoundness ==
    ASSUME Shapes, Grows, CommitsAreSound, TreeIsSound, Rises
    PROVE  TreeIsSound'
<1>1. \A r \in tree'.runs : r.manifest # Nothing =>
          WasMeasured(r.manifest, commits, log.measured, start.kind)
  BY DEF Rises, TreeIsSound, IsSound
<1>2. Cut <= tree'.clock /\ tree'.clock <= now'
  BY SMTT(60) DEF Rises, TreeIsSound, IsSound, Grows, Shapes, IsTree, Cut
<1>3. Len(commits) # 0 => tree'.clock = 0 \/ RootTree.clock <= tree'.clock
  BY RootClockIsPast DEF Rises, TreeIsSound, IsSound, RootTree
<1>4. \A g \in Gate : tree'.verifier[g] <= tree'.support
  <2>1. \A g \in Gate : tree.verifier[g] <= tree.support /\ tree.verifier[g] \in Nat
    BY DEF TreeIsSound, IsSound, Shapes, IsTree
  <2>2. tree.support <= tree'.support /\ tree.support \in Nat /\ tree'.support \in Nat
    BY DEF Rises, Shapes, IsTree
  <2> QED BY <2>1, <2>2 DEF Rises
<1>5. IsTree(tree') /\ commits' = commits
  BY DEF Rises
<1> QED BY <1>1, <1>2, <1>3, <1>4, <1>5, NewTreeIsSound

\* git reset keeps it so.
LEMMA ResettingKeepsSoundness ==
    ASSUME Shapes, Grows, CommitsAreSound, TreeIsSound,
           NEW c \in 1..Len(commits), ResetTo(c), head # 0
    PROVE  TreeIsSound'
<1> DEFINE old == commits[c].tree
<1>1. /\ IsTree(tree') /\ tree' = [old EXCEPT !.runs = @ \union (tree.runs \ HeadTree.runs)]
  BY ResetKeepsTrees
<1>2. IsTree(old)
  BY CommitsAreTrees
<1>3. commits' = commits
  BY DEF ResetTo
<1>4. IsSound(old, commits, log.measured, start.kind, now)
  BY DEF CommitsAreSound
<1> HIDE DEF old
<1>5. /\ tree'.clock = old.clock /\ tree'.verifier = old.verifier /\ tree'.support = old.support
      /\ tree'.runs \subseteq old.runs \union tree.runs
  BY <1>1, <1>2 DEF IsTree
<1>6. \A r \in tree'.runs : r.manifest # Nothing =>
          WasMeasured(r.manifest, commits, log.measured, start.kind)
  BY <1>4, <1>5 DEF TreeIsSound, IsSound
<1>7. Cut <= tree'.clock /\ tree'.clock <= now'
  BY SMTT(60), <1>2, <1>4, <1>5 DEF IsSound, IsTree, Grows, Shapes, Cut
<1>8. Len(commits) # 0 => tree'.clock = 0 \/ RootTree.clock <= tree'.clock
  BY <1>4, <1>5 DEF IsSound, RootTree
<1>9. \A g \in Gate : tree'.verifier[g] <= tree'.support
  BY <1>4, <1>5 DEF IsSound
<1> QED BY <1>1, <1>3, <1>6, <1>7, <1>8, <1>9, NewTreeIsSound

\* What is committed is sound.
LEMMA CommittingKeepsSoundness ==
    ASSUME Shapes, Grows, CommitsAreSound, TreeIsSound, Len(commits) # 0,
           NEW parent \in 0..Len(commits), CommitAll(parent)
    PROVE  TreeIsSound' /\ CommitsAreSound'
<1>1. /\ Len(commits') = Len(commits) + 1 /\ tree' = tree
      /\ \A c \in 1..Len(commits) : commits'[c] = commits[c]
      /\ commits'[Len(commits')].tree = tree
  <2>1. commits'[Len(commits')] = [tree |-> tree, parent |-> parent]
    BY CommitAllGrows
  <2>2. commits'[Len(commits')].tree = tree
    BY <2>1
  <2> QED BY <2>2, CommitAllGrows
<1>2. IsSound(tree, commits', log'.measured, start'.kind, now')
  BY SoundnessIsKept DEF TreeIsSound, Shapes
<1>3. ASSUME NEW c \in 1..Len(commits')
      PROVE  IsSound(commits'[c].tree, commits', log'.measured, start'.kind, now')
  <2>1. CASE c \in 1..Len(commits)
    BY <2>1, <1>1, SoundnessIsKept, CommitsAreTrees DEF CommitsAreSound
  <2>2. CASE c = Len(commits')
    BY <2>2, <1>1, <1>2
  <2>3. Len(commits) \in Nat
    BY DEF Shapes, IsHistory
  <2> QED BY <2>1, <2>2, <2>3, <1>1
<1> QED BY <1>1, <1>2, <1>3 DEF TreeIsSound, CommitsAreSound

\* The first commit has the clock of the tree.
LEMMA AnchoringKeepsSoundness ==
    ASSUME Shapes, Grows, TreeIsSound, Len(commits) = 0, CommitAll(0)
    PROVE  TreeIsSound' /\ CommitsAreSound'
<1>1. /\ Len(commits') = 1 /\ tree' = tree /\ commits'[1].tree = tree
  BY CommitAllGrows
<1>2. \A r \in tree.runs : r.manifest # Nothing =>
          WasMeasured(r.manifest, commits', log'.measured, start'.kind)
  BY MeasurementsAreKept DEF TreeIsSound, IsSound
<1>3. Cut <= tree.clock /\ tree.clock <= now' /\ tree.clock <= tree.clock
  BY DEF TreeIsSound, IsSound, Grows, Shapes, IsTree, Cut
<1>4. IsSound(tree, commits', log'.measured, start'.kind, now')
  BY <1>1, <1>2, <1>3 DEF TreeIsSound, IsSound
<1> QED BY <1>1, <1>4 DEF TreeIsSound, CommitsAreSound

-----------------------------------------------------------------------------
\* When nothing is committed, a step keeps the shapes if it keeps those of the
\* tree, the log and the command.
LEMMA ShapesAreKept ==
    ASSUME Shapes, UNCHANGED <<start, commits>>, now' \in Nat, now <= now',
           head' \in 0..Len(commits), head' = 0 <=> head = 0,
           IsTree(tree'), IsFramed(tool'), NEW x,
           \/ log' = log
           \/ log' = [log EXCEPT !.acts = x]
           \/ log' = [log EXCEPT !.anchored = x]
           \/ log' = [log EXCEPT !.measured = log.measured \union x]
    PROVE  Grows /\ Shapes'
<1>1. /\ log.measured \subseteq log'.measured
      /\ log' = [measured |-> log'.measured, anchored |-> log'.anchored, acts |-> log'.acts]
  BY LogsAreKept
<1>2. Grows
  BY <1>1 DEF Grows, Shapes, IsHistory
<1> QED BY <1>1, <1>2 DEF Shapes

\* Neither does a step that commits the tree, if it keeps those of the log and the command.
LEMMA CommitsKeepShapes ==
    ASSUME Shapes, UNCHANGED <<start, now>>, NEW parent \in 0..Len(commits), CommitAll(parent),
           IsFramed(tool'), NEW x, log' = log \/ log' = [log EXCEPT !.acts = x]
    PROVE  Grows /\ Shapes'
<1>1. /\ IsHistory(commits') /\ Len(commits') = Len(commits) + 1
      /\ \A c \in 1..Len(commits) : commits'[c] = commits[c]
      /\ head' = Len(commits') /\ tree' = tree
  BY CommitAllGrows
<1>2. /\ log.measured \subseteq log'.measured
      /\ log' = [measured |-> log'.measured, anchored |-> log'.anchored, acts |-> log'.acts]
  BY LogsAreKept
<1>3. Len(commits) \in Nat
  BY DEF Shapes, IsHistory
<1>4. Grows
  BY <1>1, <1>2, <1>3 DEF Grows, Shapes
<1>5. head' \in 0..Len(commits') /\ (head' = 0 <=> Len(commits') = 0)
  BY <1>1, <1>3
<1>6. IsTree(tree') /\ now' \in Nat /\ start'.kind \in [Gate -> Kinds]
  BY <1>1 DEF Shapes
<1>7. Shapes'
  BY <1>1, <1>2, <1>5, <1>6 DEF Shapes
<1> QED BY <1>4, <1>7

\* A command that goes on to another line keeps all else.
LEMMA MovesOfPc ==
    ASSUME IsFramed(tool), tool.kind # "none", NEW pc, tool' = [tool EXCEPT !.pc = pc]
    PROVE  /\ IsFramed(tool') /\ tool'.kind = tool.kind /\ tool'.pc = pc
           /\ \A f \in Fields[tool.kind] \ {"pc"} : tool'[f] = tool[f]
<1>1. {"kind", "pc", "moved", "touched"} \subseteq Fields[tool.kind]
  BY DEF IsFramed, Fields
<1>2. DOMAIN tool = Fields[tool.kind]
  BY DEF IsFramed
<1>3. /\ tool' = [f \in Fields[tool.kind] |-> tool'[f]] /\ tool'.pc = pc
      /\ \A f \in Fields[tool.kind] \ {"pc"} : tool'[f] = tool[f]
  BY <1>1, <1>2
<1>4. tool'.kind = tool.kind /\ tool'.moved = tool.moved /\ tool'.touched = tool.touched
  BY <1>1, <1>3
<1> QED BY <1>3, <1>4 DEF IsFramed

\* That no command runs is a frame, too.
LEMMA IdleIsFramed == IsFramed(Idle) /\ Idle.kind = "none"
BY DEF IsFramed, Idle, Fields

\* A command that begins has its own fields beside the common ones.
Common == {"kind", "pc", "touched", "moved"}
AreOf(locals, kind) == DOMAIN locals = Fields[kind] \ Common /\ Common \subseteq Fields[kind]
\* What Command makes of the fields of its own.
Begun(c, kind, pc, locals) ==
    /\ IsFramed(c) /\ c.kind = kind /\ c.pc = pc /\ c.touched = FALSE /\ c.moved = {}
    /\ \A f \in DOMAIN locals : c[f] = locals[f]

\* Command frames a command.
LEMMA CommandsAreFramed ==
    ASSUME NEW kind \in {"bootstrap", "generate", "release", "final"}, NEW pc, NEW locals,
           AreOf(locals, kind), NEW c, c = Command(kind, pc, locals)
    PROVE  Begun(c, kind, pc, locals)
<1>1. DOMAIN c = Common \union DOMAIN locals
  BY DEF Command, Common
<1>2. c = [f \in DOMAIN c |-> c[f]]
  BY DEF Command
<1>3. c.kind = kind /\ c.pc = pc /\ c.touched = FALSE /\ c.moved = {}
  BY DEF Command
<1>4. \A f \in DOMAIN locals \ Common : c[f] = locals[f]
  BY DEF Command, Common
<1>5. DOMAIN c = Fields[kind]
  BY <1>1 DEF AreOf
<1>6. IsFramed(c)
  BY <1>2, <1>3, <1>5 DEF IsFramed
<1> QED BY <1>3, <1>4, <1>6 DEF Begun, AreOf

-----------------------------------------------------------------------------
(* Each step keeps the shapes.                                             *)

\* Edits.
LEMMA EditsKeepShapes ==
    ASSUME Shapes, EditsTheTree
    PROVE  Grows /\ Shapes' /\ Rises
<1>1. Rises
  BY SMTT(60), EditsRise DEF Shapes
<1>2. UNCHANGED <<commits, head>> /\ \E touches \in BOOLEAN : Acts(touches, {})
  BY DEF EditsTheTree, Edit, EditVerifiers, EditClock, Damage, RecordPassed, Edits
<1>3. IsFramed(tool')
  BY <1>2, ActsMark DEF Shapes
<1>4. UNCHANGED <<start, now>> /\ log' = [log EXCEPT !.acts = log.acts + 1]
  BY <1>2 DEF Acts
<1>5. IsTree(tree')
  BY <1>1 DEF Rises
<1>6. head' \in 0..Len(commits) /\ (head' = 0 <=> head = 0) /\ now' \in Nat /\ now <= now'
  BY <1>2, <1>4 DEF Shapes
<1>7. Grows /\ Shapes'
  BY <1>2, <1>3, <1>4, <1>5, <1>6, ShapesAreKept
<1> QED BY SMTT(60), <1>1, <1>7

\* git commit by the builder.
LEMMA CommitKeepsShapes ==
    ASSUME Shapes, Commit
    PROVE  Grows /\ Shapes'
<1>1. CommitAll(head) /\ Acts(FALSE, Moved(tree))
  BY DEF Commit
<1>2. IsFramed(tool')
  BY <1>1, ActsMark DEF Shapes
<1>3. UNCHANGED <<start, now>> /\ log' = [log EXCEPT !.acts = log.acts + 1]
  BY <1>1 DEF Acts
<1>4. head \in 0..Len(commits)
  BY DEF Shapes
<1> QED BY <1>1, <1>2, <1>3, <1>4, CommitsKeepShapes

\* What the builder takes back, he takes back to a commit there is.
LEMMA TakingBackResets ==
    ASSUME Shapes, TakeBack
    PROVE  head # 0 /\ \E c \in 1..Len(commits) : ResetTo(c)
<1>1. head \in 1..Len(commits) /\ commits[head].parent \in 0..(head - 1)
  BY CommitsAreTrees DEF Shapes, IsHistory, TakeBack
<1>2. CASE ResetTo(head)
  BY <1>1, <1>2 DEF TakeBack
<1>3. CASE ResetTo(commits[head].parent)
  <2>1. commits[head].parent # 0
    BY <1>3 DEF ResetTo
  <2>2. commits[head].parent \in 1..Len(commits)
    BY <2>1, <1>1 DEF Shapes, IsHistory
  <2> QED BY SMTT(60), <2>2, <1>1, <1>3
<1> QED BY <1>2, <1>3 DEF TakeBack

\* git reset.
LEMMA ResetKeepsShapes ==
    ASSUME Shapes, head # 0, NEW c \in 1..Len(commits), ResetTo(c)
    PROVE  Grows /\ Shapes'
<1>1. UNCHANGED commits /\ \E touches \in BOOLEAN : \E moves : Acts(touches, moves)
  BY DEF ResetTo
<1>2. IsTree(tree') /\ head' = c
  BY ResetKeepsTrees
<1>3. IsFramed(tool')
  BY <1>1, ActsMark DEF Shapes
<1>4. UNCHANGED <<start, now>> /\ log' = [log EXCEPT !.acts = log.acts + 1]
  BY <1>1 DEF Acts
<1>5. head' \in 0..Len(commits) /\ (head' = 0 <=> head = 0) /\ now' \in Nat /\ now <= now'
  BY <1>2, <1>4 DEF Shapes, IsHistory
<1> QED BY <1>1, <1>2, <1>3, <1>4, <1>5, ShapesAreKept

\* Time passes.
LEMMA TickKeepsShapes ==
    ASSUME Shapes, Tick
    PROVE  Grows /\ Shapes'
<1>1. now' \in Nat /\ now <= now' /\ UNCHANGED <<start, commits, head, tree, tool, log>>
  BY DEF Tick, Shapes
<1>2. IsTree(tree') /\ IsFramed(tool') /\ head' \in 0..Len(commits) /\ (head' = 0 <=> head = 0)
  BY <1>1 DEF Shapes
<1> QED BY <1>1, <1>2, ShapesAreKept

\* A step of a command that keeps the rest, too, keeps the shapes.
LEMMA KeepingKeepsShapes ==
    ASSUME Shapes, UNCHANGED <<start, now, commits, head>>, IsTree(tree'), IsFramed(tool'),
           NEW x, \/ log' = log
                  \/ log' = [log EXCEPT !.anchored = x]
                  \/ log' = [log EXCEPT !.measured = log.measured \union x]
    PROVE  Grows /\ Shapes'
<1>1. head' \in 0..Len(commits) /\ (head' = 0 <=> head = 0) /\ now' \in Nat /\ now <= now'
  BY DEF Shapes
<1> QED BY <1>1, ShapesAreKept

\* How bootstrap_clock begins.
LEMMA BeginsBootstrap ==
    ASSUME BeginBootstrap
    PROVE  /\ IsFramed(tool') /\ tool'.kind = "bootstrap" /\ tool'.clock = now
           /\ tool'.pc = IF head = 0 THEN "open" ELSE "check"
<1> DEFINE locals == [clock |-> now]
<1>1. tool' = Command("bootstrap", IF head = 0 THEN "open" ELSE "check", locals)
  BY DEF BeginBootstrap
<1>2. DOMAIN locals = {"clock"} /\ locals["clock"] = now
  OBVIOUS
<1> HIDE DEF locals
<1>3. AreOf(locals, "bootstrap")
  BY <1>2 DEF Fields, AreOf, Common
<1>4. Begun(tool', "bootstrap", IF head = 0 THEN "open" ELSE "check", locals)
  BY <1>1, <1>3, CommandsAreFramed
<1> QED BY <1>2, <1>4 DEF Begun

\* How generate_evidence begins.
LEMMA BeginsGenerate ==
    ASSUME NEW g, NEW id, BeginGenerate(g, id)
    PROVE  /\ IsFramed(tool') /\ tool'.kind = "generate" /\ tool'.pc = "measure"
           /\ tool'.gate = g /\ tool'.commit = head
<1> DEFINE locals == [gate |-> g, id |-> id, commit |-> head, started |-> now, files |-> Nothing]
<1>1. tool' = Command("generate", "measure", locals)
  BY DEF BeginGenerate
<1>2. /\ DOMAIN locals = {"gate", "id", "commit", "started", "files"}
      /\ locals["gate"] = g /\ locals["commit"] = head
  OBVIOUS
<1> HIDE DEF locals
<1>3. AreOf(locals, "generate")
  BY <1>2 DEF Fields, AreOf, Common
<1>4. Begun(tool', "generate", "measure", locals)
  BY <1>1, <1>3, CommandsAreFramed
<1> QED BY <1>2, <1>4 DEF Begun

\* How the release gate begins.
LEMMA BeginsRelease ==
    ASSUME BeginRelease
    PROVE  /\ IsFramed(tool') /\ tool'.kind = "release" /\ tool'.pc = "anchors"
           /\ tool'.docs = tree.docs /\ tool'.open = tree.open /\ tool'.clock = tree.clock
           /\ tool'.left = Gate /\ tool'.moved = {}
<1> DEFINE locals == [docs |-> tree.docs, open |-> tree.open, clock |-> tree.clock,
                      left |-> Gate, latest |-> tree.clock, at |-> now]
<1>1. tool' = Command("release", "anchors", locals)
  BY DEF BeginRelease
<1>2. /\ DOMAIN locals = {"docs", "open", "clock", "left", "latest", "at"}
      /\ locals["docs"] = tree.docs /\ locals["open"] = tree.open /\ locals["clock"] = tree.clock
      /\ locals["left"] = Gate
  OBVIOUS
<1> HIDE DEF locals
<1>3. AreOf(locals, "release")
  BY <1>2 DEF Fields, AreOf, Common
<1>4. Begun(tool', "release", "anchors", locals)
  BY <1>1, <1>3, CommandsAreFramed
<1> QED BY <1>2, <1>4 DEF Begun

\* How the final gate begins.
LEMMA BeginsFinal ==
    ASSUME BeginFinal
    PROVE  /\ IsFramed(tool') /\ tool'.kind = "final" /\ tool'.pc = "head"
           /\ tool'.ran = 0 /\ tool'.sources = {}
<1> DEFINE locals == [commit |-> 0, ran |-> 0, sources |-> {}]
<1>1. tool' = Command("final", "head", locals)
  BY DEF BeginFinal
<1>2. /\ DOMAIN locals = {"commit", "ran", "sources"}
      /\ locals["ran"] = 0 /\ locals["sources"] = {}
  OBVIOUS
<1> HIDE DEF locals
<1>3. AreOf(locals, "final")
  BY <1>2 DEF Fields, AreOf, Common
<1>4. Begun(tool', "final", "head", locals)
  BY <1>1, <1>3, CommandsAreFramed
<1> QED BY <1>2, <1>4 DEF Begun

\* The steps of bootstrap_clock.
LEMMA BootstrapKeepsShapes ==
    ASSUME Shapes, BootstrapKnows, Bootstrap
    PROVE  Grows /\ Shapes'
<1>1. CASE BeginBootstrap
  <2>1. UNCHANGED <<start, now, commits, head, tree, log>> /\ IsFramed(tool')
    BY <1>1, BeginsBootstrap DEF BeginBootstrap, Keeps
  <2>2. IsTree(tree')
    BY <2>1 DEF Shapes
  <2> QED BY <2>1, <2>2, KeepingKeepsShapes
<1>2. CASE OpenClock \/ FillClock \/ WriteProgress
  <2>1. tool.kind = "bootstrap" /\ tool.clock \in Int
    BY <1>2 DEF OpenClock, FillClock, WriteProgress, At, BootstrapKnows, Shapes
  <2>2. PICK pc : tool' = [tool EXCEPT !.pc = pc]
    BY <1>2 DEF OpenClock, FillClock, WriteProgress, Goto
  <2>3. IsFramed(tool')
    BY <2>1, <2>2, MovesOfPc DEF Shapes
  <2>4. IsTree(tree')
    <3>1. CASE OpenClock
      BY <3>1, NewClocksAreTrees DEF OpenClock, Cut, Shapes
    <3>2. CASE FillClock
      BY <3>2, <2>1, NewClocksAreTrees DEF FillClock, Shapes
    <3>3. CASE WriteProgress
      BY <3>3, WriteProgressKeepsTrees DEF Shapes
    <3> QED BY <1>2, <3>1, <3>2, <3>3
  <2>5. UNCHANGED <<start, now, commits, head, log>>
    BY <1>2 DEF OpenClock, FillClock, WriteProgress, Keeps
  <2> QED BY <2>3, <2>4, <2>5, KeepingKeepsShapes
<1>3. CASE CommitAnchor
  <2>1. tool.kind = "bootstrap" /\ tool' = [tool EXCEPT !.pc = "check"]
    BY <1>3 DEF CommitAnchor, At, Goto
  <2>2. IsFramed(tool')
    BY <2>1, MovesOfPc DEF Shapes
  <2>3. CommitAll(0) /\ UNCHANGED <<start, now, log>> /\ 0 \in 0..Len(commits)
    BY <1>3 DEF CommitAnchor, Shapes, IsHistory
  <2> QED BY <2>2, <2>3, CommitsKeepShapes
<1>4. CASE EndBootstrap
  <2>1. /\ UNCHANGED <<start, now, commits, head, tree>> /\ tool' = Idle
        /\ log' = [log EXCEPT !.anchored = log.anchored \union {tree.clock}]
    BY <1>4 DEF EndBootstrap, Ends
  <2>2. IsTree(tree') /\ IsFramed(tool')
    BY <2>1, IdleIsFramed DEF Shapes
  <2> QED BY <2>1, <2>2, KeepingKeepsShapes
<1> QED BY <1>1, <1>2, <1>3, <1>4 DEF Bootstrap

\* Of a step of the measurements: the runs, and the command.
LEMMA MeasuringKeepsShapes ==
    ASSUME Shapes, tool.kind = "generate", NEW files, NEW source, Measures(files, source)
    PROVE  /\ Grows /\ Shapes' /\ UNCHANGED <<commits, head>>
           /\ tree'.runs = tree.runs \union {Incomplete(tool.gate, tool.id)}
           /\ tree'.verifier = tree.verifier /\ tree'.support = tree.support
           /\ tree'.clock = tree.clock /\ tree'.source = tree.source
           /\ \/ tool'.kind = "none"
              \/ /\ tool'.kind = "generate" /\ tool'.pc = "write" /\ tool'.files = files
                 /\ \A f \in {"gate", "id", "commit", "started"} : tool'[f] = tool[f]
                 /\ [gate |-> tool.gate, id |-> tool.id, commit |-> tool.commit,
                     started |-> tool.started, source |-> source, touched |-> tool.touched]
                        \in log'.measured
<1> DEFINE runs == tree.runs \union {Incomplete(tool.gate, tool.id)}
           entry == [gate |-> tool.gate, id |-> tool.id, commit |-> tool.commit,
                     started |-> tool.started, source |-> source, touched |-> tool.touched]
<1>1. UNCHANGED <<start, now, commits, head>> /\ tree' = [tree EXCEPT !.runs = runs]
  BY DEF Measures
<1>2. \A r \in runs : r = [gate |-> r.gate, id |-> r.id, manifest |-> r.manifest, intact |-> r.intact]
  BY DEF Incomplete, Shapes, IsTree
<1>3. /\ IsTree(tree') /\ tree'.runs = runs /\ tree'.verifier = tree.verifier
      /\ tree'.clock = tree.clock /\ tree'.source = tree.source /\ tree'.support = tree.support
  <2> HIDE DEF runs
  <2> QED BY <1>1, <1>2, NewRunsAreTrees DEF Shapes
<1>4. CASE Ends /\ UNCHANGED log
  <2>1. IsFramed(tool') /\ tool'.kind = "none"
    BY <1>4, IdleIsFramed DEF Ends
  <2>2. Grows /\ Shapes'
    BY <1>1, <1>3, <1>4, <2>1, KeepingKeepsShapes
  <2> QED BY <1>1, <1>3, <2>1, <2>2
<1>5. CASE /\ tool' = [tool EXCEPT !.pc = "write", !.files = files]
           /\ log' = [log EXCEPT !.measured = log.measured \union {entry}]
  <2>1. /\ DOMAIN tool = Fields["generate"] /\ tool = [f \in Fields["generate"] |-> tool[f]]
        /\ tool.touched \in BOOLEAN
    BY DEF Shapes, IsFramed
  <2>2. Fields["generate"] =
            {"kind", "pc", "touched", "moved", "gate", "id", "commit", "started", "files"}
    BY DEF Fields
  <2>3. /\ tool' = [f \in Fields["generate"] |-> tool'[f]]
        /\ tool'.pc = "write" /\ tool'.files = files
        /\ \A f \in Fields["generate"] \ {"pc", "files"} : tool'[f] = tool[f]
    BY <1>5, <2>1, <2>2
  <2>4. /\ tool'.kind = "generate" /\ tool'.moved = tool.moved /\ tool'.touched = tool.touched
        /\ \A f \in {"gate", "id", "commit", "started"} : tool'[f] = tool[f]
    BY <2>2, <2>3
  <2>5. IsFramed(tool')
    BY <2>1, <2>3, <2>4 DEF IsFramed
  <2>6. Grows /\ Shapes'
    BY <1>1, <1>3, <1>5, <2>5, KeepingKeepsShapes
  <2>7. entry \in log'.measured
    <3> HIDE DEF entry
    <3> QED BY <1>5 DEF Shapes
  <2> QED BY <1>1, <1>3, <2>3, <2>4, <2>6, <2>7
<1> QED BY <1>4, <1>5 DEF Measures

\* What writing the manifest does to the runs.
LEMMA WritesManifest ==
    ASSUME Shapes, WriteManifest
    PROVE  /\ Grows /\ Shapes' /\ UNCHANGED <<commits, head, log>> /\ tool' = Idle
           /\ tree'.verifier = tree.verifier /\ tree'.support = tree.support
           /\ tree'.clock = tree.clock
           /\ \A q \in tree'.runs :
                 \/ q \in tree.runs
                 \/ q.manifest = [gate |-> tool.gate, id |-> tool.id, commit |-> tool.commit,
                                  verifier |-> tree.verifier[tool.gate], files |-> tool.files,
                                  started |-> tool.started, finished |-> now]
<1> DEFINE manifest == [gate |-> tool.gate, id |-> tool.id, commit |-> tool.commit,
                        verifier |-> tree.verifier[tool.gate], files |-> tool.files,
                        started |-> tool.started, finished |-> now]
<1>1. PICK r \in tree.runs :
          tree' = [tree EXCEPT !.runs = (@ \ {r}) \union {[r EXCEPT !.manifest = manifest]}]
  BY DEF WriteManifest
<1>2. UNCHANGED <<start, now, commits, head, log>> /\ tool' = Idle
  BY DEF WriteManifest, Keeps, Ends
<1> HIDE DEF manifest
<1>3. PICK d : d = [r EXCEPT !.manifest = manifest]
  OBVIOUS
<1>4. r = [gate |-> r.gate, id |-> r.id, manifest |-> r.manifest, intact |-> r.intact]
  BY DEF Shapes, IsTree
<1>5. /\ d.manifest = manifest
      /\ d = [gate |-> d.gate, id |-> d.id, manifest |-> d.manifest, intact |-> d.intact]
  BY <1>3, <1>4
<1> DEFINE runs == (tree.runs \ {r}) \union {d}
<1>6. tree' = [tree EXCEPT !.runs = runs]
  BY <1>1, <1>3
<1>7. \A q \in runs : q = [gate |-> q.gate, id |-> q.id, manifest |-> q.manifest, intact |-> q.intact]
  BY <1>5 DEF Shapes, IsTree
<1>8. \A q \in runs : q \in tree.runs \/ q.manifest = manifest
  BY <1>5
<1> HIDE DEF runs
<1>9. /\ IsTree(tree') /\ tree'.runs = runs /\ tree'.verifier = tree.verifier
      /\ tree'.clock = tree.clock /\ tree'.support = tree.support
  BY <1>6, <1>7, NewRunsAreTrees DEF Shapes
<1>10. Grows /\ Shapes'
  BY <1>2, <1>9, IdleIsFramed, KeepingKeepsShapes
<1> QED BY <1>2, <1>8, <1>9, <1>10 DEF manifest

\* Two fields of a command of a kind that it has of its own; a step that changes them.
AreLocal(kind, a, b) ==
    a # b /\ a \in Fields[kind] \ {"kind", "moved", "touched"} /\ b \in Fields[kind] \ {"kind", "moved", "touched"}
Change(old, new, a, x, b, y) ==
    /\ IsFramed(new) /\ new.kind = old.kind /\ new.moved = old.moved
    /\ new[a] = x /\ new[b] = y
    /\ \A f \in Fields[old.kind] \ {a, b} : new[f] = old[f]

\* A step that gives two fields of a command new values.
LEMMA TwoFieldsChange ==
    ASSUME NEW old, IsFramed(old), old.kind # "none", NEW a, NEW b, AreLocal(old.kind, a, b),
           NEW x, NEW y, NEW new, new = [old EXCEPT ![a] = x, ![b] = y]
    PROVE  Change(old, new, a, x, b, y)
<1>1. {"kind", "moved", "touched"} \subseteq Fields[old.kind] /\ DOMAIN old = Fields[old.kind]
  BY DEF IsFramed, Fields
<1>2. /\ new = [f \in Fields[old.kind] |-> new[f]] /\ new[a] = x /\ new[b] = y
      /\ \A f \in Fields[old.kind] \ {a, b} : new[f] = old[f]
  BY <1>1 DEF AreLocal
<1>3. new.kind = old.kind /\ new.moved = old.moved /\ new.touched = old.touched
  BY <1>1, <1>2 DEF AreLocal
<1> QED BY <1>2, <1>3 DEF IsFramed, Change

\* The release gate goes on to the gates.
LEMMA ChecksAnchors ==
    ASSUME Shapes, CheckAnchors
    PROVE  /\ IsFramed(tool') /\ tool'.kind = "release" /\ tool'.moved = tool.moved
           /\ tool'.pc = "gates" /\ tool'.at = now
           /\ \A f \in {"docs", "open", "clock", "left", "latest"} : tool'[f] = tool[f]
<1>1. tool.kind = "release" /\ tool' = [tool EXCEPT !.pc = "gates", !.at = now]
  BY DEF CheckAnchors, At
<1>2. AreLocal("release", "pc", "at")
  BY DEF Fields, AreLocal
<1>3. Change(tool, tool', "pc", "gates", "at", now)
  BY <1>1, <1>2, TwoFieldsChange DEF Shapes
<1>4. {"docs", "open", "clock", "left", "latest"} \subseteq Fields["release"] \ {"pc", "at"}
  BY DEF Fields
<1> QED BY <1>1, <1>3, <1>4 DEF Change

\* It has checked one of them.
LEMMA ChecksGate ==
    ASSUME Shapes, NEW g \in Gate, CheckGate(g)
    PROVE  /\ IsFramed(tool') /\ tool'.kind = "release" /\ tool'.moved = tool.moved
           /\ tool'.left = tool.left \ {g}
           /\ \A f \in {"pc", "docs", "open", "clock", "at"} : tool'[f] = tool[f]
<1>1. tool.kind = "release"
  BY SMTT(60) DEF CheckGate, At
<1>2. PICK latest : tool' = [tool EXCEPT !.left = tool.left \ {g}, !.latest = latest]
  BY DEF CheckGate
<1>3. AreLocal("release", "left", "latest")
  BY DEF Fields, AreLocal
<1>4. Change(tool, tool', "left", tool.left \ {g}, "latest", latest)
  BY <1>1, <1>2, <1>3, TwoFieldsChange DEF Shapes
<1>5. {"pc", "docs", "open", "clock", "at"} \subseteq Fields["release"] \ {"left", "latest"}
  BY DEF Fields
<1> QED BY <1>1, <1>4, <1>5 DEF Change

\* The final gate has read HEAD.
LEMMA ReadsHead ==
    ASSUME Shapes, ReadHead
    PROVE  /\ IsFramed(tool') /\ tool'.kind = "final" /\ tool'.moved = {}
           /\ tool'.pc = "checks" /\ tool'.commit = head
           /\ \A f \in {"ran", "sources"} : tool'[f] = tool[f]
<1>1. /\ tool.kind = "final"
      /\ tool' = [tool EXCEPT !.pc = "checks", !.commit = head, !.moved = {}]
  BY DEF ReadHead, At
<1>2. /\ DOMAIN tool = Fields["final"] /\ tool.touched \in BOOLEAN
      /\ Fields["final"] = {"kind", "pc", "touched", "moved", "commit", "ran", "sources"}
  BY <1>1 DEF Shapes, IsFramed, Fields
<1>3. /\ tool' = [f \in Fields["final"] |-> tool'[f]]
      /\ tool'.moved = {} /\ tool'.pc = "checks" /\ tool'.commit = head
      /\ \A f \in Fields["final"] \ {"pc", "commit", "moved"} : tool'[f] = tool[f]
  BY <1>1, <1>2
<1>4. /\ tool'.kind = "final" /\ tool'.touched = tool.touched
      /\ tool'.ran = tool.ran /\ tool'.sources = tool.sources
  BY <1>1, <1>2, <1>3
<1>5. IsFramed(tool')
  BY <1>2, <1>3, <1>4 DEF IsFramed
<1> QED BY <1>3, <1>4, <1>5

\* It has run one of its checks.
LEMMA RunsCheck ==
    ASSUME Shapes, RunCheck
    PROVE  /\ IsFramed(tool') /\ tool'.kind = "final" /\ tool'.moved = tool.moved
           /\ tool'.ran = tool.ran + 1 /\ tool'.sources = tool.sources \union {tree.source}
           /\ \A f \in {"pc", "commit"} : tool'[f] = tool[f]
<1>1. tool.kind = "final"
  BY DEF RunCheck, At
<1>2. tool' = [tool EXCEPT !.ran = tool.ran + 1, !.sources = tool.sources \union {tree.source}]
  BY DEF RunCheck
<1>3. AreLocal("final", "ran", "sources")
  BY DEF Fields, AreLocal
<1>4. Change(tool, tool', "ran", tool.ran + 1, "sources", tool.sources \union {tree.source})
  BY <1>1, <1>2, <1>3, TwoFieldsChange DEF Shapes
<1>5. {"pc", "commit"} \subseteq Fields["final"] \ {"ran", "sources"}
  BY DEF Fields
<1> QED BY <1>1, <1>4, <1>5 DEF Change

\* A step that changes nothing but the command.
LEMMA StandingKeepsShapes ==
    ASSUME Shapes, UNCHANGED <<start, now, commits, head, tree, log>>, IsFramed(tool')
    PROVE  Grows /\ Shapes'
<1>1. IsTree(tree')
  BY SMTT(60) DEF Shapes
<1> QED BY <1>1, KeepingKeepsShapes

\* What the commands other than bootstrap and generate do to all but the command.
LEMMA ReadersStandStill ==
    ASSUME Shapes, Dies \/ RunNextTask \/ Release \/ Final
    PROVE  UNCHANGED <<start, now, commits, head, tree, log>> /\ IsFramed(tool')
<1>1. UNCHANGED <<start, now, commits, head, tree, log>>
  BY DEF Dies, RunNextTask, Release, Final, BeginRelease, CheckAnchors, CheckGate, EndRelease,
         BeginFinal, ReadHead, RunCheck, EndFinal, Keeps
<1>2. SUFFICES IsFramed(tool')
  BY <1>1
<1>3. CASE Dies \/ EndRelease \/ EndFinal
  BY <1>3, IdleIsFramed DEF Dies, EndRelease, EndFinal, Ends
<1>4. CASE RunNextTask
  BY <1>4 DEF RunNextTask, Shapes
<1>5. CASE Release
  BY <1>3, <1>5, BeginsRelease, ChecksAnchors, ChecksGate DEF Release
<1>6. CASE Final
  BY <1>3, <1>6, BeginsFinal, ReadsHead, RunsCheck DEF Final
<1> QED BY SMTT(60), <1>3, <1>4, <1>5, <1>6

\* The steps of generate_evidence.
LEMMA GenerateKeepsShapes ==
    ASSUME Shapes, Generate
    PROVE  Grows /\ Shapes'
<1>1. CASE \E g \in Gate, id \in RunIds : BeginGenerate(g, id)
  <2>1. UNCHANGED <<start, now, commits, head, tree, log>> /\ IsFramed(tool')
    BY <1>1, BeginsGenerate DEF BeginGenerate, Keeps
  <2> QED BY <2>1, StandingKeepsShapes
<1>2. CASE Measure \/ CopyProofs
  <2>1. tool.kind = "generate" /\ \E files, source : Measures(files, source)
    BY <1>2 DEF Measure, CopyProofs, At
  <2> QED BY <2>1, MeasuringKeepsShapes
<1>3. CASE WriteManifest
  BY <1>3, WritesManifest
<1> QED BY <1>1, <1>2, <1>3 DEF Generate

\* The builder edits the tree, or moves HEAD.
LEMMA BuilderEditsOrMoves == Builder <=> EditsTheTree \/ Commit \/ TakeBack
BY DEF Builder, EditsTheTree

\* Every step keeps the shapes, and the history grows.
LEMMA ShapesStay ==
    ASSUME Shapes, BootstrapKnows, Next
    PROVE  Grows /\ Shapes'
<1>1. CASE EditsTheTree
  BY <1>1, EditsKeepShapes
<1>2. CASE Commit
  BY <1>2, CommitKeepsShapes
<1>3. CASE TakeBack
  BY <1>3, TakingBackResets, ResetKeepsShapes
<1>4. CASE Tick
  BY <1>4, TickKeepsShapes
<1>5. CASE Dies \/ RunNextTask \/ Release \/ Final
  BY <1>5, ReadersStandStill, StandingKeepsShapes
<1>6. CASE Bootstrap
  BY <1>6, BootstrapKeepsShapes
<1>7. CASE Generate
  BY <1>7, GenerateKeepsShapes
<1> QED BY <1>1, <1>2, <1>3, <1>4, <1>5, <1>6, <1>7, BuilderEditsOrMoves DEF Next

-----------------------------------------------------------------------------
(* Every tree stays sound.                                                 *)

\* bootstrap writes the cut, and then the time at which it was begun.
LEMMA BootstrapKeepsSoundness ==
    ASSUME Shapes, Grows, TreesAreSound, BootstrapKnows, Bootstrap
    PROVE  TreesAreSound'
<1>1. TreeIsSound /\ CommitsAreSound
  BY DEF TreesAreSound
<1>2. CASE BeginBootstrap \/ EndBootstrap
  <2>1. commits' = commits /\ tree' = tree
    BY <1>2 DEF BeginBootstrap, EndBootstrap, Keeps
  <2> QED BY <1>1, <2>1, TreeStaysSound, CommitsStaySound DEF TreesAreSound
<1>3. CASE OpenClock \/ FillClock \/ WriteProgress
  <2>1. commits' = commits /\ now' = now
    BY <1>3 DEF OpenClock, FillClock, WriteProgress, Keeps
  <2>2. Len(commits) = 0 /\ tool.clock \in 0..now
    BY <1>3 DEF OpenClock, FillClock, WriteProgress, At, BootstrapKnows, Shapes
  <2>3. /\ IsTree(tree') /\ tree'.runs = tree.runs
        /\ tree'.verifier = tree.verifier /\ tree'.support = tree.support
        /\ tree'.clock \in {tree.clock, Cut, tool.clock}
    <3>1. CASE OpenClock
      <4>1. tree' = [tree EXCEPT !.clock = Cut]
        BY <3>1 DEF OpenClock
      <4>2. IsTree(tree')
        BY <4>1, NewClocksAreTrees DEF Cut, Shapes
      <4> QED BY <4>1, <4>2 DEF Shapes, IsTree
    <3>2. CASE FillClock
      <4>1. tree' = [tree EXCEPT !.clock = tool.clock] /\ tool.clock \in Int
        BY <3>2, <2>2 DEF FillClock, Shapes
      <4>2. IsTree(tree')
        BY <4>1, NewClocksAreTrees DEF Shapes
      <4> QED BY <4>1, <4>2 DEF Shapes, IsTree
    <3>3. CASE WriteProgress
      BY <3>3, WriteProgressKeepsTrees DEF Shapes
    <3> QED BY <1>3, <3>1, <3>2, <3>3
  <2>4. Cut <= tree'.clock /\ tree'.clock <= now'
    BY <1>1, <2>1, <2>2, <2>3 DEF TreeIsSound, IsSound, Cut, Shapes
  <2>5. /\ \A g \in Gate : tree'.verifier[g] <= tree'.support
        /\ \A r \in tree'.runs : r.manifest # Nothing =>
               WasMeasured(r.manifest, commits, log.measured, start.kind)
    BY <1>1, <2>3 DEF TreeIsSound, IsSound
  <2>6. TreeIsSound'
    BY <2>1, <2>2, <2>3, <2>4, <2>5, NewTreeIsSound
  <2> QED BY <1>1, <2>1, <2>6, CommitsStaySound DEF TreesAreSound
<1>4. CASE CommitAnchor
  <2>1. CommitAll(0) /\ Len(commits) = 0
    BY <1>4 DEF CommitAnchor, At, BootstrapKnows, Shapes
  <2> QED BY <1>1, <2>1, AnchoringKeepsSoundness DEF TreesAreSound
<1> QED BY <1>2, <1>3, <1>4 DEF Bootstrap

\* generate_evidence writes a manifest of what it has measured.
LEMMA GenerateKeepsSoundness ==
    ASSUME Shapes, Grows, TreesAreSound, GenerateKnows, Generate
    PROVE  TreesAreSound'
<1>1. TreeIsSound /\ CommitsAreSound
  BY DEF TreesAreSound
<1>2. \A g \in Gate : tree.verifier[g] <= tree.support
  BY <1>1 DEF TreeIsSound, IsSound
<1>3. \A r \in tree.runs : r.manifest # Nothing =>
          WasMeasured(r.manifest, commits, log.measured, start.kind)
  BY <1>1 DEF TreeIsSound, IsSound
<1>4. CASE \E g \in Gate, id \in RunIds : BeginGenerate(g, id)
  <2>1. commits' = commits /\ tree' = tree
    BY <1>4 DEF BeginGenerate, Keeps
  <2> QED BY <1>1, <2>1, TreeStaysSound, CommitsStaySound DEF TreesAreSound
<1>5. ASSUME /\ IsTree(tree') /\ commits' = commits
             /\ tree'.verifier = tree.verifier /\ tree'.support = tree.support
             /\ tree'.clock = tree.clock
             /\ \A q \in tree'.runs : q.manifest # Nothing =>
                    WasMeasured(q.manifest, commits, log.measured, start.kind)
      PROVE  TreesAreSound'
  <2>1. Cut <= tree'.clock /\ tree'.clock <= now'
    BY SMTT(60), <1>1, <1>5 DEF TreeIsSound, IsSound, Grows, Shapes, IsTree, Cut
  <2>2. Len(commits) # 0 => tree'.clock = 0 \/ RootTree.clock <= tree'.clock
    BY <1>1, <1>5 DEF TreeIsSound, IsSound, RootTree
  <2>3. TreeIsSound'
    BY <1>2, <1>5, <2>1, <2>2, NewTreeIsSound
  <2> QED BY <1>1, <1>5, <2>3, CommitsStaySound DEF TreesAreSound
<1>6. CASE Measure \/ CopyProofs
  <2>1. PICK files, source : tool.kind = "generate" /\ Measures(files, source)
    BY <1>6 DEF Measure, CopyProofs, At
  <2>2. /\ Shapes' /\ commits' = commits
        /\ tree'.runs = tree.runs \union {Incomplete(tool.gate, tool.id)}
        /\ tree'.verifier = tree.verifier /\ tree'.support = tree.support
        /\ tree'.clock = tree.clock
    BY <2>1, MeasuringKeepsShapes
  <2>3. \A q \in tree'.runs : q.manifest # Nothing =>
            WasMeasured(q.manifest, commits, log.measured, start.kind)
    BY <1>3, <2>2 DEF Incomplete
  <2>4. IsTree(tree')
    BY <2>2 DEF Shapes
  <2> QED BY <1>5, <2>2, <2>3, <2>4
<1>7. CASE WriteManifest
  <2> DEFINE manifest == [gate |-> tool.gate, id |-> tool.id, commit |-> tool.commit,
                          verifier |-> tree.verifier[tool.gate], files |-> tool.files,
                          started |-> tool.started, finished |-> now]
             known == [gate |-> tool.gate, id |-> tool.id, commit |-> tool.commit,
                       files |-> tool.files, started |-> tool.started]
  <2>1. /\ Shapes' /\ commits' = commits
        /\ tree'.verifier = tree.verifier /\ tree'.support = tree.support
        /\ tree'.clock = tree.clock
        /\ \A q \in tree'.runs : q \in tree.runs \/ q.manifest = manifest
    BY <1>7, WritesManifest
  <2>2. WasMeasured(known, commits, log.measured, start.kind)
    BY <1>7 DEF WriteManifest, At, GenerateKnows
  <2>3. /\ manifest.gate = known.gate /\ manifest.id = known.id /\ manifest.commit = known.commit
        /\ manifest.files = known.files /\ manifest.started = known.started
    OBVIOUS
  <2> HIDE DEF manifest, known
  <2>4. WasMeasured(manifest, commits, log.measured, start.kind)
    BY <2>2, <2>3 DEF WasMeasured
  <2>5. \A q \in tree'.runs : q.manifest # Nothing =>
            WasMeasured(q.manifest, commits, log.measured, start.kind)
    BY <1>3, <2>1, <2>4
  <2>6. IsTree(tree')
    BY <2>1 DEF Shapes
  <2> QED BY <1>5, <2>1, <2>5, <2>6
<1> QED BY <1>4, <1>6, <1>7 DEF Generate

\* Every step keeps the trees sound.
LEMMA TreesStaySound ==
    ASSUME Shapes, Grows, TreesAreSound, BootstrapKnows, GenerateKnows, Next
    PROVE  TreesAreSound'
<1>1. TreeIsSound /\ CommitsAreSound
  BY DEF TreesAreSound
<1>2. CASE EditsTheTree
  <2>1. Rises /\ commits' = commits
    BY <1>2, EditsKeepShapes DEF Rises
  <2> QED BY <1>1, <2>1, RisingKeepsSoundness, CommitsStaySound DEF TreesAreSound
<1>3. CASE Commit
  <2>1. CommitAll(head) /\ head \in 0..Len(commits) /\ Len(commits) # 0
    BY <1>3 DEF Commit, Shapes
  <2> QED BY <1>1, <2>1, CommittingKeepsSoundness DEF TreesAreSound
<1>4. CASE TakeBack
  <2>1. PICK c \in 1..Len(commits) : ResetTo(c) /\ head # 0
    BY <1>4, TakingBackResets
  <2>2. commits' = commits
    BY <2>1 DEF ResetTo
  <2> QED BY <1>1, <2>1, <2>2, ResettingKeepsSoundness, CommitsStaySound DEF TreesAreSound
<1>5. CASE Tick \/ Dies \/ RunNextTask \/ Release \/ Final
  <2>1. commits' = commits /\ tree' = tree
    BY <1>5, ReadersStandStill DEF Tick
  <2> QED BY <1>1, <2>1, TreeStaysSound, CommitsStaySound DEF TreesAreSound
<1>6. CASE Bootstrap
  BY <1>6, BootstrapKeepsSoundness
<1>7. CASE Generate
  BY <1>7, GenerateKeepsSoundness
<1> QED BY <1>2, <1>3, <1>4, <1>5, <1>6, <1>7, BuilderEditsOrMoves DEF Next

-----------------------------------------------------------------------------
(* What is copied are bundles that were collected, each somewhere.            *)

IsBundle(kind, y) ==
    /\ y = [proof |-> y.proof, files |-> y.files]
    /\ y.proof = Collected(kind, y.proof.commit, y.proof.collector, y.proof.platform).proof

\* What a workflow collects is a bundle.
LEMMA CollectedIsBundle ==
    ASSUME NEW kind, NEW c, NEW col, NEW p
    PROVE  IsBundle(kind, Collected(kind, c, col, p))
<1>1. PICK y : y = Collected(kind, c, col, p)
  OBVIOUS
<1>2. /\ y = [proof |-> y.proof, files |-> y.files]
      /\ y.proof.commit = c /\ y.proof.collector = col /\ y.proof.platform = p
  BY <1>1 DEF Collected
<1> QED BY <1>1, <1>2 DEF IsBundle

\* So is what arrives of it: files may be lost or mixed up, and proofs too.
LEMMA ArrivedIsBundle ==
    ASSUME NEW kind, NEW others, \A o \in others : IsBundle(kind, o),
           NEW b, IsBundle(kind, b), NEW x \in Arrived(b, others)
    PROVE  IsBundle(kind, x)
<1>1. CASE x = b
  BY <1>1
<1>2. CASE \E files : x = [b EXCEPT !.files = files]
  <2>1. PICK files : x = [b EXCEPT !.files = files]
    BY <1>2
  <2>2. b = [proof |-> b.proof, files |-> b.files]
    BY DEF IsBundle
  <2>3. x = [proof |-> x.proof, files |-> x.files] /\ x.proof = b.proof
    BY <2>1, <2>2
  <2> QED BY <2>3 DEF IsBundle
<1>3. CASE \E o \in others : x = [b EXCEPT !.proof = o.proof]
  <2>1. PICK o \in others : x = [b EXCEPT !.proof = o.proof]
    BY <1>3
  <2>2. b = [proof |-> b.proof, files |-> b.files] /\ IsBundle(kind, o)
    BY DEF IsBundle
  <2>3. x = [proof |-> x.proof, files |-> x.files] /\ x.proof = o.proof
    BY <2>1, <2>2
  <2> QED BY <2>2, <2>3 DEF IsBundle
<1>4. \/ x = b
      \/ \E n : x = [b EXCEPT !.files = Restrict(b.files, DOMAIN b.files \ {n})]
      \/ \E n, o : x = [b EXCEPT !.files = [b.files EXCEPT ![n] = o.files[n]]]
      \/ \E o \in others : x = [b EXCEPT !.proof = o.proof]
  BY SMTT(60) DEF Arrived
<1> QED BY <1>1, <1>2, <1>3, <1>4

\* Inputs that were taken are copied, one bundle for each platform.
LEMMA CopiesAreOfBundles ==
    ASSUME NEW kind, NEW c, NEW inputs, \A y \in inputs : IsBundle(kind, y),
           InputsAreTaken(kind, c, inputs), kind \in {"portable", "package"}
    PROVE  FilesAreOfBundles(kind, Copied(kind, inputs))
<1>1. \A p \in Platforms[kind] : \E b \in inputs : ProofIsValid(b.proof, p, c)
  BY DEF InputsAreTaken, PortableInputs, PackageInputs, OneOfEach
<1>2. \A p \in Platforms[kind] : \E b \in inputs : b.proof.platform = p
  BY <1>1 DEF ProofIsValid, PortableProofIsValid, PackageProofIsValid
<1>3. \A p \in Platforms[kind] : (CHOOSE b \in inputs : b.proof.platform = p) \in inputs
  BY <1>2
<1>4. \A p \in Platforms[kind] : IsBundle(kind, Copied(kind, inputs)[p])
  BY <1>3 DEF Copied
<1>5. Copied(kind, inputs) = [p \in Platforms[kind] |-> Copied(kind, inputs)[p]]
  BY DEF Copied
<1> QED BY <1>4, <1>5 DEF FilesAreOfBundles, IsBundle

\* What generate_evidence copies into the run are bundles.
LEMMA CopyProofsCopiesBundles ==
    ASSUME Shapes, CopyProofs, tool.gate \in Gate
    PROVE  \E files : /\ Measures(files, commits[tool.commit].tree.source)
                      /\ FilesAreOfBundles(Kind(tool.gate), files)
<1> DEFINE kind == Kind(tool.gate)
<1>1. PICK own \in CompleteSets(kind, Bundles) : \E b \in own :
          \E x \in Arrived(b, Bundles) : LET inputs == (own \ {b}) \union {x} IN
              /\ InputsAreTaken(kind, tool.commit, inputs)
              /\ Measures(Copied(kind, inputs), commits[tool.commit].tree.source)
  BY DEF CopyProofs
<1>2. PICK b \in own : \E x \in Arrived(b, Bundles) : LET inputs == (own \ {b}) \union {x} IN
              /\ InputsAreTaken(kind, tool.commit, inputs)
              /\ Measures(Copied(kind, inputs), commits[tool.commit].tree.source)
  BY <1>1
<1>3. PICK x \in Arrived(b, Bundles) : LET inputs == (own \ {b}) \union {x} IN
              /\ InputsAreTaken(kind, tool.commit, inputs)
              /\ Measures(Copied(kind, inputs), commits[tool.commit].tree.source)
  BY <1>2
<1> DEFINE inputs == (own \ {b}) \union {x}
<1>4. kind \in {"portable", "package"}
  BY DEF CopyProofs, Kind, Shapes, Kinds
<1>5. \A o \in Bundles : IsBundle(kind, o)
  BY CollectedIsBundle DEF Bundles
<1>6. own \subseteq Bundles
  BY <1>1 DEF CompleteSets
<1>7. IsBundle(kind, x)
  <2> HIDE DEF kind
  <2> QED BY <1>3, <1>5, <1>6, ArrivedIsBundle
<1>8. \A y \in inputs : IsBundle(kind, y)
  BY <1>5, <1>6, <1>7
<1>9. InputsAreTaken(kind, tool.commit, inputs) /\ Measures(Copied(kind, inputs), commits[tool.commit].tree.source)
  BY <1>3
<1> HIDE DEF kind, inputs
<1>10. FilesAreOfBundles(kind, Copied(kind, inputs))
  BY <1>4, <1>8, <1>9, CopiesAreOfBundles
<1> QED BY <1>9, <1>10 DEF kind

-----------------------------------------------------------------------------
(* What the commands know.                                                 *)

\* A step of a command leaves that command, or none.
LEMMA StepsOfCommands ==
    ASSUME Shapes
    PROVE  /\ Bootstrap => tool'.kind \in {"bootstrap", "none"}
           /\ Generate => tool'.kind \in {"generate", "none"}
           /\ Release => tool'.kind \in {"release", "none"}
           /\ Final => tool'.kind \in {"final", "none"}
           /\ Dies => tool'.kind = "none"
           /\ Tick \/ RunNextTask => tool' = tool
<1>1. Bootstrap => tool'.kind \in {"bootstrap", "none"}
  <2>1. OpenClock \/ FillClock \/ WriteProgress \/ CommitAnchor =>
            tool.kind = "bootstrap" /\ \E pc : tool' = [tool EXCEPT !.pc = pc]
    BY DEF OpenClock, FillClock, WriteProgress, CommitAnchor, Goto, At
  <2>2. OpenClock \/ FillClock \/ WriteProgress \/ CommitAnchor => tool'.kind = "bootstrap"
    BY <2>1, MovesOfPc DEF Shapes
  <2>3. EndBootstrap => tool'.kind = "none"
    BY IdleIsFramed DEF EndBootstrap, Ends
  <2> QED BY <2>2, <2>3, BeginsBootstrap DEF Bootstrap
<1>2. Generate => tool'.kind \in {"generate", "none"}
  <2>1. Measure \/ CopyProofs => tool.kind = "generate" /\ \E files, source : Measures(files, source)
    BY DEF Measure, CopyProofs, At
  <2>2. Measure \/ CopyProofs => tool'.kind \in {"generate", "none"}
    BY <2>1, MeasuringKeepsShapes
  <2>3. WriteManifest => tool'.kind = "none"
    BY WritesManifest, IdleIsFramed
  <2> QED BY <2>2, <2>3, BeginsGenerate DEF Generate
<1>3. Release => tool'.kind \in {"release", "none"}
  <2>1. EndRelease => tool'.kind = "none"
    BY IdleIsFramed DEF EndRelease, Ends
  <2> QED BY <2>1, BeginsRelease, ChecksAnchors, ChecksGate DEF Release
<1>4. Final => tool'.kind \in {"final", "none"}
  <2>1. EndFinal => tool'.kind = "none"
    BY IdleIsFramed DEF EndFinal, Ends
  <2> QED BY <2>1, BeginsFinal, ReadsHead, RunsCheck DEF Final
<1>5. Dies => tool'.kind = "none"
  BY IdleIsFramed DEF Dies, Ends
<1>6. Tick \/ RunNextTask => tool' = tool
  BY DEF Tick, RunNextTask
<1> QED BY <1>1, <1>2, <1>3, <1>4, <1>5, <1>6

\* What the builder does to the commands and the logs.
LEMMA BuilderActs ==
    ASSUME Shapes, Builder
    PROVE  /\ UNCHANGED <<start, now, said, green, receipt>>
           /\ log'.measured = log.measured /\ log'.anchored = log.anchored
           /\ tool'.kind = tool.kind
           /\ \A f \in Fields[tool.kind] \ {"touched", "moved"} : tool'[f] = tool[f]
<1>1. PICK touches \in BOOLEAN : \E moves : Acts(touches, moves)
  BY DEF Builder, Edit, EditVerifiers, EditClock, Damage, RecordPassed, Edits, Commit,
         TakeBack, ResetTo
<1>2. /\ tool'.kind = tool.kind
      /\ \A f \in Fields[tool.kind] \ {"touched", "moved"} : tool'[f] = tool[f]
  BY <1>1, ActsMark DEF Shapes
<1>3. UNCHANGED <<start, now, said, green, receipt>> /\ log' = [log EXCEPT !.acts = @ + 1]
  BY <1>1 DEF Acts
<1>4. log'.measured = log.measured /\ log'.anchored = log.anchored
  BY <1>3 DEF Shapes
<1> QED BY SMTT(60), <1>2, <1>3, <1>4

\* Edits move nothing, and mark a command when they touch the sources.
LEMMA EditsMark ==
    ASSUME Shapes, EditsTheTree, tool.kind # "none"
    PROVE  /\ tool'.moved = tool.moved
           /\ tool'.touched \/ (tool'.touched = tool.touched /\ tree'.source = tree.source)
<1>1. ASSUME NEW touches \in BOOLEAN, Acts(touches, {})
      PROVE  tool'.touched = (tool.touched \/ touches) /\ tool'.moved = tool.moved
  <2>1. tool'.touched = (tool.touched \/ touches) /\ tool'.moved = tool.moved \union {}
    BY <1>1, ActsMark DEF Shapes
  <2> QED BY <2>1
<1>2. tool.touched \in BOOLEAN /\ IsTree(tree)
  BY DEF Shapes, IsFramed
<1>3. CASE Edit("source")
  <2>1. Acts(TRUE, {})
    BY <1>3 DEF Edit, Edits
  <2> QED BY <1>1, <1>2, <2>1
<1>4. CASE \/ \E change \in {"support", "control", "collector"} : Edit(change)
           \/ EditVerifiers \/ EditClock \/ (\E r \in tree.runs : Damage(r))
           \/ \E t \in Task : RecordPassed(t)
  <2>1. Acts(FALSE, {})
    BY <1>4 DEF Edit, EditVerifiers, EditClock, Damage, RecordPassed, Edits
  <2>2. tree'.source = tree.source
    BY <1>2, <1>4 DEF Edit, EditVerifiers, EditClock, Damage, RecordPassed, IsTree
  <2> QED BY <1>1, <1>2, <2>1, <2>2
<1> QED BY <1>3, <1>4 DEF EditsTheTree

\* What a commit or a reset does: the tree is HEAD's, and what it has not moved is, in
\* both, what it was.
Parts == {"clock", "source", "support", "collector", "verifier", "docs"}
Settles ==
    /\ head # 0 /\ head' # 0
    /\ tree'.source = HeadTree'.source /\ tree'.support = HeadTree'.support
    /\ tree'.collector = HeadTree'.collector
    /\ \A part \in Parts \ tool'.moved :
          part \notin tool.moved /\ HeadTree'[part] = HeadTree[part] /\ tree'[part] = tree[part]
    /\ "history" \notin tool'.moved =>
          "history" \notin tool.moved /\ Reached(head) \subseteq Reached(head)'

\* A tree that is one has the parts.
LEMMA TreesHaveParts ==
    ASSUME NEW t, IsTree(t)
    PROVE  Parts \subseteq DOMAIN t
BY DEF IsTree, Parts

\* The commits that are reached from one stay so.
LEMMA ReachedIsKept ==
    ASSUME Shapes, Grows, NEW c \in 1..Len(commits)
    PROVE  Reached(c) \subseteq Reached(c)'
<1>1. Reached(c) \subseteq 1..Len(commits')
  BY DEF Reached, Grows, Shapes, IsHistory
<1>2. SUFFICES ASSUME NEW d \in Reached(c), NEW some \in SUBSET (1..Len(commits')),
                      c \in some, \A b \in some : commits'[b].parent \in some \union {0}
               PROVE  d \in some
  BY <1>1 DEF Reached
<1> DEFINE old == some \intersect (1..Len(commits))
<1>3. d \in 1..Len(commits) /\ Len(commits) \in Nat /\ Len(commits') \in Nat
      /\ Len(commits) <= Len(commits')
  BY DEF Reached, Grows, Shapes, IsHistory
<1>4. c \in old /\ old \in SUBSET (1..Len(commits))
  BY <1>2
<1>5. ASSUME NEW b \in old PROVE commits[b].parent \in old \union {0}
  <2>1. commits[b].parent \in 0..(b - 1) /\ commits'[b] = commits[b]
    BY CommitsAreTrees DEF Grows
  <2>2. commits[b].parent \in some \union {0}
    BY <1>2, <2>1
  <2> QED BY <1>3, <2>1, <2>2
<1>6. d \in old
  <2> HIDE DEF old
  <2> QED BY <1>4, <1>5 DEF Reached
<1> QED BY <1>3, <1>6

\* What a commit has reached, a commit on top of it reaches.
LEMMA ReachedByChildren ==
    ASSUME Shapes, Grows, head # 0, head' \in 1..Len(commits'), commits'[head'].parent = head
    PROVE  Reached(head) \subseteq Reached(head)'
<1>1. head \in 1..Len(commits)
  BY DEF Shapes, IsHistory
<1>2. SUFFICES ASSUME NEW d \in Reached(head), NEW some \in SUBSET (1..Len(commits')),
                      head' \in some, \A b \in some : commits'[b].parent \in some \union {0}
               PROVE  d \in some
  <2>1. Reached(head) \subseteq 1..Len(commits')
    BY DEF Reached, Grows, Shapes, IsHistory
  <2> QED BY <2>1 DEF Reached
<1>3. head \in some
  BY <1>1, <1>2
<1>4. d \in {e \in 1..Len(commits') : \A more \in SUBSET (1..Len(commits')) :
                head \in more /\ (\A b \in more : commits'[b].parent \in more \union {0}) => e \in more}
  <2>1. PICK c : c = head
    OBVIOUS
  <2>2. Reached(c) \subseteq Reached(c)'
    BY <1>1, <2>1, ReachedIsKept
  <2> QED BY <2>1, <2>2 DEF Reached
<1> QED BY <1>2, <1>3, <1>4

\* git commit settles what is in the tree.
LEMMA CommitSettles ==
    ASSUME Shapes, Shapes', Grows, Commit, tool.kind # "none"
    PROVE  Settles /\ tool'.touched = tool.touched /\ tree' = tree
<1>1. CommitAll(head) /\ Acts(FALSE, Moved(tree)) /\ head # 0 /\ head \in 0..Len(commits)
  BY DEF Commit, Shapes
<1>2. /\ commits'[Len(commits')] = [tree |-> tree, parent |-> head]
      /\ head' = Len(commits') /\ tree' = tree /\ Len(commits') = Len(commits) + 1
  BY <1>1, CommitAllGrows
<1>3. HeadTree' = tree /\ commits'[head'].parent = head /\ head' \in 1..Len(commits')
  BY <1>2 DEF HeadTree, Shapes, IsHistory
<1>4. /\ tool'.touched = (tool.touched \/ FALSE) /\ tool'.moved = tool.moved \union Moved(tree)
      /\ tool.touched \in BOOLEAN
  BY <1>1, ActsMark DEF Shapes, IsFramed
<1>5. ASSUME NEW part \in Parts \ tool'.moved
      PROVE  part \notin tool.moved /\ HeadTree'[part] = HeadTree[part] /\ tree'[part] = tree[part]
  <2>1. part \in DOMAIN tree /\ part \notin Moved(tree) /\ part \notin tool.moved
    BY <1>4, TreesHaveParts DEF Shapes
  <2>2. tree[part] = HeadTree[part]
    BY <2>1 DEF Moved
  <2> QED BY <1>2, <1>3, <2>1, <2>2
<1>6. Reached(head) \subseteq Reached(head)'
  BY <1>1, <1>3, ReachedByChildren
<1> QED BY <1>1, <1>2, <1>3, <1>4, <1>5, <1>6 DEF Settles

\* git reset settles what is in the commit.
LEMMA ResetSettles ==
    ASSUME Shapes, Shapes', Grows, head # 0, NEW c \in 1..Len(commits), ResetTo(c),
           tool.kind # "none"
    PROVE  /\ Settles
           /\ tool'.touched \/ (tool'.touched = tool.touched /\ tree'.source = tree.source)
<1> DEFINE new == commits[c].tree
           marks == Moved(new) \union IF c = head THEN {} ELSE {"history"}
<1>1. Acts(new.source # tree.source, marks) /\ commits' = commits
  BY DEF ResetTo
<1>2. /\ tree' = [new EXCEPT !.runs = @ \union (tree.runs \ HeadTree.runs)]
      /\ head' = c
  BY ResetKeepsTrees
<1>3. HeadTree' = new /\ IsTree(new)
  BY <1>1, <1>2, CommitsAreTrees DEF HeadTree
<1> HIDE DEF new
<1>4. \A part \in Parts : tree'[part] = new[part]
  BY <1>2, <1>3 DEF IsTree, Parts
<1>5. /\ tool'.touched = (tool.touched \/ new.source # tree.source)
      /\ tool'.moved = tool.moved \union marks /\ tool.touched \in BOOLEAN
  <2> HIDE DEF marks
  <2>1. PICK touches \in BOOLEAN : touches = (new.source # tree.source)
    OBVIOUS
  <2>2. Acts(touches, marks)
    BY <1>1, <2>1
  <2>3. tool'.touched = (tool.touched \/ touches) /\ tool'.moved = tool.moved \union marks
    BY <2>2, ActsMark DEF Shapes
  <2> QED BY <2>1, <2>3 DEF Shapes, IsFramed
<1>6. ASSUME NEW part \in Parts \ tool'.moved
      PROVE  part \notin tool.moved /\ HeadTree'[part] = HeadTree[part] /\ tree'[part] = tree[part]
  <2>1. part \in DOMAIN new /\ part \notin Moved(new) /\ part \notin tool.moved
    BY <1>3, <1>5, TreesHaveParts
  <2>2. new[part] = HeadTree[part] /\ new[part] = tree[part]
    BY <2>1 DEF Moved
  <2> QED BY <1>3, <1>4, <2>1, <2>2
<1>7. ASSUME "history" \notin tool'.moved
      PROVE  "history" \notin tool.moved /\ Reached(head) \subseteq Reached(head)'
  <2>1. c = head /\ "history" \notin tool.moved
    BY <1>5, <1>7
  <2>2. Reached(head)' = Reached(head)
    BY <1>1, <1>2, <2>1 DEF Reached
  <2> QED BY <2>1, <2>2
<1>8. /\ tree'.source = HeadTree'.source /\ tree'.support = HeadTree'.support
      /\ tree'.collector = HeadTree'.collector
  BY <1>3, <1>4 DEF Parts
<1>9. head' # 0 /\ Len(commits) \in Nat
  BY <1>2 DEF Shapes, IsHistory
<1>10. Settles
  BY <1>6, <1>7, <1>8, <1>9 DEF Settles
<1>11. tool'.touched \/ (tool'.touched = tool.touched /\ tree'.source = tree.source)
  BY <1>3, <1>5, <1>8
<1> QED BY <1>10, <1>11

\* So whatever moves HEAD or resets the tree settles it.
LEMMA MovesSettle ==
    ASSUME Shapes, Shapes', Grows, Commit \/ TakeBack, tool.kind # "none"
    PROVE  /\ Settles
           /\ tool'.touched \/ (tool'.touched = tool.touched /\ tree'.source = tree.source)
<1>1. CASE Commit
  BY <1>1, CommitSettles
<1>2. CASE TakeBack
  BY <1>2, TakingBackResets, ResetSettles
<1> QED BY <1>1, <1>2

\* bootstrap knows that nothing is committed until it has committed the anchor.
LEMMA BootstrapGoesOn ==
    ASSUME Shapes, Shapes', Grows, BootstrapKnows, Next
    PROVE  BootstrapKnows'
<1>1. SUFFICES ASSUME tool'.kind = "bootstrap" PROVE BootstrapKnows'
  BY DEF BootstrapKnows
<1>2. ASSUME tool.kind = "bootstrap", tool'.clock = tool.clock, tool'.pc = tool.pc,
             head' = 0 <=> head = 0
      PROVE  BootstrapKnows'
  <2>1. tool.clock \in 0..now'
    BY <1>2 DEF BootstrapKnows, Grows, Shapes
  <2>2. \/ tool.pc \in {"open", "fill", "progress", "commit"} /\ head' = 0
        \/ tool.pc = "check" /\ head' # 0
    BY <1>2 DEF BootstrapKnows
  <2> QED BY <1>2, <2>1, <2>2 DEF BootstrapKnows
<1>3. CASE Builder
  <2>1. tool.kind = "bootstrap" /\ tool'.clock = tool.clock /\ tool'.pc = tool.pc
    BY <1>1, <1>3, BuilderActs DEF Fields
  <2>2. head' = 0 <=> head = 0
    <3>1. CASE EditsTheTree
      BY <3>1, EditsKeepShapes DEF Rises
    <3>2. CASE Commit
      BY <3>2 DEF Commit, CommitAll, Shapes, IsHistory
    <3>3. CASE TakeBack
      BY <3>3, TakingBackResets, ResetKeepsTrees DEF Shapes, IsHistory
    <3> QED BY <1>3, <3>1, <3>2, <3>3, BuilderEditsOrMoves
  <2> QED BY <1>2, <2>1, <2>2
<1>4. CASE Tick \/ RunNextTask
  <2>1. tool' = tool /\ head' = head
    BY <1>4 DEF Tick, RunNextTask
  <2> QED BY <1>1, <1>2, <2>1
<1>5. CASE BeginBootstrap
  <2>1. tool'.clock = now /\ tool'.pc = (IF head = 0 THEN "open" ELSE "check")
    BY <1>5, BeginsBootstrap
  <2>2. head' = head /\ now' = now /\ now \in Nat
    BY <1>5 DEF BeginBootstrap, Keeps, Shapes
  <2> QED BY <2>1, <2>2 DEF BootstrapKnows
<1>6. CASE OpenClock \/ FillClock \/ WriteProgress \/ CommitAnchor
  <2>1. PICK pc : /\ tool' = [tool EXCEPT !.pc = pc]
                  /\ \/ pc \in {"fill", "progress", "commit"} /\ ~CommitAnchor
                     \/ pc = "check" /\ CommitAnchor
    BY <1>6 DEF OpenClock, FillClock, WriteProgress, CommitAnchor, Goto, At
  <2>2. tool.kind = "bootstrap" /\ tool.pc \in {"open", "fill", "progress", "commit"}
    BY <1>6 DEF OpenClock, FillClock, WriteProgress, CommitAnchor, At
  <2>3. tool'.pc = pc /\ tool'.clock = tool.clock
    BY <2>1, <2>2, MovesOfPc DEF Shapes, Fields
  <2>4. head = 0 /\ tool.clock \in 0..now /\ now' = now
    BY <1>6, <2>2 DEF BootstrapKnows, OpenClock, FillClock, WriteProgress, CommitAnchor, Keeps
  <2>5. ~CommitAnchor => head' = head
    BY <1>6 DEF OpenClock, FillClock, WriteProgress, Keeps
  <2>6. CommitAnchor => head' # 0
    <3>1. SUFFICES ASSUME CommitAnchor PROVE head' # 0
      OBVIOUS
    <3>2. CommitAll(0) /\ 0 \in 0..Len(commits) /\ Len(commits) \in Nat
      BY <3>1 DEF CommitAnchor, Shapes, IsHistory
    <3>3. Len(commits') = Len(commits) + 1 /\ head' = Len(commits')
      BY <3>2, CommitAllGrows
    <3> QED BY <3>2, <3>3
  <2> QED BY <2>1, <2>3, <2>4, <2>5, <2>6 DEF BootstrapKnows
<1>7. CASE EndBootstrap
  BY <1>1, <1>7, IdleIsFramed DEF EndBootstrap, Ends
<1>8. CASE Generate \/ Release \/ Final \/ Dies
  BY <1>1, <1>8, StepsOfCommands
<1> QED BY <1>3, <1>4, <1>5, <1>6, <1>7, <1>8 DEF Next, Bootstrap

\* What has been measured, as the manifest will say.
LEMMA MeasuringIsKnown ==
    ASSUME Shapes, Shapes', Grows, tool.kind = "generate", tool'.kind = "generate",
           tool.gate \in Gate, tool.commit \in 1..Len(commits),
           NEW files, NEW source, Measures(files, source),
           tool.touched \/ source = commits[tool.commit].tree.source,
           Kind(tool.gate) # "suite" => FilesAreOfBundles(Kind(tool.gate), files)
    PROVE  GenerateKnows'
<1> DEFINE entry == [gate |-> tool.gate, id |-> tool.id, commit |-> tool.commit,
                     started |-> tool.started, source |-> source, touched |-> tool.touched]
           known == [gate |-> tool'.gate, id |-> tool'.id, commit |-> tool'.commit,
                     files |-> tool'.files, started |-> tool'.started]
<1>1. /\ tool'.pc = "write" /\ tool'.files = files /\ commits' = commits /\ start' = start
      /\ \A f \in {"gate", "id", "commit", "started"} : tool'[f] = tool[f]
      /\ entry \in log'.measured
  BY MeasuringKeepsShapes DEF Grows
<1>2. /\ tool'.gate = tool.gate /\ tool'.id = tool.id
      /\ tool'.commit = tool.commit /\ tool'.started = tool.started
  BY <1>1
<1>3. /\ entry.gate = tool.gate /\ entry.id = tool.id /\ entry.commit = tool.commit
      /\ entry.started = tool.started /\ entry.source = source /\ entry.touched = tool.touched
  OBVIOUS
<1>4. /\ known.gate = tool.gate /\ known.id = tool.id /\ known.commit = tool.commit
      /\ known.files = files /\ known.started = tool.started
  BY <1>1, <1>2
<1> HIDE DEF entry, known
<1>5. WasMeasured(known, commits, log'.measured, start.kind)
  BY <1>1, <1>3, <1>4 DEF WasMeasured, Kind
<1>6. WasMeasured(known, commits', log'.measured, start'.kind)
  BY <1>1, <1>5
<1> QED BY <1>1, <1>2, <1>6 DEF GenerateKnows, known

\* generate_evidence knows the commit it began on, and then what it measured.
LEMMA GenerateGoesOn ==
    ASSUME Shapes, Shapes', Grows, GenerateKnows, Next
    PROVE  GenerateKnows'
<1>1. SUFFICES ASSUME tool'.kind = "generate" PROVE GenerateKnows'
  BY DEF GenerateKnows
<1> DEFINE known == [gate |-> tool.gate, id |-> tool.id, commit |-> tool.commit,
                     files |-> tool.files, started |-> tool.started]
<1>2. ASSUME tool.kind = "generate",
             \A f \in {"gate", "id", "commit", "files", "started", "pc"} : tool'[f] = tool[f],
             tool'.touched \/ (tool'.touched = tool.touched /\ tree'.source = tree.source)
      PROVE  GenerateKnows'
  <2>1. /\ tool'.gate = tool.gate /\ tool'.id = tool.id /\ tool'.commit = tool.commit
        /\ tool'.files = tool.files /\ tool'.started = tool.started /\ tool'.pc = tool.pc
    BY <1>2
  <2>2. /\ tool.gate \in Gate /\ tool.commit \in 1..Len(commits')
        /\ commits'[tool.commit] = commits[tool.commit]
    BY <1>2 DEF GenerateKnows, Grows, Shapes, IsHistory
  <2>3. CASE tool.pc = "measure"
    BY <1>2, <2>1, <2>2, <2>3 DEF GenerateKnows
  <2>4. CASE tool.pc = "write"
    <3>1. WasMeasured(known, commits, log.measured, start.kind)
      BY <1>2, <2>4 DEF GenerateKnows
    <3>2. WasMeasured(known, commits', log'.measured, start'.kind)
      <4> HIDE DEF known
      <4> QED BY <3>1, MeasurementsAreKept
    <3> QED BY <2>1, <2>2, <2>4, <3>2 DEF GenerateKnows
  <2> QED BY <1>2, <2>3, <2>4 DEF GenerateKnows
<1>3. CASE Builder
  <2>1. tool.kind = "generate"
    BY <1>1, <1>3, BuilderActs
  <2>2. \A f \in {"gate", "id", "commit", "files", "started", "pc"} : tool'[f] = tool[f]
    BY <2>1, <1>3, BuilderActs DEF Fields
  <2>3. tool'.touched \/ (tool'.touched = tool.touched /\ tree'.source = tree.source)
    BY <2>1, <1>3, EditsMark, MovesSettle, BuilderEditsOrMoves
  <2> QED BY <1>2, <2>1, <2>2, <2>3
<1>4. CASE Tick \/ RunNextTask
  <2>1. tool' = tool /\ tree' = tree /\ commits' = commits
    BY <1>4 DEF Tick, RunNextTask
  <2> QED BY <1>1, <1>2, <2>1
<1>5. CASE \E g \in Gate, id \in RunIds : BeginGenerate(g, id)
  <2>1. PICK g \in Gate, id \in RunIds : BeginGenerate(g, id)
    BY <1>5
  <2>2. tool'.pc = "measure" /\ tool'.gate = g /\ tool'.commit = head
    BY <2>1, BeginsGenerate
  <2>3. /\ head # 0 /\ tree = commits[head].tree
        /\ tree' = tree /\ commits' = commits
    BY <2>1 DEF BeginGenerate, Clean, HeadTree, Keeps
  <2>4. head \in 1..Len(commits)
    BY <2>3 DEF Shapes, IsHistory
  <2> QED BY <2>2, <2>3, <2>4 DEF GenerateKnows
<1>6. CASE Measure
  <2>1. /\ tool.kind = "generate" /\ tool.pc = "measure" /\ Kind(tool.gate) = "suite"
        /\ \E files : Measures(files, tree.source)
    BY <1>6 DEF Measure, At
  <2>2. tool.touched \in BOOLEAN
    BY <2>1 DEF Shapes, IsFramed
  <2>3. /\ tool.gate \in Gate /\ tool.commit \in 1..Len(commits)
        /\ tool.touched \/ tree.source = commits[tool.commit].tree.source
    BY <2>1, <2>2 DEF GenerateKnows
  <2> QED BY <1>1, <2>1, <2>3, MeasuringIsKnown
<1>7. CASE CopyProofs
  <2>1. tool.kind = "generate" /\ tool.gate \in Gate /\ tool.commit \in 1..Len(commits)
    BY <1>7 DEF CopyProofs, At, GenerateKnows
  <2>2. \E files : /\ Measures(files, commits[tool.commit].tree.source)
                   /\ FilesAreOfBundles(Kind(tool.gate), files)
    BY <1>7, <2>1, CopyProofsCopiesBundles
  <2> QED BY <1>1, <2>1, <2>2, MeasuringIsKnown
<1>8. CASE WriteManifest
  BY <1>1, <1>8, WritesManifest, IdleIsFramed
<1>9. CASE Bootstrap \/ Release \/ Final \/ Dies
  BY <1>1, <1>9, StepsOfCommands
<1> QED BY <1>3, <1>4, <1>5, <1>6, <1>7, <1>8, <1>9 DEF Next, Generate

-----------------------------------------------------------------------------
(* The root commit stays, and so does its clock.                             *)

\* The root commit stays.
LEMMA RootStays ==
    ASSUME Shapes, Grows, head # 0
    PROVE  RootTree' = RootTree
BY SMTT(60) DEF Shapes, Grows, IsHistory, RootTree

\* Once there is a commit, one is checked out.
LEMMA HeadStaysSet ==
    ASSUME Shapes, Shapes', Grows, head # 0
    PROVE  head' # 0
BY DEF Shapes, Grows, IsHistory

\* What was anchored is the root's clock, and stays.
LEMMA AnchorsStay ==
    ASSUME Shapes, Shapes', Grows, BootstrapKnows, AnchoredIsTheRoot, Next
    PROVE  AnchoredIsTheRoot'
<1>1. CASE EndBootstrap
  <2>1. /\ RootTree.clock = tree.clock /\ head # 0 /\ UNCHANGED <<commits, head>>
        /\ log' = [log EXCEPT !.anchored = log.anchored \union {tree.clock}]
    BY <1>1 DEF EndBootstrap, ControlUnchanged, At, BootstrapKnows
  <2>2. log'.anchored = log.anchored \union {RootTree.clock}
    BY <2>1 DEF Shapes
  <2>3. log'.anchored = {RootTree.clock}
    BY <2>2 DEF AnchoredIsTheRoot
  <2> QED BY <2>1, <2>3 DEF AnchoredIsTheRoot, RootTree
<1>2. CASE log'.anchored = log.anchored
  <2>1. SUFFICES ASSUME log.anchored # {} PROVE head' # 0 /\ log.anchored = {RootTree'.clock}
    BY <1>2 DEF AnchoredIsTheRoot
  <2>2. head # 0 /\ log.anchored = {RootTree.clock}
    BY <2>1 DEF AnchoredIsTheRoot
  <2> QED BY <2>2, RootStays, HeadStaysSet
<1>3. Builder => log'.anchored = log.anchored
  BY BuilderActs
<1>4. Measure \/ CopyProofs => log'.anchored = log.anchored
  <2>1. ASSUME NEW files, NEW source, Measures(files, source)
        PROVE  log'.anchored = log.anchored
    BY <2>1 DEF Measures, Shapes
  <2> QED BY <2>1 DEF Measure, CopyProofs
<1>5. Bootstrap => EndBootstrap \/ log' = log
  BY DEF Bootstrap, BeginBootstrap, OpenClock, FillClock, WriteProgress, CommitAnchor, Keeps
<1>6. Generate => Measure \/ CopyProofs \/ log' = log
  BY DEF Generate, BeginGenerate, WriteManifest, Keeps
<1>7. Tick \/ Dies \/ RunNextTask \/ Release \/ Final => log' = log
  BY ReadersStandStill DEF Tick
<1> QED BY <1>1, <1>2, <1>3, <1>4, <1>5, <1>6, <1>7 DEF Next

-----------------------------------------------------------------------------
(* The final gate.                                                         *)

\* A commit that is checked out has a tree.
LEMMA HeadIsATree ==
    ASSUME Shapes, head # 0
    PROVE  head \in 1..Len(commits) /\ IsTree(HeadTree)
<1>1. head \in 1..Len(commits)
  BY DEF Shapes, IsHistory
<1> QED BY <1>1, CommitsAreTrees DEF HeadTree

\* What the final gate knows it knows after an edit.
LEMMA FinalStandsRising ==
    ASSUME Shapes, Shapes', Grows, FinalKnows, Rises, tool.kind = "final",
           \A f \in {"pc", "commit", "ran", "sources", "moved"} : tool'[f] = tool[f]
    PROVE  FinalKnows'
<1>1. /\ tool'.pc = tool.pc /\ tool'.commit = tool.commit /\ tool'.moved = tool.moved
      /\ tool'.ran = tool.ran /\ tool'.sources = tool.sources
  OBVIOUS
<1>2. /\ commits' = commits /\ head' = head /\ HeadTree' = HeadTree
      /\ tree.source <= tree'.source
  BY DEF Rises, HeadTree
<1>3. tree.source \in Nat /\ tree'.source \in Nat /\ (head # 0 => HeadTree.source \in Nat)
  BY HeadIsATree DEF Shapes, IsTree
<1>4. \A s \in tool.sources : s \in Nat /\ HeadTree.source <= s /\ s <= tree.source =>
          s \in Nat /\ HeadTree.source <= s /\ s <= tree'.source
  BY <1>2, <1>3
<1> QED BY <1>1, <1>2, <1>3, <1>4 DEF FinalKnows

\* And after a commit or a reset.
LEMMA FinalSettles ==
    ASSUME Shapes, Shapes', Grows, FinalKnows, Settles, tool.kind = "final",
           \A f \in {"pc", "commit", "ran", "sources"} : tool'[f] = tool[f]
    PROVE  FinalKnows'
<1>1. /\ tool'.pc = tool.pc /\ tool'.commit = tool.commit
      /\ tool'.ran = tool.ran /\ tool'.sources = tool.sources
  OBVIOUS
<1>2. head' # 0 /\ tree'.source = HeadTree'.source /\ tree'.source \in Nat
  BY DEF Settles, Shapes, IsTree
<1>3. HeadTree'.source <= tree'.source
  BY <1>2
<1>4. "source" \notin tool'.moved =>
          "source" \notin tool.moved /\ HeadTree'.source = HeadTree.source
          /\ tree'.source = tree.source
  BY DEF Settles, Parts
<1>5. tool.commit \in 1..Len(commits) =>
          tool.commit \in 1..Len(commits') /\ commits'[tool.commit] = commits[tool.commit]
  BY DEF Grows, Shapes, IsHistory
<1> QED BY <1>1, <1>2, <1>3, <1>4, <1>5 DEF FinalKnows

\* The sources that the checks have run on have risen from those of the commit.
LEMMA FinalGoesOn ==
    ASSUME Shapes, Shapes', Grows, FinalKnows, Next
    PROVE  FinalKnows'
<1>1. SUFFICES ASSUME tool'.kind = "final" PROVE FinalKnows'
  BY DEF FinalKnows
<1>2. CASE Builder
  <2>1. tool.kind = "final"
    BY <1>1, <1>2, BuilderActs
  <2>2. \A f \in {"pc", "commit", "ran", "sources"} : tool'[f] = tool[f]
    BY <1>2, <2>1, BuilderActs DEF Fields
  <2>3. CASE EditsTheTree
    <3>1. Rises /\ tool'.moved = tool.moved
      BY <2>1, <2>3, EditsKeepShapes, EditsMark
    <3>2. \A f \in {"pc", "commit", "ran", "sources", "moved"} : tool'[f] = tool[f]
      BY <2>2, <3>1
    <3> QED BY <2>1, <3>1, <3>2, FinalStandsRising
  <2>4. CASE Commit \/ TakeBack
    BY <2>1, <2>2, <2>4, MovesSettle, FinalSettles
  <2> QED BY <1>2, <2>3, <2>4, BuilderEditsOrMoves
<1>3. CASE Tick \/ RunNextTask
  <2>1. tool' = tool /\ UNCHANGED <<commits, head, tree>>
    BY <1>3 DEF Tick, RunNextTask
  <2>2. Rises
    BY <2>1, StandingStillRises DEF Shapes
  <2> QED BY <1>1, <2>1, <2>2, FinalStandsRising
<1>4. CASE BeginFinal
  <2>1. tool'.pc = "head" /\ tool'.ran = 0 /\ tool'.sources = {}
    BY <1>4, BeginsFinal
  <2>2. head # 0 /\ tree = commits[head].tree /\ UNCHANGED <<commits, head, tree>>
    BY <1>4 DEF BeginFinal, Clean, HeadTree, Keeps
  <2>3. tree.source \in Nat
    BY DEF Shapes, IsTree
  <2> QED BY <2>1, <2>2, <2>3 DEF FinalKnows, HeadTree
<1>5. CASE ReadHead
  <2>1. /\ tool'.moved = {} /\ tool'.pc = "checks" /\ tool'.commit = head
        /\ tool'.ran = tool.ran /\ tool'.sources = tool.sources
    BY <1>5, ReadsHead
  <2>2. /\ tool.kind = "final" /\ tool.pc = "head" /\ UNCHANGED <<commits, head, tree>>
    BY <1>5 DEF ReadHead, At, Keeps
  <2>3. /\ head # 0 /\ HeadTree.source <= tree.source
        /\ tool.ran = 0 /\ tool.sources = {}
    BY <2>2 DEF FinalKnows
  <2>4. head \in 1..Len(commits)
    BY <2>3, HeadIsATree
  <2> QED BY <2>1, <2>2, <2>3, <2>4 DEF FinalKnows, HeadTree
<1>6. CASE RunCheck
  <2>1. /\ tool'.moved = tool.moved /\ tool'.ran = tool.ran + 1
        /\ tool'.sources = tool.sources \union {tree.source}
        /\ tool'.pc = tool.pc /\ tool'.commit = tool.commit
    BY <1>6, RunsCheck
  <2>2. /\ tool.kind = "final" /\ UNCHANGED <<commits, head, tree>> /\ tool.pc = "checks"
    BY <1>6 DEF RunCheck, At, Keeps
  <2>3. tree.source \in Nat
    BY DEF Shapes, IsTree
  <2>4. /\ head # 0 /\ HeadTree.source <= tree.source /\ tool.ran \in Nat
        /\ tool.commit \in 1..Len(commits)
        /\ "source" \notin tool.moved =>
              /\ commits[tool.commit].tree.source = HeadTree.source
              /\ \A s \in tool.sources : s \in Nat /\ HeadTree.source <= s /\ s <= tree.source
    BY <2>2 DEF FinalKnows
  <2>5. "source" \notin tool'.moved =>
            \A s \in tool'.sources : s \in Nat /\ HeadTree.source <= s /\ s <= tree.source
    BY <2>1, <2>3, <2>4
  <2>6. tool'.ran \in Nat /\ tool'.sources # {}
    BY <2>1, <2>4
  <2> QED BY <2>1, <2>2, <2>4, <2>5, <2>6 DEF FinalKnows, HeadTree
<1>7. CASE EndFinal
  BY <1>1, <1>7, IdleIsFramed DEF EndFinal, Ends
<1>8. CASE Bootstrap \/ Generate \/ Release \/ Dies
  BY <1>1, <1>8, StepsOfCommands
<1> QED BY <1>2, <1>3, <1>4, <1>5, <1>6, <1>7, <1>8 DEF Next, Final

\* The receipt is of a commit that there is, and of its sources, unless they were moved.
ReceiptHolds ==
    receipt # Nothing =>
        /\ receipt.commit \in 1..Len(commits)
        /\ "source" \notin receipt.moved =>
              receipt.sources = {commits[receipt.commit].tree.source}

\* A receipt is written of a clean tree, whose sources none of the edits between the checks
\* changed: versions only rise, and the last is that of the commit.
LEMMA ReceiptStays ==
    ASSUME Shapes, Shapes', Grows, FinalKnows, ReceiptHolds, Next
    PROVE  ReceiptHolds'
<1>1. CASE receipt' = receipt
  <2>1. SUFFICES ASSUME receipt # Nothing
                 PROVE  /\ receipt.commit \in 1..Len(commits')
                        /\ commits'[receipt.commit] = commits[receipt.commit]
    BY <1>1 DEF ReceiptHolds
  <2>2. receipt.commit \in 1..Len(commits)
    BY <2>1 DEF ReceiptHolds
  <2> QED BY <2>2 DEF Grows, Shapes, IsHistory
<1>2. CASE EndFinal
  <2>1. /\ receipt' = [commit |-> tool.commit, sources |-> tool.sources, moved |-> tool.moved]
        /\ tool.kind = "final" /\ tool.pc = "checks" /\ tool.ran = Checks
        /\ head # 0 /\ tree = HeadTree /\ commits' = commits
    BY <1>2 DEF EndFinal, At, Clean
  <2>2. /\ receipt'.commit = tool.commit /\ receipt'.sources = tool.sources
        /\ receipt'.moved = tool.moved
    BY <2>1
  <2>3. /\ tool.commit \in 1..Len(commits) /\ tool.sources # {}
        /\ "source" \notin tool.moved =>
              /\ commits[tool.commit].tree.source = HeadTree.source
              /\ \A s \in tool.sources : s \in Nat /\ HeadTree.source <= s /\ s <= tree.source
    BY <2>1, BoundsAssumption DEF FinalKnows
  <2>4. HeadTree.source \in Nat
    BY <2>1 DEF Shapes, IsTree
  <2>5. "source" \notin tool.moved => tool.sources = {HeadTree.source}
    BY <2>1, <2>3, <2>4
  <2> QED BY <2>1, <2>2, <2>3, <2>5 DEF ReceiptHolds
<1>3. Next => EndFinal \/ receipt' = receipt
  <2>1. Builder => receipt' = receipt
    BY SMTT(60), BuilderActs
  <2>2. Bootstrap \/ Release \/ Tick \/ Dies \/ RunNextTask => receipt' = receipt
    BY DEF Bootstrap, BeginBootstrap, OpenClock, FillClock, WriteProgress, CommitAnchor,
           EndBootstrap, Release, BeginRelease, CheckAnchors, CheckGate, EndRelease, Tick, Dies,
           RunNextTask, Keeps
  <2>3. Generate => receipt' = receipt
    BY DEF Generate, BeginGenerate, Measure, CopyProofs, Measures, WriteManifest, Keeps
  <2>4. Final => EndFinal \/ receipt' = receipt
    BY DEF Final, BeginFinal, ReadHead, RunCheck, Keeps
  <2> QED BY <2>1, <2>2, <2>3, <2>4 DEF Next
<1> QED BY <1>1, <1>2, <1>3

-----------------------------------------------------------------------------
(* The release gate.                                                       *)

\* Bundles with the right proofs and the files of their proofs were collected
\* on the commit, one on each platform, by the collector that the commit has.
LEMMA ShownShows ==
    ASSUME NEW kind \in Kinds, NEW files, NEW c, NEW then, NEW today,
           kind # "suite" => FilesAreOfBundles(kind, files), Shown(kind, files, c, then, today)
    PROVE  /\ ShowsItsGate(kind, files, c, then)
           /\ kind # "suite" => then = today
<1>1. CASE kind = "suite"
  BY <1>1 DEF Shown, RequirePytestPass, ShowsItsGate
<1>2. CASE kind \in {"portable", "package"}
  <2>1. ASSUME NEW p \in Platforms[kind]
        PROVE  files[p] = Collected(kind, c, today, p) /\ then = today
    <3>1. /\ files[p].proof.commit = c /\ files[p].proof.platform = p
          /\ files[p].proof.collector = today /\ then = today
          /\ files[p].files = files[p].proof.files
      <4>1. CASE kind = "portable"
        BY <4>1 DEF Shown, PortableShown, PortableProofIsValid
      <4>2. CASE kind = "package"
        BY <4>2 DEF Shown, PackageShown, PackageProofIsValid
      <4> QED BY <1>2, <4>1, <4>2
    <3>2. /\ files[p] = [proof |-> files[p].proof, files |-> files[p].files]
          /\ files[p].proof = Collected(kind, c, today, p).proof
      BY <1>2, <3>1 DEF FilesAreOfBundles
    <3>3. PICK b : b = Collected(kind, c, today, p)
      OBVIOUS
    <3>4. b = [proof |-> b.proof, files |-> b.proof.files]
      BY <3>3 DEF Collected
    <3> QED BY <3>1, <3>2, <3>3, <3>4
  <2>2. files = [p \in Platforms[kind] |-> files[p]]
    BY <1>2 DEF FilesAreOfBundles
  <2>3. \E p : p \in Platforms[kind]
    BY <1>2 DEF Platforms
  <2>4. then = today
    BY <2>1, <2>3
  <2> QED BY <1>2, <2>1, <2>2, <2>4 DEF ShowsItsGate
<1> QED BY <1>1, <1>2 DEF Kinds

\* Evidence that holds for the gate is held.
LEMMA EvidenceIsHeld ==
    ASSUME Shapes, TreeIsSound, head # 0, NEW g \in Gate, NEW m, EvidenceHolds(g, m),
           HeadTree.support <= tree.support, HeadTree.collector <= tree.collector
    PROVE  Held(g, m)
<1>1. /\ m.gate = g /\ Intact(m) /\ tree.verifier[g] = m.verifier
      /\ commits[m.commit].tree.verifier[g] = m.verifier
      /\ CommitCounts(m.commit) /\ InWindow(g, m) /\ VerifierAccepts(g, m)
  BY DEF EvidenceHolds
<1>2. WasMeasured(m, commits, log.measured, start.kind)
  BY <1>1 DEF Intact, TreeIsSound, IsSound
<1>3. /\ tree.support = m.verifier /\ tree.support \in Nat /\ tree.collector \in Nat
      /\ HeadTree.collector \in Nat
  BY <1>1, HeadIsATree DEF VerifierAccepts, Shapes, IsTree
<1> DEFINE then == commits[m.commit].tree.collector
<1>4. /\ ShowsItsGate(Kind(g), m.files, m.commit, then)
      /\ Kind(g) # "suite" => then = tree.collector
  <2>1. /\ Kind(g) \in Kinds
        /\ Shown(Kind(g), m.files, m.commit, then, tree.collector)
    BY <1>1 DEF VerifierAccepts, Kind, Shapes
  <2>2. Kind(g) # "suite" => FilesAreOfBundles(Kind(g), m.files)
    BY <1>1, <1>2 DEF WasMeasured, Kind
  <2> QED BY <2>1, <2>2, ShownShows
<1>5. Kind(g) # "suite" => then \in HeadTree.collector..tree.collector
  BY <1>3, <1>4
<1>6. \E x \in log.measured :
          /\ x.gate = g /\ x.id = m.id
          /\ x.commit = m.commit /\ x.started = m.started
          /\ x.touched \/ x.source = commits[m.commit].tree.source
  BY <1>1, <1>2 DEF WasMeasured
<1>7. /\ m.commit \in Reached(head) /\ m.commit \in 1..Len(commits)
      /\ tool.clock <= m.started /\ m.finished <= tool.clock + Deadline[Owner[g]]
  BY <1>1 DEF CommitCounts, InWindow, Reached
<1>8. /\ HeadTree.support <= m.verifier /\ m.verifier <= tree.support
      /\ HeadTree.support <= tree.verifier[g]
  BY <1>1, <1>3
<1>9. Backs(g, m, tool.clock)
  BY <1>4, <1>6, <1>7 DEF Backs
<1> QED BY <1>1, <1>5, <1>7, <1>8, <1>9 DEF Held

\* What was measured goes on to back a gate.
LEMMA BackingIsKept ==
    ASSUME Shapes, Grows, NEW g, NEW m, NEW clock, Backs(g, m, clock)
    PROVE  /\ m.commit \in 1..Len(commits') /\ commits'[m.commit] = commits[m.commit]
           /\ Kind(g)' = Kind(g)
           /\ Backs(g, m, clock)'
<1>1. m.commit \in 1..Len(commits') /\ commits'[m.commit] = commits[m.commit]
  BY DEF Backs, Grows, Shapes, IsHistory
<1>2. Kind(g)' = Kind(g)
  BY DEF Grows, Kind
<1>3. \E x \in log'.measured :
          /\ x.gate = g /\ x.id = m.id
          /\ x.commit = m.commit /\ x.started = m.started
          /\ x.touched \/ x.source = commits'[m.commit].tree.source
  BY <1>1 DEF Backs, Grows
<1> QED BY <1>1, <1>2, <1>3 DEF Backs

\* What was found goes on to hold while the tree rises.
LEMMA HeldIsKept ==
    ASSUME Shapes, Shapes', Grows, Rises, head # 0, NEW g \in Gate, NEW m, Held(g, m),
           HeadTree.support <= tree.support,
           tool'.clock = tool.clock, tool'.moved = tool.moved
    PROVE  Held(g, m)'
<1>1. commits' = commits /\ head' = head
  BY DEF Rises
<1>2. Reached(head)' = Reached(head) /\ HeadTree' = HeadTree
  BY <1>1 DEF Reached, HeadTree
<1>3. Backs(g, m, tool.clock)' /\ m.commit \in 1..Len(commits) /\ Kind(g)' = Kind(g)
  <2>1. PICK clock : clock = tool.clock
    OBVIOUS
  <2>2. Backs(g, m, clock) /\ m.commit \in 1..Len(commits)
    BY <2>1 DEF Held, Backs
  <2>3. Backs(g, m, clock)' /\ Kind(g)' = Kind(g)
    BY <2>2, BackingIsKept
  <2> QED BY <2>1, <2>2, <2>3 DEF Backs
<1>4. IsTree(HeadTree) /\ IsTree(tree) /\ IsTree(tree') /\ IsTree(commits[m.commit].tree)
  BY <1>3, HeadIsATree, CommitsAreTrees DEF Shapes
<1>5. /\ HeadTree.support \in Nat /\ tree.support \in Nat /\ tree'.support \in Nat
      /\ tree.verifier[g] \in Nat /\ tree'.verifier[g] \in Nat
      /\ HeadTree.collector \in Nat /\ tree.collector \in Nat /\ tree'.collector \in Nat
      /\ commits[m.commit].tree.verifier[g] \in Nat /\ commits[m.commit].tree.collector \in Nat
  BY <1>4 DEF IsTree
<1>6. /\ tree.support <= tree'.support /\ tree.collector <= tree'.collector
      /\ tree'.verifier[g] \in {tree.verifier[g], tree.support}
  BY DEF Rises
<1>7. commits[m.commit].tree.verifier[g] = m.verifier
  BY DEF Held
<1>8. {"verifier", "support"} \intersect tool.moved = {} =>
          /\ HeadTree.support <= m.verifier /\ m.verifier <= tree'.support
          /\ HeadTree.support <= tree'.verifier[g]
  <2>1. SUFFICES ASSUME {"verifier", "support"} \intersect tool.moved = {}
                 PROVE  /\ HeadTree.support <= m.verifier /\ m.verifier <= tree'.support
                        /\ HeadTree.support <= tree'.verifier[g]
    OBVIOUS
  <2>2. /\ HeadTree.support <= m.verifier /\ m.verifier <= tree.support
        /\ HeadTree.support <= tree.verifier[g]
    BY <2>1 DEF Held
  <2> QED BY <1>5, <1>6, <1>7, <2>2
<1>9. "collector" \notin tool.moved /\ Kind(g) # "suite" =>
          commits[m.commit].tree.collector \in HeadTree.collector..tree'.collector
  <2>1. SUFFICES ASSUME "collector" \notin tool.moved, Kind(g) # "suite"
                 PROVE  commits[m.commit].tree.collector \in HeadTree.collector..tree'.collector
    OBVIOUS
  <2>2. commits[m.commit].tree.collector \in HeadTree.collector..tree.collector
    BY <2>1 DEF Held
  <2> QED BY <1>5, <1>6, <2>2
<1>10. "history" \notin tool.moved => m.commit \in Reached(head)
  BY DEF Held
<1> QED BY <1>1, <1>2, <1>3, <1>7, <1>8, <1>9, <1>10 DEF Held

\* And of what it has not moved, after a commit or a reset.
LEMMA HeldSettles ==
    ASSUME Shapes, Shapes', Grows, Settles, NEW g \in Gate, NEW m, Held(g, m),
           tool'.clock = tool.clock
    PROVE  Held(g, m)'
<1>1. /\ Backs(g, m, tool.clock)' /\ Kind(g)' = Kind(g)
      /\ m.commit \in 1..Len(commits') /\ commits'[m.commit] = commits[m.commit]
  <2>1. PICK clock : clock = tool.clock
    OBVIOUS
  <2>2. Backs(g, m, clock)
    BY <2>1 DEF Held
  <2>3. /\ Backs(g, m, clock)' /\ Kind(g)' = Kind(g)
        /\ m.commit \in 1..Len(commits') /\ commits'[m.commit] = commits[m.commit]
    BY <2>2, BackingIsKept
  <2> QED BY <2>1, <2>3 DEF Backs
<1>2. "history" \notin tool'.moved => m.commit \in Reached(head)'
  BY DEF Held, Settles
<1>3. {"verifier", "support"} \intersect tool'.moved = {} =>
          /\ HeadTree'.support <= m.verifier /\ m.verifier <= tree'.support
          /\ HeadTree'.support <= tree'.verifier[g]
  <2>1. SUFFICES ASSUME "verifier" \notin tool'.moved, "support" \notin tool'.moved
                 PROVE  /\ HeadTree'.support <= m.verifier /\ m.verifier <= tree'.support
                        /\ HeadTree'.support <= tree'.verifier[g]
    OBVIOUS
  <2>2. /\ "verifier" \notin tool.moved /\ "support" \notin tool.moved
        /\ HeadTree'.support = HeadTree.support /\ tree'.support = tree.support
        /\ tree'.verifier = tree.verifier
    BY <2>1 DEF Settles, Parts
  <2>3. /\ HeadTree.support <= m.verifier /\ m.verifier <= tree.support
        /\ HeadTree.support <= tree.verifier[g]
    BY <2>2 DEF Held
  <2> QED BY <2>2, <2>3
<1>4. "collector" \notin tool'.moved /\ Kind(g) # "suite" =>
          commits[m.commit].tree.collector \in HeadTree'.collector..tree'.collector
  <2>1. SUFFICES ASSUME "collector" \notin tool'.moved, Kind(g) # "suite"
                 PROVE  commits[m.commit].tree.collector \in HeadTree'.collector..tree'.collector
    OBVIOUS
  <2>2. /\ "collector" \notin tool.moved
        /\ HeadTree'.collector = HeadTree.collector /\ tree'.collector = tree.collector
    BY <2>1 DEF Settles, Parts
  <2>3. commits[m.commit].tree.collector \in HeadTree.collector..tree.collector
    BY <2>1, <2>2 DEF Held
  <2> QED BY <2>2, <2>3
<1>5. commits[m.commit].tree.verifier[g] = m.verifier
  BY DEF Held
<1> QED BY <1>1, <1>2, <1>3, <1>4, <1>5 DEF Held

\* What the release gate knows it knows after an edit.
LEMMA ReleaseStandsRising ==
    ASSUME Shapes, Shapes', Grows, ReleaseKnows, Rises, tool.kind = "release",
           \A f \in {"pc", "docs", "open", "clock", "left", "at", "moved"} : tool'[f] = tool[f]
    PROVE  ReleaseKnows'
<1>1. /\ tool'.pc = tool.pc /\ tool'.docs = tool.docs /\ tool'.open = tool.open
      /\ tool'.clock = tool.clock /\ tool'.left = tool.left /\ tool'.at = tool.at
      /\ tool'.moved = tool.moved
  OBVIOUS
<1>2. /\ commits' = commits /\ head' = head /\ HeadTree' = HeadTree /\ RootTree' = RootTree
      /\ now <= now' /\ now \in Nat /\ now' \in Nat
  BY DEF Rises, HeadTree, RootTree, Grows, Shapes
<1>3. /\ ValidShape(tool.docs, tool.open)
      /\ tool.clock \in 1..now /\ (head # 0 => RootTree.clock <= tool.clock)
      /\ "docs" \notin tool.moved /\ Passed(tool.docs) = Task => tree.docs = tool.docs
  BY DEF ReleaseKnows
<1>4. ValidShape(tool'.docs, tool'.open)
  BY <1>1, <1>3
<1>5. tool'.clock \in 1..now' /\ (head' # 0 => RootTree'.clock <= tool'.clock)
  BY <1>1, <1>2, <1>3
<1>6. "docs" \notin tool'.moved /\ Passed(tool'.docs) = Task => tree'.docs = tool'.docs
  BY <1>1, <1>3 DEF Rises, Passed
<1>7. CASE tool.pc = "anchors"
  <2>1. tool.left = Gate /\ ("clock" \notin tool.moved => tree.clock = 0 \/ tool.clock <= tree.clock)
    BY <1>7 DEF ReleaseKnows
  <2>2. "clock" \notin tool'.moved => tree'.clock = 0 \/ tool'.clock <= tree'.clock
    BY <1>1, <1>3, <2>1 DEF Rises
  <2> QED BY <1>1, <1>4, <1>5, <1>6, <1>7, <2>1, <2>2 DEF ReleaseKnows
<1>8. CASE tool.pc = "gates"
  <2>1. /\ head # 0 /\ ("clock" \notin tool.moved => tool.clock = RootTree.clock)
        /\ tool.at <= tool.clock + Total /\ Passed(tool.docs) = Task
        /\ HeadTree.support <= tree.support /\ HeadTree.collector <= tree.collector
        /\ \A g \in Gate \ tool.left : \A m \in tool.docs.evidence[g] : Held(g, m)
    BY <1>8 DEF ReleaseKnows
  <2>2. HeadTree'.support <= tree'.support /\ HeadTree'.collector <= tree'.collector
    <3>1. IsTree(HeadTree) /\ IsTree(tree) /\ IsTree(tree')
      BY <2>1, HeadIsATree DEF Shapes
    <3>2. tree.support <= tree'.support /\ tree.collector <= tree'.collector
      BY DEF Rises
    <3> QED BY <1>2, <2>1, <3>1, <3>2 DEF IsTree
  <2>3. \A g \in Gate \ tool'.left : \A m \in tool'.docs.evidence[g] : Held(g, m)'
    BY <1>1, <2>1, HeldIsKept
  <2> QED BY <1>1, <1>2, <1>4, <1>5, <1>6, <1>8, <2>1, <2>2, <2>3 DEF ReleaseKnows
<1> QED BY <1>7, <1>8 DEF ReleaseKnows

\* And after a commit or a reset.
LEMMA ReleaseSettles ==
    ASSUME Shapes, Shapes', Grows, ReleaseKnows, Settles, tool.kind = "release",
           \A f \in {"pc", "docs", "open", "clock", "left", "at"} : tool'[f] = tool[f]
    PROVE  ReleaseKnows'
<1>1. /\ tool'.pc = tool.pc /\ tool'.docs = tool.docs /\ tool'.open = tool.open
      /\ tool'.clock = tool.clock /\ tool'.left = tool.left /\ tool'.at = tool.at
  OBVIOUS
<1>2. head # 0 /\ head' # 0 /\ now <= now' /\ now \in Nat /\ now' \in Nat /\ RootTree' = RootTree
  BY RootStays DEF Settles, Grows, Shapes
<1>3. /\ ValidShape(tool.docs, tool.open)
      /\ tool.clock \in 1..now /\ RootTree.clock <= tool.clock
      /\ "docs" \notin tool.moved /\ Passed(tool.docs) = Task => tree.docs = tool.docs
  BY <1>2 DEF ReleaseKnows
<1>4. ValidShape(tool'.docs, tool'.open)
  BY <1>1, <1>3
<1>5. tool'.clock \in 1..now' /\ RootTree'.clock <= tool'.clock
  BY <1>1, <1>2, <1>3
<1>6. "docs" \notin tool'.moved => "docs" \notin tool.moved /\ tree'.docs = tree.docs
  BY DEF Settles, Parts
<1>7. "docs" \notin tool'.moved /\ Passed(tool'.docs) = Task => tree'.docs = tool'.docs
  BY <1>1, <1>3, <1>6 DEF Passed
<1>8. "clock" \notin tool'.moved => "clock" \notin tool.moved /\ tree'.clock = tree.clock
  BY DEF Settles, Parts
<1>9. CASE tool.pc = "anchors"
  <2>1. tool.left = Gate /\ ("clock" \notin tool.moved => tree.clock = 0 \/ tool.clock <= tree.clock)
    BY <1>9 DEF ReleaseKnows
  <2>2. "clock" \notin tool'.moved => tree'.clock = 0 \/ tool'.clock <= tree'.clock
    BY <1>1, <1>8, <2>1
  <2> QED BY <1>1, <1>4, <1>5, <1>7, <1>9, <2>1, <2>2 DEF ReleaseKnows
<1>10. CASE tool.pc = "gates"
  <2>1. /\ "clock" \notin tool.moved => tool.clock = RootTree.clock
        /\ tool.at <= tool.clock + Total /\ Passed(tool.docs) = Task
        /\ \A g \in Gate \ tool.left : \A m \in tool.docs.evidence[g] : Held(g, m)
    BY <1>10 DEF ReleaseKnows
  <2>2. HeadTree'.support <= tree'.support /\ HeadTree'.collector <= tree'.collector
    BY SMTT(60) DEF Settles, Shapes, IsTree
  <2>3. \A g \in Gate \ tool'.left : \A m \in tool'.docs.evidence[g] : Held(g, m)'
    BY <1>1, <2>1, HeldSettles
  <2>4. "clock" \notin tool'.moved => tool'.clock = RootTree'.clock
    BY <1>1, <1>2, <1>8, <2>1
  <2>5. Passed(tool'.docs) = Task /\ tool'.at <= tool'.clock + Total
    BY <1>1, <2>1 DEF Passed
  <2> QED BY <1>1, <1>2, <1>4, <1>5, <1>7, <1>10, <2>2, <2>3, <2>4, <2>5 DEF ReleaseKnows
<1> QED BY <1>9, <1>10 DEF ReleaseKnows

\* The release gate knows what it checked of each gate.
LEMMA ReleaseGoesOn ==
    ASSUME Shapes, Shapes', Grows, TreesAreSound, ReleaseKnows, Next
    PROVE  ReleaseKnows'
<1>1. SUFFICES ASSUME tool'.kind = "release" PROVE ReleaseKnows'
  BY DEF ReleaseKnows
<1>2. CASE Builder
  <2>1. tool.kind = "release"
    BY <1>1, <1>2, BuilderActs
  <2>2. \A f \in {"pc", "docs", "open", "clock", "left", "at"} : tool'[f] = tool[f]
    BY <1>2, <2>1, BuilderActs DEF Fields
  <2>3. CASE EditsTheTree
    <3>1. Rises /\ tool'.moved = tool.moved
      BY <2>1, <2>3, EditsKeepShapes, EditsMark
    <3>2. \A f \in {"pc", "docs", "open", "clock", "left", "at", "moved"} : tool'[f] = tool[f]
      BY <2>2, <3>1
    <3> QED BY <2>1, <3>1, <3>2, ReleaseStandsRising
  <2>4. CASE Commit \/ TakeBack
    BY <2>1, <2>2, <2>4, MovesSettle, ReleaseSettles
  <2> QED BY <1>2, <2>3, <2>4, BuilderEditsOrMoves
<1>3. CASE Tick \/ RunNextTask
  <2>1. tool' = tool /\ UNCHANGED <<commits, head, tree>>
    BY <1>3 DEF Tick, RunNextTask
  <2>2. Rises
    BY <2>1, StandingStillRises DEF Shapes
  <2> QED BY <1>1, <2>1, <2>2, ReleaseStandsRising
<1>4. CASE BeginRelease
  <2>1. /\ tool'.pc = "anchors" /\ tool'.docs = tree.docs /\ tool'.open = tree.open
        /\ tool'.clock = tree.clock /\ tool'.left = Gate
    BY <1>4, BeginsRelease
  <2>2. /\ ValidShape(tree.docs, tree.open) /\ tree.clock \in 1..now
        /\ UNCHANGED <<now, commits, head, tree>>
    BY <1>4 DEF BeginRelease, DocumentsLoad, ClockIsValid, Keeps
  <2>3. head # 0 => RootTree.clock <= tree.clock
    BY <2>2 DEF TreesAreSound, TreeIsSound, IsSound, RootTree, Shapes
  <2>4. tree.clock <= tree.clock /\ tree.clock \in Int
    BY <2>2
  <2> QED BY <2>1, <2>2, <2>3, <2>4 DEF ReleaseKnows, RootTree
<1>5. CASE CheckAnchors
  <2>1. /\ tool'.moved = tool.moved /\ tool'.pc = "gates" /\ tool'.at = now
        /\ tool'.docs = tool.docs /\ tool'.open = tool.open
        /\ tool'.clock = tool.clock /\ tool'.left = tool.left
    BY <1>5, ChecksAnchors
  <2>2. /\ tool.kind = "release" /\ tool.pc = "anchors"
        /\ UNCHANGED <<now, commits, head, tree>>
    BY <1>5 DEF CheckAnchors, At, Keeps
  <2>3. /\ head # 0 /\ tree = HeadTree
        /\ RootTree.clock # 0 /\ RootTree.clock = tree.clock
        /\ now <= tool.clock + Total /\ Passed(tool.docs) = Task
    BY <1>5 DEF CheckAnchors, Clean, ControlUnchanged
  <2>4. /\ ValidShape(tool.docs, tool.open)
        /\ tool.clock \in 1..now /\ RootTree.clock <= tool.clock
        /\ "docs" \notin tool.moved => tree.docs = tool.docs
        /\ tool.left = Gate
        /\ "clock" \notin tool.moved => tool.clock <= tree.clock
    BY <2>2, <2>3 DEF ReleaseKnows
  <2>5. "clock" \notin tool.moved => tool.clock = RootTree.clock
    BY SMTT(60), <2>3, <2>4 DEF Shapes, IsTree
  <2>6. HeadTree.support <= tree.support /\ HeadTree.collector <= tree.collector
    BY SMTT(60), <2>3 DEF Shapes, IsTree
  <2> QED BY <2>1, <2>2, <2>3, <2>4, <2>5, <2>6 DEF ReleaseKnows, RootTree, HeadTree
<1>6. CASE \E g \in Gate : CheckGate(g)
  <2>1. PICK g \in Gate : CheckGate(g)
    BY <1>6
  <2>2. /\ tool'.moved = tool.moved /\ tool'.left = tool.left \ {g} /\ tool'.pc = tool.pc
        /\ tool'.docs = tool.docs /\ tool'.open = tool.open
        /\ tool'.clock = tool.clock /\ tool'.at = tool.at
    BY <2>1, ChecksGate
  <2>3. /\ tool.kind = "release" /\ tool.pc = "gates"
        /\ UNCHANGED <<now, commits, head, tree>>
        /\ \A m \in tool.docs.evidence[g] : EvidenceHolds(g, m)
    BY <2>1 DEF CheckGate, At, Keeps
  <2>4. /\ ValidShape(tool.docs, tool.open)
        /\ tool.clock \in 1..now /\ RootTree.clock <= tool.clock
        /\ "docs" \notin tool.moved => tree.docs = tool.docs
        /\ head # 0
        /\ "clock" \notin tool.moved => tool.clock = RootTree.clock
        /\ tool.at <= tool.clock + Total
        /\ Passed(tool.docs) = Task
        /\ HeadTree.support <= tree.support /\ HeadTree.collector <= tree.collector
        /\ \A h \in Gate \ tool.left : \A m \in tool.docs.evidence[h] : Held(h, m)
    BY <2>3 DEF ReleaseKnows
  <2>5. \A m \in tool.docs.evidence[g] : Held(g, m)
    BY <2>3, <2>4, EvidenceIsHeld DEF TreesAreSound
  <2>6. Rises
    BY <2>3, StandingStillRises DEF Shapes
  <2>7. \A h \in Gate \ tool'.left : \A m \in tool'.docs.evidence[h] : Held(h, m)'
    BY <2>2, <2>4, <2>5, <2>6, HeldIsKept
  <2> QED BY <2>2, <2>3, <2>4, <2>7 DEF ReleaseKnows, RootTree, HeadTree
<1>7. CASE EndRelease
  BY <1>1, <1>7, IdleIsFramed DEF EndRelease, Ends
<1>8. CASE Bootstrap \/ Generate \/ Final \/ Dies
  BY <1>1, <1>8, StepsOfCommands
<1> QED BY <1>2, <1>3, <1>4, <1>5, <1>6, <1>7, <1>8 DEF Next, Release

-----------------------------------------------------------------------------
\* Of a gate's manifest, as GreenIsProved has it of the green gate `e'.
Proved(g, m, e) ==
    /\ Backs(g, m, e.clock)
    /\ "history" \notin e.moved => m.commit \in Reached(e.head)
    /\ {"verifier", "support"} \intersect e.moved = {} =>
          /\ commits[m.commit].tree.verifier[g] = commits[e.head].tree.verifier[g]
          /\ commits[e.head].tree.verifier[g] = commits[e.head].tree.support
    /\ "collector" \notin e.moved /\ Kind(g) # "suite" =>
          commits[m.commit].tree.collector = commits[e.head].tree.collector

\* All that is said of a green release gate.
GreenHolds ==
    green # Nothing =>
        /\ green.head \in 1..Len(commits)
        /\ RootTree.clock <= green.clock /\ green.at <= green.clock + Total
        /\ "clock" \notin green.moved => green.clock = RootTree.clock
        /\ "docs" \notin green.moved => green.docs = commits[green.head].tree.docs
        /\ Passed(green.docs) = Task
        /\ \A g \in Gate :
              /\ green.docs.evidence[g] # {}
              /\ \A m \in green.docs.evidence[g] : Proved(g, m, green)

\* What is proved stays so, while the history grows.
LEMMA ProvedIsKept ==
    ASSUME Shapes, Grows, NEW e, e.head \in 1..Len(commits), NEW g \in Gate, NEW m, Proved(g, m, e)
    PROVE  Proved(g, m, e)'
<1>1. PICK clock : clock = e.clock
  OBVIOUS
<1>2. /\ m.commit \in 1..Len(commits') /\ commits'[m.commit] = commits[m.commit]
      /\ Kind(g)' = Kind(g) /\ Backs(g, m, e.clock)'
  <2>1. Backs(g, m, clock)
    BY <1>1 DEF Proved
  <2>2. /\ m.commit \in 1..Len(commits') /\ commits'[m.commit] = commits[m.commit]
        /\ Kind(g)' = Kind(g) /\ Backs(g, m, clock)'
    BY <2>1, BackingIsKept
  <2> QED BY <1>1, <2>2 DEF Backs
<1>3. e.head \in 1..Len(commits') /\ commits'[e.head] = commits[e.head]
  BY DEF Grows, Shapes, IsHistory
<1>4. "history" \notin e.moved => m.commit \in Reached(e.head)'
  BY ReachedIsKept DEF Proved
<1> QED BY <1>2, <1>3, <1>4 DEF Proved

\* What is held of a manifest is proved of the commit, when the tree is clean.
LEMMA HeldIsProved ==
    ASSUME Shapes, TreeIsSound, head # 0, tree = HeadTree, NEW g \in Gate, NEW m, Held(g, m),
           NEW e, e.head = head, e.clock = tool.clock, e.moved = tool.moved
    PROVE  Proved(g, m, e)
<1>1. /\ tree.support \in Nat /\ tree.verifier[g] \in Nat /\ tree.collector \in Nat
      /\ tree.verifier[g] <= tree.support
  BY DEF Shapes, IsTree, TreeIsSound, IsSound
<1>2. /\ Backs(g, m, e.clock)
      /\ m.commit \in 1..Len(commits) /\ commits[m.commit].tree.verifier[g] = m.verifier
  BY DEF Held, Backs
<1>3. m.verifier \in Nat
  BY <1>2, CommitsAreTrees DEF IsTree
<1>4. {"verifier", "support"} \intersect e.moved = {} =>
          m.verifier = tree.support /\ tree.verifier[g] = tree.support
  <2>1. SUFFICES ASSUME {"verifier", "support"} \intersect tool.moved = {}
                 PROVE  m.verifier = tree.support /\ tree.verifier[g] = tree.support
    OBVIOUS
  <2>2. /\ tree.support <= m.verifier /\ m.verifier <= tree.support
        /\ tree.support <= tree.verifier[g]
    BY <2>1 DEF Held
  <2> QED BY <1>1, <1>3, <2>2
<1>5. "collector" \notin e.moved /\ Kind(g) # "suite" =>
          commits[m.commit].tree.collector = tree.collector
  <2>1. SUFFICES ASSUME "collector" \notin tool.moved, Kind(g) # "suite"
                 PROVE  commits[m.commit].tree.collector = tree.collector
    OBVIOUS
  <2>2. commits[m.commit].tree.collector \in tree.collector..tree.collector
    BY <2>1 DEF Held
  <2> QED BY <1>1, <2>2
<1>6. "history" \notin e.moved => m.commit \in Reached(e.head)
  BY DEF Held
<1>7. commits[e.head].tree = tree
  BY DEF HeadTree
<1> QED BY <1>2, <1>4, <1>5, <1>6, <1>7 DEF Proved

\* The release gate turns green on a tree that is clean, again: what rose between the
\* checks is back where it was, and so was never elsewhere, unless HEAD has moved to it.
LEMMA GreenComes ==
    ASSUME Shapes, Shapes', Grows, TreesAreSound, ReleaseKnows, EndRelease
    PROVE  GreenHolds'
<1>1. /\ tool.kind = "release" /\ tool.pc = "gates" /\ tool.left = {}
      /\ head # 0 /\ tree = HeadTree /\ commits' = commits
      /\ green' = [head |-> head, docs |-> tool.docs, clock |-> tool.clock, at |-> tool.at,
                   moved |-> tool.moved]
  BY DEF EndRelease, At, Clean
<1>2. PICK e : e = green'
  OBVIOUS
<1>3. /\ e.head = head /\ e.docs = tool.docs /\ e.clock = tool.clock
      /\ e.at = tool.at /\ e.moved = tool.moved
  BY <1>1, <1>2
<1>4. /\ ValidShape(tool.docs, tool.open)
      /\ RootTree.clock <= tool.clock
      /\ "docs" \notin tool.moved /\ Passed(tool.docs) = Task => tree.docs = tool.docs
      /\ Passed(tool.docs) = Task
      /\ "clock" \notin tool.moved => tool.clock = RootTree.clock
      /\ tool.at <= tool.clock + Total
      /\ \A g \in Gate : \A m \in tool.docs.evidence[g] : Held(g, m)
  BY <1>1 DEF ReleaseKnows
<1>5. head \in 1..Len(commits)
  BY <1>1, HeadIsATree
<1>6. \A g \in Gate : tool.docs.evidence[g] # {}
  <2>1. ASSUME NEW g \in Gate PROVE tool.docs.evidence[g] # {}
    <3>1. Owner[g] \in Task /\ g \in Owned(Owner[g])
      BY PlanAssumption DEF Owned
    <3>2. tool.docs.gates[g] = "passed"
      BY <1>4, <3>1 DEF Passed, ValidShape, TasksAreValid
    <3> QED BY <1>4, <3>2 DEF ValidShape, GatesAreValid
  <2> QED BY <2>1
<1>7. \A g \in Gate : \A m \in tool.docs.evidence[g] : Proved(g, m, e)
  BY <1>1, <1>3, <1>4, HeldIsProved DEF TreesAreSound
<1>8. \A g \in Gate : \A m \in tool.docs.evidence[g] : Proved(g, m, e)'
  BY <1>3, <1>5, <1>7, ProvedIsKept
<1>9. /\ RootTree'.clock <= tool.clock
      /\ "clock" \notin tool.moved => tool.clock = RootTree'.clock
      /\ "docs" \notin tool.moved => tool.docs = commits'[head].tree.docs
      /\ head \in 1..Len(commits')
  BY <1>1, <1>4, <1>5 DEF RootTree, HeadTree
<1>10. Passed(e.docs) = Task
  BY <1>3, <1>4
<1>11. \A g \in Gate : \A m \in green'.docs.evidence[g] : Proved(g, m, green)'
  BY <1>2, <1>3, <1>8 DEF Proved, Backs, Reached
<1> QED BY <1>2, <1>3, <1>4, <1>6, <1>9, <1>10, <1>11 DEF GreenHolds

\* What a green gate stands for stays so.
LEMMA GreenStays ==
    ASSUME Shapes, Shapes', Grows, TreesAreSound, ReleaseKnows, GreenHolds, Next
    PROVE  GreenHolds'
<1>1. CASE EndRelease
  BY <1>1, GreenComes
<1>2. CASE green' = green
  <2>1. SUFFICES ASSUME green # Nothing PROVE GreenHolds'
    BY <1>2 DEF GreenHolds
  <2>2. PICK e : e = green
    OBVIOUS
  <2>3. /\ e.head \in 1..Len(commits)
        /\ RootTree.clock <= e.clock /\ e.at <= e.clock + Total
        /\ "clock" \notin e.moved => e.clock = RootTree.clock
        /\ "docs" \notin e.moved => e.docs = commits[e.head].tree.docs
        /\ Passed(e.docs) = Task
        /\ \A g \in Gate :
              e.docs.evidence[g] # {} /\ \A m \in e.docs.evidence[g] : Proved(g, m, e)
    BY <2>1, <2>2 DEF GreenHolds
  <2>4. \A g \in Gate : \A m \in e.docs.evidence[g] : Proved(g, m, e)'
    BY <2>3, ProvedIsKept
  <2>5. e.head \in 1..Len(commits') /\ commits'[e.head] = commits[e.head] /\ RootTree' = RootTree
    <3>1. 1 \in 1..Len(commits) /\ e.head \in 1..Len(commits')
      BY <2>3 DEF Grows, Shapes, IsHistory
    <3> QED BY <2>3, <3>1 DEF Grows, RootTree
  <2>6. e = green'
    BY <1>2, <2>2
  <2>7. \A g \in Gate : \A m \in green'.docs.evidence[g] : Proved(g, m, green)'
    BY <2>4, <2>6 DEF Proved, Backs, Reached
  <2> QED BY <2>3, <2>5, <2>6, <2>7 DEF GreenHolds
<1>3. Next => EndRelease \/ green' = green
  <2>1. Builder => green' = green
    BY BuilderActs
  <2>2. Bootstrap \/ Final \/ Tick \/ Dies \/ RunNextTask => green' = green
    BY DEF Bootstrap, BeginBootstrap, OpenClock, FillClock, WriteProgress, CommitAnchor,
           EndBootstrap, Final, BeginFinal, ReadHead, RunCheck, EndFinal, Tick, Dies,
           RunNextTask, Keeps
  <2>3. Generate => green' = green
    BY ZenonT(60) DEF Generate, BeginGenerate, Measure, CopyProofs, Measures, WriteManifest, Keeps
  <2>4. Release => EndRelease \/ green' = green
    BY DEF Release, BeginRelease, CheckAnchors, CheckGate, Keeps
  <2> QED BY <2>1, <2>2, <2>3, <2>4 DEF Next
<1> QED BY <1>1, <1>2, <1>3

-----------------------------------------------------------------------------
\* All of it.
IInv ==
    /\ Shapes /\ TreesAreSound
    /\ BootstrapKnows /\ GenerateKnows /\ ReleaseKnows /\ FinalKnows
    /\ AnchoredIsTheRoot /\ GreenHolds /\ ReceiptHolds

\* It holds of what a behaviour may begin with.
LEMMA BeginningHolds == Init => IInv
<1>1. SUFFICES ASSUME Init PROVE IInv
  OBVIOUS
<1>2. /\ start \in Starts /\ now = start.now /\ commits = start.commits /\ head = Len(commits)
      /\ tree = start.tree /\ tool = Idle /\ green = Nothing /\ receipt = Nothing
      /\ log = [measured |-> start.measured, anchored |-> {}, acts |-> 0]
  BY <1>1 DEF Init
<1>3. /\ now \in Nat /\ start.kind \in [Gate -> Kinds] /\ IsHistory(commits) /\ IsTree(tree)
      /\ \A t \in {tree} \union {commits[c].tree : c \in 1..Len(commits)} :
            IsSound(t, commits, start.measured, start.kind, now)
  BY <1>2, StartsAssumption
<1>4. /\ log = [measured |-> log.measured, anchored |-> log.anchored, acts |-> log.acts]
      /\ log.measured = start.measured /\ log.anchored = {}
  BY <1>2
<1>5. Shapes
  BY <1>2, <1>3, <1>4, IdleIsFramed DEF Shapes, IsHistory
<1>6. TreesAreSound
  BY <1>3, <1>4 DEF TreesAreSound, TreeIsSound, CommitsAreSound
<1>7. BootstrapKnows /\ GenerateKnows /\ ReleaseKnows /\ FinalKnows
  BY <1>2, IdleIsFramed DEF BootstrapKnows, GenerateKnows, ReleaseKnows, FinalKnows
<1>8. AnchoredIsTheRoot /\ GreenHolds /\ ReceiptHolds
  BY <1>2, <1>4 DEF AnchoredIsTheRoot, GreenHolds, ReceiptHolds
<1> QED BY <1>5, <1>6, <1>7, <1>8 DEF IInv

\* Every step keeps it.
LEMMA StepsKeepIt == IInv /\ [Next]_vars => IInv'
<1>1. SUFFICES ASSUME IInv, [Next]_vars PROVE IInv'
  OBVIOUS
<1>2. CASE Next
  <2>1. Grows /\ Shapes'
    BY <1>1, <1>2, ShapesStay DEF IInv
  <2>2. TreesAreSound' /\ BootstrapKnows' /\ GenerateKnows'
    BY <1>1, <1>2, <2>1, TreesStaySound, BootstrapGoesOn, GenerateGoesOn DEF IInv
  <2>3. ReleaseKnows' /\ FinalKnows'
    BY <1>1, <1>2, <2>1, ReleaseGoesOn, FinalGoesOn DEF IInv
  <2>4. AnchoredIsTheRoot' /\ GreenHolds' /\ ReceiptHolds'
    BY <1>1, <1>2, <2>1, AnchorsStay, GreenStays, ReceiptStays DEF IInv
  <2> QED BY <2>1, <2>2, <2>3, <2>4 DEF IInv
<1>3. CASE UNCHANGED vars
  <2>1. Shapes'
    BY <1>1, <1>3 DEF vars, IInv, Shapes
  <2>2. TreesAreSound'
    BY <1>1, <1>3 DEF vars, IInv, TreesAreSound, TreeIsSound, CommitsAreSound
  <2>3. BootstrapKnows' /\ GenerateKnows'
    BY <1>1, <1>3 DEF vars, IInv, BootstrapKnows, GenerateKnows
  <2>4. ReleaseKnows' /\ FinalKnows'
    <3>1. ReleaseKnows'
      BY SMTT(60), <1>1, <1>3 DEF vars, IInv, ReleaseKnows, Held, Backs, Reached, Kind,
         HeadTree, RootTree
    <3>2. FinalKnows'
      BY SMTT(60), <1>1, <1>3 DEF vars, IInv, FinalKnows, HeadTree
    <3> QED BY SMTT(60), <3>1, <3>2
  <2>5. AnchoredIsTheRoot' /\ GreenHolds' /\ ReceiptHolds'
    BY SMTT(60), <1>1, <1>3 DEF vars, IInv, AnchoredIsTheRoot, GreenHolds, ReceiptHolds, Proved,
       Backs, Reached, Kind, RootTree
  <2> QED BY <2>1, <2>2, <2>3, <2>4, <2>5 DEF IInv
<1> QED BY <1>1, <1>2, <1>3

\* The histories, the trees and the commands at work keep their shapes, what the
\* manifests say was measured, and each command knows what it has found.
THEOREM ControlInvariant == Spec => []IInv
BY BeginningHolds, StepsKeepIt, PTL DEF Spec

\* Whatever is killed, deleted or set anew, every bootstrap that succeeds goes by the
\* clock of the root commit.  A green release gate goes by one no earlier, has begun in
\* time by it, and goes by the root's unless it is the clock itself that was committed
\* or taken back while the gate was at work.
THEOREM OneClock == Spec => []ClockIsNeverReset
<1>1. IInv => ClockIsNeverReset
  BY DEF IInv, AnchoredIsTheRoot, GreenHolds, ClockIsNeverReset
<1> QED BY <1>1, ControlInvariant, PTL

\* A green release gate stands, whatever is committed or taken back, for evidence of each
\* gate that was measured in time on a commit, and on what that commit has; and HEAD is
\* of its history, its PROGRESS.json, its verifiers and its collectors, each unless just
\* that was committed or taken back while the gate was at work.
THEOREM GreenStaysProved == Spec => []GreenIsProved
<1>1. IInv => GreenIsProved
  <2>1. SUFFICES ASSUME IInv, green # Nothing PROVE GreenIsProved
    BY DEF GreenIsProved
  <2>2. /\ "docs" \notin green.moved => green.docs = commits[green.head].tree.docs
        /\ Passed(green.docs) = Task
        /\ \A g \in Gate :
              /\ green.docs.evidence[g] # {}
              /\ \A m \in green.docs.evidence[g] : Proved(g, m, green)
    BY <2>1 DEF IInv, GreenHolds
  <2> QED BY <2>2 DEF GreenIsProved, Proved, Backs
<1> QED BY <1>1, ControlInvariant, PTL

\* The receipt of the final gate, which reads HEAD once, names the commit whose sources
\* were checked, wherever HEAD has moved meanwhile: unless it is the sources that were
\* committed or taken back.
THEOREM ReceiptStaysTrue == Spec => []ReceiptIsOfItsCommit
<1>1. IInv => ReceiptIsOfItsCommit
  BY DEF IInv, ReceiptHolds, ReceiptIsOfItsCommit
<1> QED BY <1>1, ControlInvariant, PTL
===============================================================================

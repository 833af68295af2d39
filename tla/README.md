# Reprosieve in TLA+

Reprosieve takes a recorded agent run that shows a failure, shrinks it under a
predicate that tells whether the failure is still there, checks the result
independently, and exports it. This directory models what the program does with
state, processes, threads and files, model-checks it on small instances, and
proves the results that matter most for every size.

* [Inventory](#inventory)
* [Modules and the code](#modules-and-the-code)
* [Runs](#runs)
* [Bounds](#bounds)
* [Fairness](#fairness)
* [What the runs show](#what-the-runs-show)
* [Disagreements between the code and its documents](#disagreements-between-the-code-and-its-documents)
* [What is proved](#what-is-proved)
* [What is not modelled](#what-is-not-modelled)
* [Known behaviours](#known-behaviours)
* [Plan](#plan)

`PROJECT.json` lists the components, the runs with their properties, the mutants
that show each property can fail, the source lines of every definition, the
hazards and the theorems. Paths below are relative to the repository.

## Inventory

The program is the package `src/reprosieve`. A capture writes a *capsule* (an
archive of events, declared workspace files and environment entries); `reduce`
shrinks it; the other commands look at it. `scripts/` is the control plane by
which the repository itself is built: tasks, gates, evidence, a release gate.

| Component | State it keeps | Operations | Talks to |
|---|---|---|---|
| `ddmin.py` | candidate, granularity, position in a scan | scan by parts, linear pass | its predicate |
| `hierarchy.py` | current capsule, level, memo of answers | ten levels of deletion | ddmin, `validate_capsule`, predicate |
| `verify.py` | list of attempts | every single deletion once, uncached | predicate |
| `predicate.py` | child process, two drain threads, counts, deadline | K-of-N trials | operating system |
| `adapters/openai_agents_replay.py`, sessions | table of tool claims, handlers read and replaced | build, claim, install, restore, release | other sessions, the application's tools |
| the same, capture and replay | recording, last request and result, cursor, deferred divergence | record, match, refuse, report | SDK Runner, model, tools, callback |
| `adapters/openai_agents.py` | open traces, completed capsule, failure, closed | six SDK callbacks, shutdown | SDK (any thread), capsule file |
| `cli._capture`, `_capture_bootstrap.py` | target process, deadline | check, start, wait, kill, look at the file | trace processors through the environment and the file |
| `cli._reduce`, `capsule.write_capsule` | artifact and report under the digest | look for, compare, create exclusively | other invocations through the directory |
| `cli.py`, the other commands | none | materialize, verify-minimal, reproduce-predicate, export, demo | published artifacts |
| `export.py` | files of the new directory | read, write three files, remove on failure | source archive, the user |
| the exported `reproduce.py` | trials, child, drain threads, deadline | load, run, count, exit | operating system |
| `schema.py`, `capsule.py` | none between calls | validation, archive format | everything |
| `redact.py` | walk, report | visit, replace, compile a pattern | captures |
| `safeio.py` | descriptor, what a path was | look, open, read, look again | other processes through the file system |
| `replay.py` | none | materialize recorded outputs | predicate, commands |
| `fixtures.py` | none | build the demo's capsule, its predicate | demo |
| `scripts/` | clock, PROGRESS.json, evidence, commits, receipt | bootstrap, next task, generate, release, final gate | git, the builder, other machines |
| `src/runsieve`, `.evidence/` | none | former name of the package; generated copies | |

What is hard, and what makes each part correct:

* **ddmin**: acceptances, refinements and restarts in any order, a predicate that
  need not be monotone, and parts of unequal width. Correct: the result
  reproduces, is in order, and no single item of it can be deleted; the search
  ends.
* **Reducer and verifier**: ten levels that undo each other's assumptions, a memo
  of answers of which some were time-outs, consumers removed with their
  producers, events that cannot be removed. Correct: what is held is always a
  valid capsule the predicate itself accepted; each level ends exhausted; the
  verifier finds exactly what the levels left.
* **Predicate runners**, the package's and the exported one: child, two threads,
  main thread, clock and canceller race; pipes are bounded; waits and joins have
  time-outs, or none. Correct: both keep one promise, that the verdict is K-of-N
  of what the children said; nothing is left running, nothing blocks for ever.
* **Sessions**: a lock protects the table of claims but not the handlers. Correct:
  two sessions never share a tool, a session's own canary is on its tools, and
  the application's handlers are there when nobody has a claim.
* **Capture and replay**: the Runner makes calls concurrently, callbacks swallow
  exceptions, a divergence may be noticed long after it happened, and redaction
  decides eligibility. Correct: a rerun reported as a success did what the
  recording shows, and an unchanged application is reported.
* **Trace capture**: callbacks for several traces from several threads, late or
  missing; several Pythons with one output path; processes that may be killed
  while they write. Correct: a capture that ends well has one author's whole file,
  which shows everything that was said.
* **Publication and commands**: invocations on one directory, killed between any
  two steps, and later commands on what they leave. Correct: success means the
  capsule and its own report are there in full; only an invocation that met
  another one or leftovers fails; what was found minimal is found so again.
* **Export**: killed between two writes; a source that another process renames;
  rules written twice, in the package and in the script. Correct: a README is the
  sign of a whole export, and the two readings of the rules agree.
* **Documents**: objects shared or cyclic, counts at a limit, replacements that cut
  each other. Correct: walks accept what is within the limits, nothing configured
  is left, the report is true.
* **Control plane**: commands that take minutes beside a builder who edits, commits
  and takes back; commands killed half way; evidence from other machines.
  Correct: the clock is set once, a green gate stands for what was measured of
  that commit, the next task may be worked on.

## Modules and the code

| Module | Models | Notes on the correspondence |
|---|---|---|
| `Deletion` | slices and `_partition_ranges` | Python's half-open offsets are kept |
| `Ddmin` | `ddmin()` | one action per predicate call: `AcceptPart`, `RejectPart`, `Refine`, `EndScan`, `AcceptItem`, `RejectItem`, `Return`; the predicate is the rigid function `verdict` on sets of items |
| `Shrinking` | the contract of `ddmin()` | abstract: replace a reproducing set by a smaller one, stop at a 1-minimal one; `Ddmin!ImplementsShrinking` |
| `Search` | `ddmin()` as a function from a state and an answer to the next state | used by the reducer, which runs it many times |
| `Capsules` | `Capsule`, `validate_capsule`'s referential integrity, `remove_events`, `_replace_path`, path enumerations | payloads are JSON objects one level deep, text is a sequence of chunks |
| `Fixtures` | `killer_capsule`, the demo's predicate and its check | the numbers of branches and messages are parameters |
| `Reducer` | `minimize_capsule`, `_MemoizedPredicate`, `verify_one_minimal`, the end of `_reduce` | `answered` is the memo *and* the predicate: an answer is chosen when a capsule is first asked about; `timedOut` are those cached as INVALID for want of time; invalid capsules are refused unasked |
| `Verdicts` | the predicate protocol of `docs/PRODUCT_CONTRACT.md` | abstract: trials are recorded in order and decide the answer; implemented by `PredicateRun` and by `Reproducer` |
| `PredicateRun` | `run_predicate`, `_execute_attempt`, `_run_bounded_process`, `_terminate` | the child follows a script (writes per stream and an ending); a step is what happens between two points where another thread can be seen |
| `Environments`, `Guards` | the child's environment and audit hook, in `predicate.py` and in the exported script | one name, one operation of each class the code tells apart |
| `ToolClaims` | `OpenAIAgentsReplaySession.__init__`, `execute`, `_install_original_tool_canaries`, `_restore_original_tools` | handlers are read, replaced and put back one at a time; the caller may rebind a tool at any step; `bound` and `rebound` are history |
| `Payloads` | which requests, answers and agents are supported, and the keys redaction sees | values by the kinds of their leaves |
| `AppReplay` | `OpenAIAgentsCaptureSession`, `OpenAIAgentsReplaySession`, their models and tools | first the capture, then a rerun that may do anything; `swallows` says whether the callback handles exceptions; `made` and `departed` are history |
| `TraceCapture` | `ReproSieveTraceProcessor`, `_build_capsule`, `shutdown`, `write_capsule`'s two steps | a callback is one step, as it holds the lock; writing the file is two |
| `CaptureCommand` | `cli._capture`, `_capture_bootstrap` | EXTENDS `TraceCapture` by the command, a Python target or a launcher, and a second Python that writes to the same path |
| `Publication` | `cli._reduce` from the output directory on | files are absent, partial or whole; `Stop` is a kill or an I/O error; `disturbed` is history |
| `Commands` | the reduction before, and the commands after publication | EXTENDS `Publication`; every step of it is one of Publication's or leaves it alone |
| `SafeRead` | `read_regular_file_bounded` | one action per system call, beside a process that renames and rewrites |
| `Archives` | `capsule_bytes`, `load_capsule`, `PredicateSpec.from_json`, `offline_replay`, and their twins in the exported script | pure operators; a member's content is the name of a document |
| `Reproducer` | `export_reproduction` and the script it writes | EXTENDS `SafeRead`, `Archives`, `Environments`, `Guards`; the exporter's variables, then the script's |
| `Documents` | `_validate_json`, its twin in the script, `_Redactor.visit`, `_compile_user_pattern` | a document is a heap of objects; the walks are stacks of visits |
| `Plan` | `validate_state_shape`, the choice in `next_task.py`; the task graph | pure operators over PROGRESS.json as a record |
| `Evidence` | the bundles of RS-G10 and RS-G13 from collection to the gates' verifiers; suites of tests | pure operators; `Collected`, `Arrived` are external to a command, mishaps on the way included |
| `Control` | `bootstrap.py`, `next_task.py`, `generate_gate_evidence.py`, `release_gate.py`, `final_release_gate.py` | one command at a time, in steps, beside a builder; commits are trees with parents |

How they compose: `Reducer` runs `Search` over `Capsules`; its predicate's answers,
time-outs included, are what `PredicateRun` answers; the outcomes of `Commands`'
reductions are the ends of `Reducer`; `Commands` composes publication with the
commands that read what was published; `CaptureCommand` composes two processes with
the command that starts them; `Reproducer` reads its source by `SafeRead`'s steps,
loads it by `Archives` and implements the same `Verdicts` as `PredicateRun`;
`Control` chooses by `Plan` and judges by `Evidence`. The `MC...` modules hold
instances and symmetry sets; the `...Proofs` modules hold lemmas and theorems.

## Runs

Times are for two workers; states are distinct states.

| Run | Question | Instance | States |
|---|---|---|---|
| `ddmin` | does ddmin keep its contract for every predicate? | every argument of up to four items with each of the 2^16 two-valued predicates; six items with a family that is INVALID for broken dependencies and needs one of two sets | 544 000, 30 s |
| `reducer` | do the levels, the memo and the verifier fit together? | three capsules with every predicate, one with every monotone one, one with predicates that run out of time up to twice, small versions of the demo's capsule with its predicate | 184 000, 65 s |
| `predicate` | do the threads, pipes and time-outs of a call give the right verdict and come to an end? | two trials, K = 1, 24 plans of children, limit of two units, pipes of one, chunks of two | 190 000, 50 s |
| `claims` | do sessions exclude each other and clean up? | three sessions, two tools, two handlers, careful and careless callers | 1.7 M, 50 s |
| `replay` | what does a reported rerun tell? | two plain requests and one of each unsupported sort, a plain and a secret tool call, two calls in an answer, two turns, recordings of up to ten events, callbacks of both sorts | 1.6 M, 40 s |
| `trace_capture` | can a capture end well and be wrong? | two traces, three spans between them, five events; a Python target or a launcher of two; every flaw of the arguments; four declarations of files and names | 393 000, 30 s |
| `publication` | can invocations on one directory harm each other, or later commands be wrong about what they leave? | three invocations, two capsules, two outputs, three natures of predicate | 502 000, 55 s |
| `reproducer` | is an export whole, and does it answer as the package does? | every archive with one defect, every kind of child in two trials, a read disturbed twice | 62 000, 12 s |
| `documents` | do the walks and the redactor do what they report? | heaps of up to four objects, shared and cyclic; redactions by up to two texts, denied and allowed paths; patterns of up to five characters | 85 000, 13 s |
| `control` | can a gate be green, a clock be set or a task be named without right? | three tasks and gates; every PROGRESS.json; bootstrap, the last gate and the final gate beside a builder of up to four acts; bundles of both kinds | 499 000, 32 s |
| `reducer_leaf_events`, `claims_nested` | violations, see below | the smallest instance that shows each | < 1000 |

## Bounds

* ddmin: with four items the granularities 2, 3 and 4, uneven parts, restarts and
  both ways into the linear pass occur, and six items add granularities up to 6
  with INVALID answers. `MaxItems`, `LongItems` bound the lengths. The theorems
  remove the bound.
* Reducer: the capsules were chosen so that each level has at least two units in
  some capsule, that a removal takes consumers along, that a nested run makes a
  candidate invalid, and that the numbering has gaps. Predicates are enumerated
  lazily, so the run covers all of them and not a sample. `MaxTimeouts` is 2: one
  that the reducer caches and one in the verifier. Payloads more than one level
  deep are outside. The theorems remove the bounds, but not this last one.
* Predicate: two units of output tell "at the limit" from "over" on each stream and
  on both together, a pipe of one unit blocks, and a chunk of two can straddle
  the limit. The second trial shows that one invalid trial decides a call. The
  theorems remove the bound.
* Claims: the third session is the one that finds a tool held by another while a
  first restores it; two tools make partial overlap possible. The theorems
  remove the bound.
* Replay: ten events hold two full turns with two calls in one of them.
  `MaxEvents` cuts captures off, not reruns. A rerun calls tools without the
  model (`ReplayDirectCall`) until it has made one call more than were recorded.
  The theorems remove the bounds.
* Trace capture: two traces are needed for "more than one trace", three spans for a
  parent with two children, whose tracks interact; `MaxEvents` is 5 so that two
  spans fit and three do not. `MaxStarts` bounds the spans; `PlainStarts` those
  after shutdown, and those beside a launcher or a declaration. The theorems remove
  the bound, with an ID (`EventIds`) for every event that `MaxStarts` spans can have.
* Publication: one invocation leaves rubbish, two race, and any of them may come
  after the others. Commands on artifacts run while no invocation writes, and
  of what they did only the last is remembered. The theorems remove the bound.
* Reproducer: archives have one defect at a time; a behaviour varies one of child,
  layout, environment, archive or disturbed read (`Worlds`). `Moves` bounds what
  another process does during a read: with two a file can be taken away and
  brought back. `MaxTenths` bounds the time-outs of which the CPU limits are
  compared. A drain thread's read is one step here, as `PredicateRun` has it unit
  by unit. The theorems remove the bounds.
* Documents: four objects make a value that is shared below two parents and a
  cycle; `MaxNodes`, `MaxDepth` are the code's limits, small enough to be met
  exactly and exceeded. Five characters hold a class, an escape and two
  quantifiers. `Letters` are the characters that occur, `Index` the steps of a
  path into lists of at most two items. The theorems remove the bounds.
* Control: each start (`Starts`) has its commands, what the builder may edit, the
  number of his `acts`, the last hour (`until`) and the gates that evidence is
  generated for. `MaxCommits` and `MaxVersion` bound the history and the versions
  of a file. Of the bundles of one collection at most one has a mishap, and one
  file stands for a bundle's streams, one for its export, one for its build. The
  theorems remove the bounds, but not the single file.

`CHECK_DEADLOCK FALSE` stands where the system does stop: a function that has
returned, sessions, invocations and commands that are over, recordings cut off
by a bound. `predicate` and `reproducer` check deadlock: a call that is over is
the only state with a stutter of its own.

## Fairness

Fairness is assumed in four runs only. ddmin and the reducer are one thread whose
predicate answers, which `PredicateRun` shows of every call with a deadline:
`WF(Next)`. (In `reducer` it is stated for the capsules with arbitrary
predicates, among which the monotone ones are.) In `PredicateRun` the main
thread, each drain thread, the child's writes and its end are weakly fair
separately, as they are scheduled by the operating system; a wait or join with a
time-out ends by one side or the other; nothing is assumed of the clock, of a
cancellation or of SIGKILL's arrival. In `Reproducer` `process.wait()` after the
kill has no time-out, so that the death of a killed child is assumed to come, and
of the child nothing else. The other modules state no liveness: an application, a
callback, an invocation or a builder may stop for good at any point.

## What the runs show

* `OneMinimal`, `ImplementsShrinking`, `Terminates`: the docstring of ddmin and its
  contract. `ScanStaysInside`: uneven parts cover the candidate exactly.
* `HoldsTheFailure`: no `build` callback ever yields a capsule other than the one
  tested, so that "minimization lost the target failure" cannot happen (ddmin may
  still raise at the first event level, which renumbers the events of its first
  candidate). `SingleSearchLevelsExhausted`: eight of the ten levels end
  with every single deletion refused. `VerifierFindsWhatIsLeft`: under a monotone
  predicate one pass over the levels suffices, but for the events no level
  offers; the demo's capsule is left with five events and nothing to find; and a
  time-out that hid a deletion from the reducer is found by the verifier.
  `OnlyDeletes`, `Terminates`.
* `ImplementsVerdicts`, in two modules: whatever races, a trial is recorded as its
  child ended or as invalid for a reason, and the answer is K-of-N. Too much
  output is not accepted unless a drain thread was given up on or has failed;
  the runs reach an accepted overflow in that case. `NoChildIsLeft`,
  `DeadlineEndsTrial`, `EndsWithoutTheClock`: no pipe blocks a tame child and a
  flood is stopped although the deadline never comes.
* `ClaimsAreExact`, `CanariesHold`: for any caller. `RestoredIfCareful`: only for a
  caller that builds sessions and rebinds tools while no session holds a claim.
* `ReportIsExact`: a reported rerun made every recorded call, of model and tools, in
  the recorded order, and no other tool call; for a callback that lets exceptions
  through no other model request either. One that swallows them may have asked
  the model, in between, for what is not recorded: `fetch_replayed` raises, the
  cursor stays, nothing is kept of it, and `run` still reports. This is the code's
  behaviour (`openai_agents_replay.py:741`); `Covers` says what is left to rely on.
  `ResultsNameTheirCalls`: parallel calls do not mix up their results.
  `PlainEligibleReplays`: with at most one call in an answer, a recording
  declared eligible replays; and redaction makes a recording ineligible for a
  secret only, not for the SDK's own names with "tokens" in them.
* `PublishedShowsAll`, `CompletedIsValid`, `FailureIsFinal`, `OneAuthor`: a capture
  that ends well has a whole, valid file of the traced process, written by one
  process, with all that the callbacks said; a failure is not forgotten.
* `PublishedInOrder`, `UndisturbedSucceeds`, `PublishedVerifies`: what reduce found
  the commands find again, for a steady predicate that does not look at the
  metadata; a file cut short says nothing to anybody.
* `ReadmeComesLast`, `ChildSeesWhatTheRunnerShows`, `ReadIsOfThePath`,
  `LoadersAgree`: an export that is not whole does not look whole; child, guard,
  loader and recorded outputs of the script agree with the package's, with the
  exceptions their comments name.
* `WalkIsExact`: package and script accept the same documents, those within the
  limits; what is shared is no cycle. `NothingSecretIsLeft`: one replacement does
  not put together what another has taken apart. `ReportIsTrue`: "no
  replacements", which makes a recording eligible, hides no changed name.
  `QuantifiersAreNotMissed`: the code's idea of a character class is not
  Python's, but it counts no less.
* `NextTaskIsRight`: over every `PROGRESS.json` of the graph.
* `ClockIsNeverReset`, `GreenIsProved`, `ReceiptIsOfItsCommit` beside a builder who may
  commit and take back at any moment. The release gate reads the clock and
  `PROGRESS.json` once, and asks whether the tree is clean before and after, but
  does not read them again (`release_gate.py:25-27`); the final gate reads HEAD once
  (`final_release_gate.py:54`). So a command records which *parts* of the tree, or the
  history, a commit or a reset has moved while it was at work (`Moved`), and only
  what relates a part to a commit excepts that part. Without any exception: a
  bootstrap that succeeds goes by the root's clock; the release gate goes by none
  that is earlier, and each gate is green by evidence measured, in its window, on
  some commit, by tests that passed or bundles that are right. With it: the clock
  is the root's unless the clock moved; `PROGRESS.json`, the verifiers, the
  collectors, the commits measured are HEAD's own, each unless that part moved;
  the receipt's sources are its commit's, wherever HEAD went, unless changed sources
  were committed or taken back after HEAD was read. The exceptions are what the
  code does: TLC finds a later clock that is set, judged and taken back in time,
  and a receipt for sources that were committed while the checks ran. Both are
  listed below under "Known behaviours".

## Disagreements between the code and its documents

Two runs show a documented statement violated by what the code does. The
statement is the property, the run gives the shortest way to the violation.

1. `reducer_leaf_events` (`hierarchy.py:559`). The verifier tries every event, the
   reducer offers spans only when they have children or carry a unit, and of
   pairs only the call. A leaf handoff, guardrail or error event stays, and
   `reduce` ends with "independent 1-minimality verification failed".
   `docs/PRODUCT_CONTRACT.md:5`, `docs/product.md:64`.
2. `claims_nested` (`adapters/openai_agents_replay.py:675`). Handlers are read when a
   session is built. Built while another executes, it takes that one's canary for
   the original and puts it back for good. `docs/application-replay.md:28`.

## What is proved

All proofs are checked to the leaves; the assumptions are the named `ASSUME`s of
the modules (sizes are naturals, sets of names are disjoint, the task graph is a
graph, the numbers of events make different IDs), and nothing else. Six of them say
what the data look like that a behaviour begins with: `DocsAssumption` (the fields of
a document), `WorldsAssumption` (what a directory may hold when the script is run),
`StartsAssumption` (histories and trees as the commands and a builder leave
them), `JobsAssumption` (a heap refers to its own objects, the texts of a
policy are texts), `RequestsAssumption` (files are declared in a list, a name holds
a secret or not) and `DisksAssumption` (sizes are naturals); TLC evaluates them on the
instances of the runs.

**`DdminProofs`**, for arguments of every length and every predicate. 1-minimality
is not inductive. The invariant `IInv` adds what the scan knows half way:
`StartIsSum` gives the offset in closed form, so that where parts are single
items `start = part`; `ScannedItemsRefused` then says that the items passed
cannot be deleted; `LinearItemsRefused` carries it through the linear pass, which
learns something new only with one item left. From it: `TypeCorrect`,
`KeepsOrder`, `FailureIsKept`, `ScansInside`, `ReturnsOneMinimal`,
`LinearPassIsRedundant` (the comment that credits the linear pass with
1-minimality is not what makes it true) and `Refinement`
(`Spec => ImplementsShrinking`, action by action). It begins with the arithmetic
of widths and the facts on deleting a slice.

**`VerdictsProofs`**, for any N and K. `IInv` says of each recorded trial what it may
be recorded as, given what has happened so far, and that an answer is K-of-N of
all of them. From it `AnswersAreSound` ("reproduces" and "absent" count the zeros
of children that all ended with 0 or 1, none of which wrote too much unless a
stream was not read to its end) and `AnswersAreExact` ("invalid" has a cause in a
child, or the run was stopped). Both runners implement `Verdicts`, so that it
holds of them.

**`PredicateRunProofs`**, for any number of trials, any K, limit, chunk, pipe and
children. `IInv` says what is true at each place of the main thread
(`PhasesAgree`: no trial has begun, the child is at work or reaped), that a reason
is there for each kill and each invalid trial, and where each unit is that a child
wrote: in the pipe, held by a drain thread, or counted. `TypeCorrect`,
`ChildrenAreReaped`; `CallImplementsVerdicts` is the refinement, whose heart is
that a trial recorded as the child's own end was not killed and has no unit
uncounted unless a drain thread failed or was given up on. `ReportsAreSound` joins
it with `AnswersAreSound`.

**`ReducerProofs`**, for any capsules, predicates and time-outs. `HoldingInv` says
that what is held, and what a search in progress has kept, built into the capsule
the level started from, was tested, in time, and reproduced: `FailureIsHeld`.
`LevelsInv` adds where a level stands (what it has still to try is there, counters
are within the search, a JSON level has had every other path refused), `SearchInv`
what a search has been refused so far (`Tries`: the items passed by a scan at
single items, or all of them in the linear pass but the last one left), whence
`SearchesAreOneMinimal`. `LevelsAreExhausted` needs more of the event levels, where
a deletion takes its consumers along: `GoneIs` says that what is removed is a fixed
point, and from that `RemovedTwice` shows that one more removal from what is left is
the same capsule, renumbering included, as both at once, which the search has had
refused. `VerdictInv` is what the verifier has settled; `VerdictsAreTrue` says that
what it accepts and refuses is so.

`OnePassIsEnough` is about monotone predicates. A level is exhausted only in the
capsule as it is when the level ends, and later levels go on deleting. The theorem
says that it stays exhausted: whatever the capsule, all the verifier can still
delete is an event that no level offers by itself. `Below` orders capsules by what
deletions leave (events are left out or renumbered, their values, files, chunks and
names drawn from those of the larger one, in order). `Covered(d, c)` is the step
that makes it work: `d` validates only if `c` does, and then holds no more. Its
heart are two facts on removed events, that a smaller capsule which validates is
closed under what the removal takes along, and that of what is still there a removal
takes along all that it took before (`GoesLater`). Then `StaysLost`: a predicate
that has lost the failure on a capsule does not find it in one that holds less.
`WayInv` keeps the order of what a search has kept, and the text level's paths
behind one another in the events, so that replacing one value moves none of those to
come. `SpentInv` says of every deletion a level can make in the current capsule that
it is lost or its target is still to come, and is carried through every step:
through a ddmin result because a deletion from it is covered by one of the search's
last candidates (`ResultDeletions`), through the other acceptances because every
deletion from a smaller capsule is covered by the same one from the larger. Last,
`UnitIsDeletion` finds in the levels each deletion the verifier tries.

**`AppReplayProofs`**, for any requests, calls and secrets, any number of calls in an
answer, any number of turns and recordings of every length. `IInv` has for a rerun
that what lies before the cursor is what it has asked, in order, unless a
divergence is deferred (`ReplayAgrees`: `CoversNext` for a match, `CoversBeside` for
a model request that a swallowing callback was refused), and for a capture that a
result's event names a call of its own: `ReportsAreExact`,
`ResultsKeepTheirCalls`. `PlainSessionsReplay` says that replay does not refuse what
capture declared eligible. Its invariants describe the recording of a plain
session (`Regular`: request, answer, at most one call with its result), where the
Runner stands in it while it grows (`CaptureStands`) and while it is consumed
(`RerunStands`).

Of `ToolClaims`, in the same module, for any sessions, tools and handlers:
`Exclusion` joins
`ClaimsAreExact` with "`todo` stays within a session's own tools" and "canaries
put so far are in place"; it needs nothing of the caller and gives `ClaimTypes`,
`ClaimsStayExact`, `CanariesStay`. `Remembered` says that what a careful caller's
session has read is what the caller bound, for as long as it may be put back;
with it `HandlersComeBack`.

**`CommandsProofs`**, for any invocations, capsules and outputs. Of `Publication`
alone, `Relies(p)` is what an invocation depends on at each label after others
have moved; it is stable because a file is opened only when absent and changed by
its one writer (`OneWriter`). It gives `PublicationTypes`, `SuccessIsPublished`,
`FilesAreOrdered`. `Alone(p)` says the same of an undisturbed invocation about
what it has not looked at yet; with it `OnlyTheDisturbedFail`. `CommandsPublish` is
the refinement: every step of `Commands` is one of `Publication`'s or a stutter, so
that `PublicationIsInOrder` follows. `PublishedIsVerified` needs what a steady
predicate has been asked: `Answered` says that every invocation past the
reduction, and every whole artifact, has an answer on record, and that answers
agree.

Of capture, in the same module, for any traces, limits, files and requests:
`CaptureInv` says who can run, or can have begun the file, at each stage of the
command; with it `CapturedIsTheTargets`, `FailureStaysFinal`, `FilesHaveOneAuthor`.
`PublishedShowsEverything` is about the whole way from the callbacks to the file.
`ShownInv` says that until a trace is completed, or something fails, what was told
is what the open traces hold, key by key (`ToldOf`), and that the completed capsule
shows it all as long as nothing else is open. Nothing is claimed while another trace
is open beside a completed capsule: it must end before shutdown, and then fails the
capture. The step in between is `BuildShows`, by induction over the spans: each adds
its events at the end, one after the other, and no others have its number.

`CompletedStaysValid` needs more of what is built. `BuiltWell` says it of a prefix of
the spans: its events are `Linked` (the n-th has the n-th ID, its parent and what it
depends on come before it, and a result has its call right before it), the tail of a
span is one of them, and what a track remembers has the parent that the next span will
have. `AddSpanWell` is the step. At most two events a span, spans within the `Budget`
of a trace that has not failed, and no span twice (`SpansAreFew`) give the limits. For
the files, `HasRead` says what has been read of a prefix of the list: each under a safe
name of its own, and a total within the limit, which is the sum that `HasTheFiles` asks
for (`TotalIs`). Names that differ when case is folded make as many words as files.

**`ReproducerProofs`**, for any archives, children, sizes and disturbances. `ExportInv`
has how far the exporter is and which files there are (`ReadmeIsLast`); `ReadInv`
counts, for a read, how many moves of another process each disagreement between
what was looked at has cost, whence `ReadsAreOfThePath`: three are needed to fool
it. `ChildSeesTheSame` compares environments, guards and time-outs.
`LoadersAcceptTheSame` compares the loaders on arbitrary documents: one checks the
order of events pair by pair and the other against all earlier ones, which is the
same test by induction; a workspace index that fits leaves no two members that
differ in case alone. `LoadersStayAgreed` has `LoadersAgree` in full: `RoundTrip` for
what is written again, and `SameOutputs`, by going through the events once with the
script's pass and the package's two lists, `OneProducer` saying why both name the same
call and the same request. `ScriptImplementsVerdicts` is the refinement for the script,
and `ExitStatusIsSound` what follows for its exit status.

Of `Documents`, in the same module (the script's own walk is one of the four), for
any heaps, limits, policies and patterns. `WalkInv` says that the count and what
the stack still owes (`Owed`: the tree below each visit, one for each container to
leave) make the size of the document, that the document fits exactly when what is
on the stack does, and that `active` is the containers to be left, each an item of
the one below it (`Chained`). A node met again while it is active is therefore on
a cycle, and what is on a cycle is at no level of `Fits` (`CyclesFitNowhere`):
`WalksAreExact`. `RedactInv` says of the redactor that no path on the stack goes on
from another one on it, and no written path from one on it (`Free`, `NewTo`), so
that each value written is a new one; that names are the originals, replaced
(`Named`); and that replacements are none exactly when all that is written or
pending has its own name and value. That a name or value is `Clean` rests on
`ReplacedIsGone`: what is replaced is gone, and what was not there does not come
about, as a match leaves a marker between what is beside it, which is in no
configured text. Hence `NothingSecretStays`, `ReportStaysTrue`. For patterns the
code's automaton and Python's are followed together (`Follows`): where the code is
in a class, Python is in one (`QuantifiersAreSeen`).

**`ControlProofs`**, for every task graph, every PROGRESS.json, every history to begin
with and whatever the builder does. Of `Plan`: what a task waits for is closed under
dependencies, so that in a valid document nothing a ready task waits for is open,
and with none ready each task that is left is blocked or waits for one that is
(`StuckTasksWaitForBlocked`); `AnswersStayRight` carries it through every step. Of
the gates: every tree, committed or not, is *sound* (its clock is not before the
root's unless it has none, no verifier pins a support file there has not been,
each manifest says what was measured), and each command knows at each line what
it has checked. `ReleaseKnows` cannot say that what was checked holds of the tree,
which the builder goes on changing, nor of HEAD, which he moves; it says that a part
which no commit or reset has moved has only risen since (`Settles`, which each act of
the builder keeps: `CommitSettles`, `ResetSettles`). When the tree is found clean at
the end, such a part is where it was at HEAD, and so was never elsewhere; what is
said of the commit that was measured (`Backs`) does not depend on HEAD and needs no
exception. Hence `OneClock`, `GreenStaysProved`, `ReceiptStaysTrue`. Looking for this
proof showed that the model had let a release gate pass on a root commit without a
clock, which `git cat-file -e` (`contract.py:614`) rules out: without that conjunct
of `ControlUnchanged` the run finds a clock that is set, judged and taken away again
(the start `Unanchored`).

*Induction.* The library's induction theorems take an operator, which the provers
cannot instantiate; that `<` on the naturals is well-founded and that a
well-founded relation has minimal elements can be cited. `LeastNumber` and
`Counting` make induction over sets of numbers of it (each module has its own copy,
as the components' modules cannot be extended together). `Recursion` in
`ReducerProofs` shows from them that the functions `Capsules` defines by recursion
exist, and `Picks`, `Grows` and `Joined` say of each what it is step by step: that
is how `Among`, `Remaining`, `Consumers` and `FlattenSeq` are reasoned about; `BuildIs`
does the same for `Build`, and `RunExists` and `RunsAgree` for the functions of
`Documents` that go through a text or a list. A fold is out of reach otherwise: `Reached` is for that
reason defined by the sets closed under parents, `Build` by a recursive function.

*Soundness of the prover.* tlapm 1.4.5 tells its SMT solver that every value has the
domain `1..Len(v)`, which is true of sequences alone: with a function on `0..Len(s)`
among its facts an obligation is proved whatever it says. All modules were therefore
also proved with a translation in which that axiom is only the implication that holds
(a domain `1..n` has length `n`); no proof rests on the other half. A new proof should
keep such functions behind a named predicate (as `Collects` does) and be tried with
`PROVE FALSE` when it seems too easy.

Only model-checked:

* liveness (termination of ddmin and the reducer, the end of trials), which is
  beyond the prover, as is what `ENABLED` says;
* the reducer's `OnlyDeletes` and `TypeOK`, whose measure `Contents` counts a value
  once that a list holds twice, so that they hold of capsules with distinct items;
  and of `VerifierFindsWhatIsLeft` what it says of the demo, whose predicate is about
  one capsule (`OnePassIsEnough` states the rest).

The type invariants of `Ddmin`, `PredicateRun`, `Reproducer`, `ToolClaims` and
`Publication` are theorems, and `Control`'s shapes are part of `ControlInvariant`;
`Reducer`'s is stated in the module and holds on the instances above, but no run
spends time on it.

## What is not modelled

* The bytes of the ZIP format, and of `reproduce.py` as text.
* The hashes of the predicate's output, wall times and counters of reports.
* Of the demo, the fixed sequence of commands it runs on the capsule of `Fixtures`,
  and the other synthetic capsules of `fixtures.py`.
* `src/runsieve`: its `ddmin.py` is the package's line by line, its trace adapter
  an earlier copy. `.evidence/`: generated, of which `Reproducer` models the
  writer. `scripts/` for releases (archives against documents, web services): fixed
  sequences of checks without state.
* What the single gates look for in the output of their tests, beyond that a suite
  ran and passed, and beyond the bundles.
* A Python started with sitecustomize switched off, and processes that leave the
  process group of a capture; on Windows the timeout kills the target alone.
* Bounds of single fields that no property turns on: sequence numbers below zero
  (`schema.py:182`, `export.py:146`; the models' numbers are naturals), and of a user
  pattern its limit of 256 bytes and what `re.compile` refuses (`redact.py:209`): the
  models accept more patterns than the code.
* A replay session's `run` before its `execute`, and the check of the tools handed
  to a session.

## Known behaviours

Found while modelling, and outside the properties or excepted in them:

* *Replay.* A model request that departs from the recording is raised but not kept:
  a callback that handles the exception gets a successful report with an extra
  request (`openai_agents_replay.py:741`). An answer with two calls is captured
  and declared eligible; replay refuses it (`:531`). Requests after parallel
  calls depend on whichever result came last. `run` may be called before
  `execute`. A refused agent does not count as a run. JSON-encoded argument
  strings are redacted as text.
* *Capture.* Below a launcher two Pythons capture to one path: one of them fails, and
  "captured one redacted trace" is printed for the other. A Python started by a
  captured Python target exits with 78, as the bootstrap stays on `PYTHONPATH`
  without its configuration. `completed_capsules` shows a capsule again after a
  third trace, though the file is never written.
* *Reducer.* A time-out is cached as INVALID for the whole reduction; the verifier,
  which asks again, then makes `reduce` fail instead of deleting more, and a
  time-out in the verifier counts as a refused deletion. An accepted deletion of a
  file chunk does not restart its level for earlier files. 1-minimality is found
  for the capsule before the reduction's history is put into its metadata: a
  predicate that reads the metadata may find the artifact not minimal.
* *Two runners.* A workspace with `replay.json` or `candidate.reprosieve` makes the
  runner refuse, where the script overwrites. A locale that both host and capsule
  have is the capsule's in one and the host's in the other (`export.py:586`,
  `predicate.py:275`). CPU limits differ by one second for whole-second time-outs.
  The runner's child may change its copy of the capsule, the script's may not. A
  `reproduce.py` cut short may exit with 0 or 1, which is why the README comes last.
* *Files.* A third rename during a read can hide the first two.
* *Redaction.* Denied paths and secret keys are looked for under the replaced names.
* *Control plane.* `docs/EVIDENCE_CONTRACT.md:24` has evidence invalidated by a later
  change of what was measured; the release gate compares the verifier, its
  support file and the collectors only. Bundles may have been collected any time
  before the evidence is generated: the window is that of the generation. RS-G10's
  files are compared with their proof by the gate's verifier, RS-G13's when they
  are copied as well. `release_gate.py:25` reads the clock before it looks at the
  tree: a later clock written first and checked out again in time is the one the
  gate goes by. `final_release_gate.py:54` reads HEAD once: sources edited before
  and committed while the checks run give a receipt for HEAD's old commit.

## Plan

Done: the inventory; ddmin and its contract; the reducer with capsules, verifier,
time-outs and the demo; both predicate runners and their protocol; sessions;
application replay; trace capture with its command; publication and the commands;
export, archives and safe reads; documents; the control plane. Proofs of ddmin, the
reducer and its verifier, the protocol and that both runners implement it, sessions,
application replay, capture, publication and commands, the export and what it reads,
documents, and the control plane.

Next, most important first:

1. `Reducer`: `OnlyDeletes` with a measure that counts equal items of a list.
2. What the demo's predicate leaves, as a theorem about capsules of the demo's shape.

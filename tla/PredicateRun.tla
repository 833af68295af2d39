---------------------------- MODULE PredicateRun ----------------------------
(***************************************************************************)
(* One call of run_predicate (predicate.py): the K-of-N trials of one      *)
(* candidate, each a child process that is watched by a polling loop,      *)
(* drained by two threads, killed when the run is cancelled, the output is *)
(* too long or the deadline has passed, and turned into one of three       *)
(* verdicts.  Reducer.tla uses the result as the value of the predicate.   *)
(*                                                                         *)
(* The child, the two drain threads, the main thread and the clock run     *)
(* side by side; a step is what happens between two points at which another *)
(* of them can be seen.  Output is counted in units.                       *)
(***************************************************************************)
EXTENDS Integers, Sequences, FiniteSets

CONSTANTS
    Trials,          \* N: PredicateSpec.trials
    Required,        \* K: PredicateSpec.required_reproductions
    OutputLimit,     \* PredicateSpec.output_limit_bytes, in units
    Chunk,           \* units one reader.read() waits for (4096 bytes)
    PipeSize,        \* units a pipe of the operating system holds
    Plans,           \* what the children of a call may do, trial by trial
    Entries,         \* what becomes of the candidate before a child starts
    Faulty,          \* streams whose read may fail with OSError
    MayCancel        \* whether the caller may set cancel_event

ASSUME TrialsAssumption == /\ Trials \in Nat \ {0}
                           /\ Required \in 1..Trials
ASSUME SizesAssumption == /\ OutputLimit \in Nat \ {0}
                          /\ Chunk \in Nat \ {0}
                          /\ PipeSize \in Nat \ {0}

Streams == {1, 2}                       \* stdout and stderr

\* A return code: the four classes the exit protocol tells apart, and death by
\* a signal.  A script may also never end.
Codes == {"exit_0", "exit_1", "exit_2", "unexpected_exit", "signal"}

Scripts == [writes : [Streams -> Nat], end : Codes \union {"hang"}]

ASSUME PlansAssumption == Plans \subseteq [1..Trials -> Scripts]
ASSUME EntriesAssumption ==
    Entries \subseteq {"runs", "invalid", "raises"}
ASSUME FaultyAssumption == Faulty \subseteq Streams /\ MayCancel \in BOOLEAN

Results == {"reproduces", "absent", "invalid"}
Reasons == {"none", "cancelled", "output_limit", "timeout"}

VARIABLES
    plan,            \* the script of each trial (rigid)
    entry,           \* what becomes of the candidate (rigid)
    cancelled,       \* cancel_event is set
    pc,              \* where the main thread is
    attempts,        \* the results of the trials that are over
    report,          \* the result of the whole call, "none" until it returns
    deadline,        \* time.monotonic() >= deadline, in the current trial
    child,           \* "none", "running", a return code
    killing,         \* SIGKILL is on its way to the child's group
    left,            \* units the child has still to write, per stream
    pipe,            \* units in the pipe, per stream
    held,            \* units a drain thread has read and not counted
    drain,           \* "reading", "eof", "failed" or "limit", per stream
    counts,          \* counts[index]
    output_limit,    \* the output_limit event
    reason,          \* the local variable `reason', "none" for None
    retried,         \* the second _terminate has been reached
    mishaps          \* history: what has disturbed the call so far

callVars == <<plan, entry>>
childVars == <<child, left, pipe>>
drainVars == <<held, drain, counts, output_limit>>
vars == <<plan, entry, cancelled, pc, attempts, report, deadline, child,
          killing, left, pipe, held, drain, counts, output_limit, reason,
          retried, mishaps>>

Total(f) == f[1] + f[2]                 \* sum(counts)
Trial == Len(attempts) + 1
Nothing == [s \in Streams |-> 0]
Over == pc \in {"returned", "raised"}

-----------------------------------------------------------------------------
(* The verdict of a trial and of the call.                                 *)

\* The exit protocol: lines 537-553 with the reason already taken into account.
ExitProtocol(code) ==
    CASE code = "exit_0" -> "reproduces"
      [] code = "exit_1" -> "absent"
      [] OTHER -> "invalid"

\* Lines 530-553: whatever the child returned, a reason or too much output wins.
TrialResult(why, code, total) ==
    IF why # "none" \/ total > OutputLimit THEN "invalid" ELSE ExitProtocol(code)

\* A mutant of KOfN: invalid trials are dropped instead of deciding the call.
KOfNLenient(results) ==
    IF Cardinality({t \in DOMAIN results : results[t] = "reproduces"}) >= Required
    THEN "reproduces"
    ELSE IF \E t \in DOMAIN results : results[t] = "invalid" THEN "invalid"
    ELSE "absent"

\* run_predicate, lines 582-590.
KOfN(results) ==
    IF \E t \in DOMAIN results : results[t] = "invalid" THEN "invalid"
    ELSE IF Cardinality({t \in DOMAIN results : results[t] = "reproduces"}) >= Required
    THEN "reproduces"
    ELSE "absent"

-----------------------------------------------------------------------------
(* The child process, as the operating system shows it to the runner.      *)

ChildWrites(s) ==
    /\ child = "running"
    /\ left[s] > 0
    /\ pipe[s] < PipeSize
    /\ left' = [left EXCEPT ![s] = @ - 1]
    /\ pipe' = [pipe EXCEPT ![s] = @ + 1]
    /\ UNCHANGED <<callVars, cancelled, pc, attempts, report, deadline, child,
                   killing, drainVars, reason, retried, mishaps>>

ChildEnds ==
    /\ child = "running"
    /\ left = Nothing
    /\ plan[Trial].end # "hang"
    /\ child' = plan[Trial].end
    /\ UNCHANGED <<callVars, cancelled, pc, attempts, report, deadline,
                   killing, left, pipe, drainVars, reason, retried, mishaps>>

ChildDies ==
    /\ child = "running"
    /\ killing
    /\ child' = "signal"
    /\ UNCHANGED <<callVars, cancelled, pc, attempts, report, deadline,
                   killing, left, pipe, drainVars, reason, retried, mishaps>>

Cancel ==
    /\ MayCancel
    /\ ~cancelled
    /\ cancelled' = TRUE
    /\ mishaps' = mishaps \union {"cancelled"}
    /\ UNCHANGED <<callVars, pc, attempts, report, deadline, childVars,
                   killing, drainVars, reason, retried>>

DeadlinePasses ==
    /\ child # "none"
    /\ ~Over
    /\ ~deadline
    /\ deadline' = TRUE
    /\ mishaps' = mishaps \union {"timeout"}
    /\ UNCHANGED <<callVars, cancelled, pc, attempts, report, childVars,
                   killing, drainVars, reason, retried>>

-----------------------------------------------------------------------------
(* drain: reader.read(4096) gathers a whole chunk, or what is left at the  *)
(* end of the stream, before the thread counts any of it.                  *)

EndOfStream(s) == child \notin {"none", "running"} /\ pipe[s] = 0

\* A mutant of Gather: one thread drains both pipes, stdout to its end first.
GatherInTurn(s) ==
    /\ drain[s] = "reading"
    /\ s = 1 \/ drain[1] # "reading"
    /\ held[s] < Chunk
    /\ pipe[s] > 0
    /\ held' = [held EXCEPT ![s] = @ + 1]
    /\ pipe' = [pipe EXCEPT ![s] = @ - 1]
    /\ UNCHANGED <<callVars, cancelled, pc, attempts, report, deadline, child,
                   left, killing, drain, counts, output_limit, reason,
                   retried, mishaps>>

Gather(s) ==
    /\ drain[s] = "reading"
    /\ held[s] < Chunk
    /\ pipe[s] > 0
    /\ held' = [held EXCEPT ![s] = @ + 1]
    /\ pipe' = [pipe EXCEPT ![s] = @ - 1]
    /\ UNCHANGED <<callVars, cancelled, pc, attempts, report, deadline, child,
                   left, killing, drain, counts, output_limit, reason,
                   retried, mishaps>>

\* A mutant of CountChunk: each stream is held to the limit on its own.
CountChunkAlone(s) ==
    LET counted == [counts EXCEPT ![s] = @ + held[s]]
    IN /\ drain[s] = "reading"
       /\ held[s] > 0
       /\ held[s] = Chunk \/ EndOfStream(s)
       /\ counts' = counted
       /\ held' = [held EXCEPT ![s] = 0]
       /\ output_limit' = (output_limit \/ counted[s] > OutputLimit)
       /\ drain' = [drain EXCEPT ![s] =
                       IF counted[s] > OutputLimit THEN "limit" ELSE @]
       /\ UNCHANGED <<callVars, cancelled, pc, attempts, report, deadline,
                      childVars, killing, reason, retried, mishaps>>

CountChunk(s) ==
    LET counted == [counts EXCEPT ![s] = @ + held[s]]
    IN /\ drain[s] = "reading"
       /\ held[s] > 0
       /\ held[s] = Chunk \/ EndOfStream(s)
       /\ counts' = counted
       /\ held' = [held EXCEPT ![s] = 0]
       /\ output_limit' = (output_limit \/ Total(counted) > OutputLimit)
       /\ drain' = [drain EXCEPT ![s] =
                       IF Total(counted) > OutputLimit THEN "limit" ELSE @]
       /\ UNCHANGED <<callVars, cancelled, pc, attempts, report, deadline,
                      childVars, killing, reason, retried, mishaps>>

DrainEnds(s) ==
    /\ drain[s] = "reading"
    /\ held[s] = 0
    /\ EndOfStream(s)
    /\ drain' = [drain EXCEPT ![s] = "eof"]
    /\ UNCHANGED <<callVars, cancelled, pc, attempts, report, deadline,
                   childVars, killing, held, counts, output_limit, reason,
                   retried, mishaps>>

DrainFails(s) ==
    /\ s \in Faulty
    /\ drain[s] = "reading"
    /\ child # "none"
    /\ drain' = [drain EXCEPT ![s] = "failed"]
    /\ held' = [held EXCEPT ![s] = 0]
    /\ mishaps' = mishaps \union {"late"}
    /\ UNCHANGED <<callVars, cancelled, pc, attempts, report, deadline,
                   childVars, killing, counts, output_limit, reason, retried>>

-----------------------------------------------------------------------------
(* The main thread.                                                        *)

Goto(place) ==
    /\ pc' = place
    /\ UNCHANGED <<callVars, cancelled, attempts, report, deadline, childVars,
                   drainVars, mishaps>>

\* A candidate that carries application_replay metadata, or whose harness is
\* not in its workspace, gets an invalid attempt without a process; one whose
\* workspace takes the runner's own file names, or a process that cannot be
\* started, ends the call with an exception.
Start ==
    /\ pc = "start"
    /\ CASE entry = "runs" ->
              /\ child' = "running"
              /\ left' = plan[Trial].writes
              /\ pc' = "poll"
              /\ UNCHANGED <<attempts, report>>
         [] entry = "invalid" ->
              /\ attempts' = Append(attempts, "invalid")
              /\ pc' = IF Trial = Trials THEN "returned" ELSE "start"
              /\ report' = IF Trial = Trials THEN KOfN(attempts') ELSE report
              /\ UNCHANGED <<child, left>>
         [] entry = "raises" ->
              /\ pc' = "raised"
              /\ UNCHANGED <<attempts, report, child, left>>
    /\ UNCHANGED <<callVars, cancelled, deadline, killing, pipe, drainVars,
                   reason, retried, mishaps>>

Poll ==
    /\ pc = "poll"
    /\ Goto(IF child = "running" THEN "cancel" ELSE "wait")
    /\ UNCHANGED <<killing, reason, retried>>

\* One of the loop's three tests: stop for `why' if `holds', else go on.
Test(place, why, holds, next) ==
    /\ pc = place
    /\ reason' = IF holds THEN why ELSE reason
    /\ Goto(IF holds THEN "terminate" ELSE next)
    /\ UNCHANGED <<killing, retried>>

TestCancel == Test("cancel", "cancelled", cancelled, "limit")
TestLimit == Test("limit", "output_limit", output_limit, "clock")

\* A mutant of TestClock: the deadline is never compared with the clock.
TestClockBlind == Test("clock", "timeout", FALSE, "poll")

TestClock == Test("clock", "timeout", deadline, "poll")

\* _terminate polls before it kills, and the child may end in between.
TerminatePolls ==
    /\ pc = "terminate"
    /\ Goto(IF child = "running" THEN "kill" ELSE "wait")
    /\ UNCHANGED <<killing, reason, retried>>

Kill ==
    /\ pc = "kill"
    /\ killing' = TRUE
    /\ Goto("wait")
    /\ UNCHANGED <<reason, retried>>

WaitReturns ==
    /\ pc = "wait"
    /\ child # "running"
    /\ Goto("join1")
    /\ UNCHANGED <<killing, reason, retried>>

\* A mutant of WaitTimesOut: the second time-out is ignored like the first.
WaitTimesOutQuietly ==
    /\ pc = "wait"
    /\ child = "running"
    /\ retried' = TRUE
    /\ Goto(IF retried THEN "join1" ELSE "terminate")
    /\ UNCHANGED <<killing, reason>>

\* wait(timeout=2) gives up on a child that is still there: once, to kill it
\* again; the second time the exception leaves run_predicate.
WaitTimesOut ==
    /\ pc = "wait"
    /\ child = "running"
    /\ retried' = TRUE
    /\ Goto(IF retried THEN "raised" ELSE "terminate")
    /\ UNCHANGED <<killing, reason>>

AfterJoin(s) == IF s = 1 THEN "join2" ELSE "collect"
JoinPlace(s) == IF s = 1 THEN "join1" ELSE "join2"

JoinReturns(s) ==
    /\ pc = JoinPlace(s)
    /\ drain[s] # "reading"
    /\ Goto(AfterJoin(s))
    /\ UNCHANGED <<killing, reason, retried>>

\* thread.join(timeout=1) gives up on a thread that has not finished.
JoinTimesOut(s) ==
    /\ pc = JoinPlace(s)
    /\ drain[s] = "reading"
    /\ pc' = AfterJoin(s)
    /\ mishaps' = mishaps \union {"late"}
    /\ UNCHANGED <<callVars, cancelled, attempts, report, deadline, childVars,
                   killing, drainVars, reason, retried>>

\* The locals of the next trial.
FreshTrial ==
    /\ deadline' = FALSE
    /\ child' = "none"
    /\ killing' = FALSE
    /\ left' = Nothing
    /\ pipe' = Nothing
    /\ held' = Nothing
    /\ drain' = [s \in Streams |-> "reading"]
    /\ counts' = Nothing
    /\ output_limit' = FALSE
    /\ reason' = "none"
    /\ retried' = FALSE

\* The attempt is recorded; after the last one run_predicate returns.
Collect ==
    /\ pc = "collect"
    /\ LET why == IF output_limit /\ reason = "none" THEN "output_limit" ELSE reason
       IN attempts' = Append(attempts, TrialResult(why, child, Total(counts)))
    /\ IF Trial = Trials
       THEN /\ pc' = "returned"
            /\ report' = KOfN(attempts')
            /\ UNCHANGED <<deadline, childVars, killing, drainVars, reason, retried>>
       ELSE /\ pc' = "start"
            /\ FreshTrial
            /\ UNCHANGED report
    /\ UNCHANGED <<callVars, cancelled, mishaps>>

Finished == Over /\ UNCHANGED vars

-----------------------------------------------------------------------------
Init ==
    /\ plan \in Plans
    /\ entry \in Entries
    /\ cancelled = FALSE
    /\ pc = "start"
    /\ attempts = <<>>
    /\ report = "none"
    /\ deadline = FALSE
    /\ child = "none"
    /\ killing = FALSE
    /\ left = Nothing
    /\ pipe = Nothing
    /\ held = Nothing
    /\ drain = [s \in Streams |-> "reading"]
    /\ counts = Nothing
    /\ output_limit = FALSE
    /\ reason = "none"
    /\ retried = FALSE
    /\ mishaps = {}

ChildStep == ChildEnds \/ \E s \in Streams : ChildWrites(s)
DrainStep(s) == Gather(s) \/ CountChunk(s) \/ DrainEnds(s)
MainStep ==
    \/ Start \/ Poll \/ TestCancel \/ TestLimit \/ TestClock
    \/ TerminatePolls \/ Kill \/ WaitReturns \/ Collect
    \/ \E s \in Streams : JoinReturns(s)
TimeOut == WaitTimesOut \/ \E s \in Streams : JoinTimesOut(s)

Next ==
    \/ ChildStep \/ ChildDies \/ Cancel \/ DeadlinePasses
    \/ \E s \in Streams : DrainStep(s) \/ DrainFails(s)
    \/ MainStep \/ TimeOut
    \/ Finished

Spec == Init /\ [][Next]_vars

\* The threads of the runner and the child are scheduled; a blocked wait or
\* join ends because it has a time-out or because the other side gets there.
\* Nothing is assumed of the clock: the deadline may be an hour away.
FairSpec ==
    /\ Spec
    /\ WF_vars(MainStep \/ TimeOut)
    /\ \A s \in Streams : WF_vars(DrainStep(s)) /\ WF_vars(ChildWrites(s))
    /\ WF_vars(ChildEnds)

-----------------------------------------------------------------------------
(* Properties.                                                             *)

Mishaps == {"cancelled", "timeout", "late"}
Overflows(t) == Total(plan[t].writes) > OutputLimit

\* Types, and what a recorded attempt may be.
TypeOK ==
    /\ plan \in Plans
    /\ entry \in Entries
    /\ cancelled \in BOOLEAN
    /\ pc \in {"start", "poll", "cancel", "limit", "clock", "terminate", "kill",
               "wait", "join1", "join2", "collect", "returned", "raised"}
    /\ attempts \in Seq(Results)
    /\ report \in Results \union {"none"}
    /\ deadline \in BOOLEAN
    /\ child \in Codes \union {"none", "running"}
    /\ killing \in BOOLEAN
    /\ left \in [Streams -> Nat]
    /\ pipe \in [Streams -> 0..PipeSize]
    /\ held \in [Streams -> 0..Chunk]
    /\ drain \in [Streams -> {"reading", "eof", "failed", "limit"}]
    /\ counts \in [Streams -> Nat]
    /\ output_limit \in BOOLEAN
    /\ reason \in Reasons
    /\ retried \in BOOLEAN
    /\ mishaps \subseteq Mishaps

Promise == INSTANCE Verdicts WITH
    verdicts <- [t \in 1..Trials |->
                    IF entry = "runs" THEN ExitProtocol(plan[t].end) ELSE "invalid"],
    floods <- {t \in 1..Trials : entry = "runs" /\ Overflows(t)},
    stopped <- mishaps \intersect {"cancelled", "timeout"} # {},
    unread <- "late" \in mishaps,
    results <- attempts,
    answer <- report

\* run_predicate keeps the promise of the predicate protocol: however the
\* child's end, the kill, the cancellation, the output and the deadline race,
\* no trial is recorded as anything but the end of its child, or as invalid
\* when something disturbed it, and the attempts decide the report.
ImplementsVerdicts == Promise!Spec

\* No child of the call outlives its trial, so that none is still at work in a
\* workspace that is deleted, unless the call ends with an exception because
\* the child survived two kills.
NoChildIsLeft ==
    pc \in {"start", "join1", "join2", "collect", "returned"} => child # "running"

\* Once the deadline of a trial has passed the trial ends, whatever the child
\* does: the time-outs of wait and join and the two kills leave nothing that it
\* could wait for.
Past(t) == Over \/ Trial > t
DeadlineEndsTrial ==
    \A t \in 1..Trials : (deadline /\ Trial = t) ~> Past(t)

\* Without the clock, calls end too.  Children that end by themselves and write
\* no more than the limit are never blocked on a full pipe, and the call
\* returns; a child that has written so much that the drain threads must count
\* more than the limit is stopped, even if it hangs.
Tame == entry = "runs" /\ \A t \in 1..Trials :
            plan[t].end # "hang" /\ ~Overflows(t)
Flooding == /\ child = "running"
            /\ Total(plan[Trial].writes) - Total(left)
                  > OutputLimit + 2 * (Chunk - 1)
EndsWithoutTheClock ==
    /\ (Tame /\ pc = "start") ~> (Over \/ "late" \in mishaps)
    /\ \A t \in 1..Trials :
          (Flooding /\ Trial = t) ~> (Past(t) \/ "late" \in mishaps)
=============================================================================

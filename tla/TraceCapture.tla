------------------------------ MODULE TraceCapture ------------------------------
(***************************************************************************)
(* The capture of one traced run: ReproSieveTraceProcessor                 *)
(* (adapters/openai_agents.py) in the traced process.  CaptureCommand.tla  *)
(* composes it with the command that starts that process.                  *)
(*                                                                         *)
(* The SDK calls the processor from any thread, in any order, before and   *)
(* after shutdown; each callback holds the processor's lock, so that it is *)
(* one step, but for the writing of the file, which the parent or a crash  *)
(* may cut off.  Payloads are left out: of a span's data the kind is kept, *)
(* of a declared file its name and its size.                               *)
(***************************************************************************)
EXTENDS Capsules, TLC

CONSTANTS
    Trace,      \* the traces of the target process
    MaxEvents,  \* max_events
    MaxBytes,   \* max_workspace_bytes
    Disks,      \* what the declared files may be when a trace ends: functions
                \* from names to sizes, without what is no text
    MaxStarts,  \* bound: the spans that start, in all traces together
    EventIds    \* the IDs of events by number, f"e{number:06d}"

ASSUME LimitsAssumption ==
    MaxEvents \in Nat \ {0} /\ MaxBytes \in Nat /\ MaxStarts \in Nat
ASSUME DisksAssumption == \A disk \in Disks : \A name \in DOMAIN disk : disk[name] \in Nat
ASSUME EventIdsAssumption ==
    /\ DOMAIN EventIds = 0..2 * MaxStarts
    /\ IsInjective(EventIds) /\ None \notin Range(EventIds)

\* The SDK gives every span an ID of its own; here they are numbers in the
\* order of the starts.  NoSpan stands for no parent, and for the run.
Span == 1..MaxStarts
NoSpan == 0
SpanKinds == {"generation", "function", "turn"}

VARIABLES
    request,    \* the arguments of the capture: files and names are what it
                \* declares of the workspace and of the environment (rigid)
    traces,     \* _traces: the open traces with their spans in start order
    completed,  \* _completed
    failure,    \* _failure_reason is not None
    closed,     \* _closed
    writing,    \* shutdown is in write_capsule, with the lock
    file,       \* the output file: "absent", "partial" or "whole"
    author,     \* who has created that file
    alive,      \* the process runs
    starts,     \* how many spans have started
    told,       \* history: what callbacks said of each span until shutdown
    refused     \* history: some callback until shutdown was not in order

processor == <<traces, completed, failure, closed, writing, starts, told, refused>>
output == <<file, author>>

\* A mapping with one entry set.
With(mapping, key, value) ==
    [k \in DOMAIN mapping \union {key} |-> IF k = key THEN value ELSE mapping[k]]

-------------------------------------------------------------------------------
(* From spans to a capsule.                                                  *)

EventId(n) == EventIds[n]

NewEvent(n, kind, parent, deps, span) ==
    [id |-> EventId(n), kind |-> kind, parent |-> parent, seq |-> n,
     deps |-> deps, payload |-> span]

\* The tail of a span is its last event, to which its children are attached;
\* the track of a scope (a span's children, or the spans at the root) holds
\* the last model response and the last tool result in it.
Blank ==
    [ok |-> TRUE,
     events |-> <<NewEvent(0, "run", None, {}, NoSpan)>>,
     tail |-> [span \in {NoSpan} |-> EventId(0)],
     track |-> [scope \in Span \union {NoSpan} |-> [response |-> {}, result |-> {}]]]

\* The events of a span from number n on: a pair, the second depending on the
\* first, or one event.
SpanEvents(n, span, parent, track) ==
    LET Pair(call, result, deps) ==
            <<NewEvent(n, call, parent, deps, span.id),
              NewEvent(n + 1, result, parent, {EventId(n)}, span.id)>>
    IN CASE span.data = "generation" -> Pair("model_request", "model_response", track.result)
         [] span.data = "function" -> Pair("tool_call", "tool_result", track.response)
         [] OTHER -> <<NewEvent(n, "message", parent, {}, span.id)>>

Placed(built, span) == span.data # None /\ span.parent \in DOMAIN built.tail

AddSpan(built, span) ==
    IF ~(built.ok /\ Placed(built, span)) THEN [built EXCEPT !.ok = FALSE]
    ELSE LET n == Len(built.events)
             new == SpanEvents(n, span, built.tail[span.parent], built.track[span.parent])
             last == EventId(n + Len(new) - 1)
         IN [ok |-> TRUE,
             events |-> built.events \o new,
             tail |-> With(built.tail, span.id, last),
             track |-> [built.track EXCEPT ![span.parent] =
                 [response |-> IF span.data = "generation" THEN {last} ELSE @.response,
                  result |-> IF span.data = "function" THEN {last} ELSE @.result]]]

Build(spans) ==
    LET upto[n \in 0..Len(spans)] ==
          IF n = 0 THEN Blank ELSE AddSpan(upto[n - 1], spans[n])
    IN upto[Len(spans)]

-------------------------------------------------------------------------------
(* The callbacks.                                                            *)

Callback == alive /\ ~writing

Tell(key, data) ==
    told' = IF closed \/ refused THEN told ELSE With(told, key, data)

\* _fail.  The history ends with a failure before shutdown.
Fail ==
    /\ failure' = TRUE
    /\ refused' = (refused \/ ~closed)
    /\ told' = IF closed THEN told ELSE <<>>

Has(trace, span) ==
    /\ trace \in DOMAIN traces
    /\ \E i \in DOMAIN traces[trace].spans : traces[trace].spans[i].id = span

\* A callback without IDs or with data that cannot be taken in, the start of a
\* trace that has started, or an event of a trace that has not.
OutOfOrder ==
    /\ Callback
    /\ Fail
    /\ UNCHANGED <<traces, completed, closed, starts, writing, output, alive, request>>

\* A callback about an open trace with a span that has started, or has not, or
\* with data that cannot be taken in.
FailTrace(trace) ==
    /\ Callback
    /\ trace \in DOMAIN traces
    /\ Fail
    /\ traces' = [traces EXCEPT ![trace].failed = TRUE]
    /\ UNCHANGED <<completed, closed, starts, writing, output, alive, request>>

OnTraceStart(trace) ==
    /\ Callback
    /\ trace \notin DOMAIN traces
    /\ traces' = With(traces, trace, [spans |-> <<>>, failed |-> FALSE])
    /\ Tell(<<trace, NoSpan>>, None)
    /\ UNCHANGED <<completed, failure, closed, starts, writing, refused, output, alive, request>>

\* A mutant of OverBudget: the span that starts is not counted.
OverBudgetBefore(started) == (started - 1) * 2 + 1 > MaxEvents

OverBudget(started) == started * 2 + 1 > MaxEvents

OnSpanStart(trace, parent) ==
    /\ Callback
    /\ trace \in DOMAIN traces
    /\ starts < MaxStarts
    /\ starts' = starts + 1
    /\ LET spans == Append(traces[trace].spans,
                           [id |-> starts', parent |-> parent, data |-> None])
       IN /\ traces' = [traces EXCEPT ![trace] =
                [spans |-> spans, failed |-> @.failed \/ OverBudget(Len(spans))]]
          /\ IF OverBudget(Len(spans)) THEN Fail
             ELSE Tell(<<trace, starts'>>, None) /\ UNCHANGED <<failure, refused>>
    /\ UNCHANGED <<completed, closed, writing, output, alive, request>>

\* The data of a span that ends more than once are the last ones.
OnSpanEnd(trace, span, data) ==
    /\ Callback
    /\ Has(trace, span)
    /\ traces' = [traces EXCEPT ![trace].spans =
           [i \in DOMAIN @ |-> IF @[i].id = span THEN [@[i] EXCEPT !.data = data] ELSE @[i]]]
    /\ Tell(<<trace, span>>, data)
    /\ UNCHANGED <<completed, failure, closed, starts, writing, refused, output, alive, request>>

\* What is replaced in a name is replaced by a digest of the whole of it.
SafeName(name) ==
    IF name.secret
    THEN [word |-> "digest-" \o name.word \o ToString(name.upper), upper |-> FALSE, secret |-> FALSE]
    ELSE name

\* _capture_workspace, one declared file: each is read with what the earlier
\* ones have left of the limit.
AddFile(disk, captured, name) ==
    LET safe == SafeName(name)
    IN IF /\ captured.ok /\ name \in DOMAIN disk
          /\ captured.total + disk[name] <= MaxBytes
          /\ safe \notin DOMAIN captured.files
       THEN [ok |-> TRUE, total |-> captured.total + disk[name],
             files |-> With(captured.files, safe, disk[name])]
       ELSE [captured EXCEPT !.ok = FALSE]

Workspace(disk) ==
    LET upto[n \in 0..Len(request.files)] ==
          IF n = 0 THEN [ok |-> TRUE, total |-> 0, files |-> <<>>]
          ELSE AddFile(disk, upto[n - 1], request.files[n])
    IN upto[Len(request.files)]

\* _capture_environment: of the names that are set, each under a safe name.
Environment == {SafeName(name) : name \in Range(request.names)}

\* What validate_capsule requires of names: no two files are one on a file
\* system that folds cases.
Portable(names) == \A a, b \in names : a.word = b.word => a = b

\* A mutant of Completes: an earlier capsule is replaced.
CompletesAgain(trace, workspace) ==
    /\ ~traces[trace].failed
    /\ workspace.ok /\ Portable(DOMAIN workspace.files)
    /\ Build(traces[trace].spans).ok

Completes(trace, workspace) ==
    /\ ~traces[trace].failed
    /\ completed = <<>>
    /\ workspace.ok /\ Portable(DOMAIN workspace.files)
    /\ Build(traces[trace].spans).ok

\* The trace is closed: it becomes the completed capsule, or it had failed, or
\* it fails now, taking the completed one with it if there is one.
OnTraceEnd(trace) ==
    /\ Callback
    /\ trace \in DOMAIN traces
    /\ traces' = Restrict(traces, DOMAIN traces \ {trace})
    /\ \/ \E workspace \in {Workspace(disk) : disk \in Disks} :
             /\ Completes(trace, workspace)
             /\ completed' = <<[trace |-> trace,
                                events |-> Build(traces[trace].spans).events,
                                workspace |-> workspace.files,
                                environment |-> Environment]>>
             /\ UNCHANGED <<failure, refused, told>>
       \/ /\ traces[trace].failed
          /\ UNCHANGED <<completed, failure, refused, told>>
       \/ /\ ~traces[trace].failed
          /\ completed' = <<>>
          /\ Fail
    /\ UNCHANGED <<closed, starts, writing, output, alive, request>>

\* A mutant of Publishable: a failure that has cleared nothing does not matter.
PublishableAnyway == DOMAIN traces = {} /\ Len(completed) = 1

Publishable == ~failure /\ DOMAIN traces = {} /\ Len(completed) = 1

\* The first call of shutdown, up to the writing.
Shutdown ==
    /\ Callback
    /\ ~closed
    /\ closed' = TRUE
    /\ writing' = Publishable
    /\ LET incomplete == DOMAIN traces # {}
           none == ~failure /\ Len(completed) # 1
       IN /\ failure' = (failure \/ incomplete \/ none)
          /\ completed' = IF incomplete \/ none THEN <<>> ELSE completed
          /\ traces' = <<>>
    /\ UNCHANGED <<starts, output, alive, request, told, refused>>

\* A mutant of Creatable: the file is opened in mode "wb".
CreatableAnyway == TRUE

\* ensure_new_path, and mode "xb".
Creatable == file = "absent"

\* write_capsule: the file is opened, then written.
OpenFile ==
    /\ alive
    /\ writing
    /\ author # "first"
    /\ Creatable
    /\ file' = "partial"
    /\ author' = "first"
    /\ UNCHANGED <<processor, alive, request>>

WriteFile ==
    /\ alive
    /\ writing
    /\ author = "first"
    /\ file' = "whole"
    /\ writing' = FALSE
    /\ UNCHANGED <<traces, completed, failure, closed, starts, told, refused, author, alive,
                   request>>

WriteFails ==
    /\ alive
    /\ writing
    /\ writing' = FALSE
    /\ failure' = TRUE
    /\ completed' = <<>>
    /\ UNCHANGED <<traces, closed, starts, told, refused, output, alive, request>>

-------------------------------------------------------------------------------
\* The process ends, at any time, and its memory goes with it.
Die ==
    /\ alive' = FALSE
    /\ traces' = <<>>
    /\ completed' = <<>>
    /\ writing' = FALSE
    /\ told' = <<>>
    /\ UNCHANGED <<failure, closed, starts, refused, output, request>>

Start ==
    /\ traces = <<>>
    /\ completed = <<>>
    /\ failure = FALSE
    /\ closed = FALSE
    /\ writing = FALSE
    /\ starts = 0
    /\ told = <<>>
    /\ refused = FALSE

ProcessorStep ==
    \/ OutOfOrder
    \/ \E trace \in Trace :
          \/ OnTraceStart(trace)
          \/ OnTraceEnd(trace)
          \/ FailTrace(trace)
          \/ \E parent \in Span \union {NoSpan} : OnSpanStart(trace, parent)
          \/ \E span \in Span, data \in SpanKinds : OnSpanEnd(trace, span, data)
    \/ Shutdown
    \/ OpenFile
    \/ WriteFile
    \/ WriteFails

-------------------------------------------------------------------------------
(* What a capsule should be.                                                 *)

\* The kinds of events that stand for a span of each kind.
KindsOf(data) ==
    CASE data = "generation" -> <<"model_request", "model_response">>
      [] data = "function" -> <<"tool_call", "tool_result">>
      [] data = "turn" -> <<"message">>

\* A span is shown by its events and no others, one after the other.
SpanIsShown(events, span, kinds) ==
    \E at \in DOMAIN events :
        /\ {i \in DOMAIN events : events[i].payload = span} = at..(at + Len(kinds) - 1)
        /\ \A i \in DOMAIN kinds : events[at + i - 1].kind = kinds[i]

\* The capsule shows exactly what callbacks said until shutdown: one trace, and
\* each of its spans with its last data.
ShowsAll(capsule) ==
    /\ \A key \in DOMAIN told : key[1] = capsule.trace
    /\ {e.payload : e \in Range(capsule.events)} = {key[2] : key \in DOMAIN told}
    /\ \A key \in DOMAIN told : key[2] # NoSpan =>
          /\ told[key] # None
          /\ SpanIsShown(capsule.events, key[2], KindsOf(told[key]))

\* A valid capsule of at most max_events events, in which an event depends on
\* events of its own span or of an earlier one with the same parent.
WellBuilt(capsule) ==
    /\ Valid(capsule)
    /\ Len(capsule.events) <= MaxEvents
    /\ \A e \in Range(capsule.events) :
          e.deps \subseteq {f.id : f \in {g \in Range(capsule.events) :
                                            g.parent = e.parent /\ g.seq < e.seq}}

\* Every declared file, with no name that holds a secret, within the limit.
HasTheFiles(capsule) ==
    LET names == DOMAIN capsule.workspace
        total[n \in 0..Len(request.files)] ==
            IF n = 0 THEN 0 ELSE total[n - 1] + capsule.workspace[SafeName(request.files[n])]
    IN /\ names = {SafeName(name) : name \in Range(request.files)}
       /\ Cardinality({name.word : name \in names}) = Len(request.files)
       /\ \A name \in names \union capsule.environment : ~name.secret
       /\ total[Len(request.files)] <= MaxBytes
===============================================================================

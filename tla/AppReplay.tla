------------------------------- MODULE AppReplay -------------------------------
(***************************************************************************)
(* One application captured and then rerun from its recording              *)
(* (adapters/openai_agents_replay.py): OpenAIAgentsCaptureSession records   *)
(* every model and tool interaction as an event, and                       *)
(* OpenAIAgentsReplaySession answers the rerun from the events in their    *)
(* order, or finds that the rerun departs from them.  ToolClaims models    *)
(* what the sessions do to the caller's own tools.                         *)
(*                                                                         *)
(* The application callback, the live model, the tools and the SDK's       *)
(* Runner are external.  The Runner asks the model, makes the calls of the *)
(* answer, all of them at once, asks again, and returns when an answer     *)
(* makes no call.  The callback may do anything with the session it is     *)
(* given, in the rerun something else than in the capture.  A request, and  *)
(* a tool name with its arguments, is one value.                           *)
(***************************************************************************)
EXTENDS Payloads, SequencesExt

CONSTANTS
    Asks,         \* the requests an application may send
    Shape,        \* what they consist of (Payloads)
    Calls,        \* the tool calls a model may ask for
    Secrets,      \* the asks and calls with a secret in them
    Masked,       \* what redaction leaves of them
    MaxCalls,     \* the most calls in one answer of the model
    MaxTurns,     \* the largest max_turns a callback passes to run
    MaxEvents,    \* bound: the longest recording looked at
    Callbacks     \* whether the callback swallows exceptions

ASSUME NamesAssumption ==
    /\ Secrets \subseteq Asks \union Calls
    /\ Masked \notin Asks \union Calls
    /\ DOMAIN Shape = Asks
ASSUME BoundsAssumption ==
    MaxCalls \in Nat /\ MaxTurns \in Nat /\ MaxEvents \in Nat
ASSUME CallbacksAssumption == Callbacks \subseteq BOOLEAN

VARIABLES
    swallows,     \* the callback handles exceptions and goes on (rigid)
    phase,        \* which execute is running, and how it ended
    runner,       \* where the session's one Runner invocation is
    turns,        \* how often it may still ask the model
    calls,        \* the calls of the model's last answer
    waiting,      \* those the Runner has not made yet
    inFlight,     \* those that have not returned, with their events
    events,       \* the events after the run event
    lastResponse, \* _last_model_response, 0 for None
    lastResult,   \* _last_tool_result
    redacted,     \* replacements > 0
    cursor,       \* the events consumed
    deferred,     \* _deferred is not None
    attempted,    \* original_tool_calls > 0 or provider.attempts > 0
    made,         \* history: what the rerun asked of model and tools
    departed      \* history: the rerun did something the capture had not

captureVars == <<events, lastResponse, lastResult, redacted>>
replayVars == <<cursor, deferred, attempted, made, departed>>
runnerVars == <<runner, turns, calls, waiting, inFlight>>
vars == <<swallows, phase, runnerVars, captureVars, replayVars>>

Capturing == phase = "capturing"
Replaying == phase = "replaying"

\* The callback has control: it has not called run, or run is over.
InCallback == runner \in {"none", "returned", "raised"}

Event(kind, value, deps) == [kind |-> kind, value |-> value, deps |-> deps]
CallKinds == {"model_request", "tool_call"}

\* The events of some kinds, in their order.
OfKind(asked, kinds) ==
    LET upto[n \in 0..Len(asked)] ==
          IF n = 0 THEN <<>>
          ELSE IF asked[n].kind \in kinds THEN Append(upto[n - 1], asked[n])
          ELSE upto[n - 1]
    IN upto[Len(asked)]

RecordedCalls == OfKind(events, CallKinds)
Same(left, right) == left.kind = right.kind /\ left.value = right.value

\* An exception reaches the callback: it leaves execute, or is swallowed.
Broken == IF Capturing THEN "abandoned" ELSE "failed"
Raised == phase' \in IF swallows THEN {phase, Broken} ELSE {Broken}

-------------------------------------------------------------------------------
(* Capture.                                                                  *)

Redact(value) ==
    IF value \in Secrets
       \/ (value \in Asks /\ RequestKeys(Shape[value]) \intersect SecretKeys # {})
    THEN Masked ELSE value
RedactAll(values) == [i \in DOMAIN values |-> Redact(values[i])]

Dependency(position) == IF position = 0 THEN {} ELSE {position}

\* _add_event, with the payload already redacted and `changed' saying whether
\* redaction replaced anything.
Record(kind, value, deps) ==
    /\ events' = Append(events, Event(kind, value, deps))
    /\ redacted' = (redacted \/ value = Masked)

Room == Len(events) + 2 <= MaxEvents

CaptureRequest(ask) ==
    /\ Capturing
    /\ runner = "model"
    /\ turns > 0
    /\ SupportedRequest(Shape[ask])
    /\ Room
    /\ Record("model_request", Redact(ask), Dependency(lastResult))
    /\ runner' = "answering"
    /\ turns' = turns - 1
    /\ UNCHANGED <<swallows, phase, calls, waiting, inFlight, lastResponse,
                   lastResult, replayVars>>

\* The live model answers: a message, or calls.
CaptureResponse(answer) ==
    /\ Capturing
    /\ runner = "answering"
    /\ events' = Append(events, Event("model_response", RedactAll(answer),
                                      {Len(events)}))
    /\ redacted' = (redacted \/ RedactAll(answer) # answer
                             \/ UsageKeys \intersect SecretKeys # {})
    /\ lastResponse' = Len(events')
    /\ calls' = answer
    /\ waiting' = DOMAIN answer
    /\ runner' = IF answer = <<>> THEN "returned" ELSE "tools"
    /\ UNCHANGED <<swallows, phase, turns, inFlight, lastResult, replayVars>>

\* The part of a captured tool call before its await, and the part after it.
BeginCall(i) ==
    /\ Capturing
    /\ runner = "tools"
    /\ i \in waiting
    /\ Room
    /\ Record("tool_call", Redact(calls[i]), Dependency(lastResponse))
    /\ inFlight' = inFlight \union {[call |-> calls[i], event |-> Len(events')]}
    /\ waiting' = waiting \ {i}
    /\ UNCHANGED <<swallows, phase, runner, turns, calls, lastResponse,
                   lastResult, replayVars>>

\* A mutant of Result: a result is attached to the last event, as if no other
\* call had begun in the meantime.
ResultOfLast(f) == Record("tool_result", Redact(f.call), {Len(events)})

Result(f) == Record("tool_result", Redact(f.call), {f.event})

EndCall(f) ==
    /\ Capturing
    /\ f \in inFlight
    /\ Result(f)
    /\ lastResult' = Len(events')
    /\ inFlight' = inFlight \ {f}
    /\ runner' = IF runner = "tools" /\ inFlight' = {} /\ waiting = {}
                 THEN "model" ELSE runner
    /\ UNCHANGED <<swallows, phase, turns, calls, waiting, lastResponse,
                   replayVars>>

\* A request that is not supported raises before it is recorded, or compared with
\* the recording; an answer that is not, when its request has been recorded.
RequestRefused(ask) ==
    /\ Capturing \/ Replaying
    /\ runner = "model"
    /\ turns > 0
    /\ ~SupportedRequest(Shape[ask])
    /\ runner' = "raised"
    /\ turns' = turns - 1
    /\ Raised
    /\ departed' = (departed \/ Replaying)
    /\ UNCHANGED <<swallows, calls, waiting, inFlight, captureVars, cursor, deferred,
                   attempted, made>>

ResponseRefused(response) ==
    /\ Capturing
    /\ runner = "answering"
    /\ ~SupportedResponse(response)
    /\ runner' = "raised"
    /\ Raised
    /\ UNCHANGED <<swallows, turns, calls, waiting, inFlight, captureVars, replayVars>>

\* The live model or a tool raises, or the turns are used up: run raises.  The
\* other calls in flight are cancelled or go on.
CaptureRaises ==
    /\ Capturing
    /\ \/ runner = "answering" /\ UNCHANGED inFlight
       \/ runner = "model" /\ turns = 0 /\ UNCHANGED inFlight
       \/ /\ runner = "tools"
          /\ \E f \in inFlight : inFlight' \in SUBSET (inFlight \ {f})
    /\ runner' = "raised"
    /\ waiting' = {}
    /\ Raised
    /\ UNCHANGED <<swallows, turns, calls, captureVars, replayVars>>

\* The callback calls a wrapper itself, outside the Runner.
CaptureDirectCall(call) ==
    /\ Capturing
    /\ InCallback
    /\ Room
    /\ events' = events \o
          <<Event("tool_call", Redact(call), Dependency(lastResponse)),
            Event("tool_result", Redact(call), {Len(events) + 1})>>
    /\ redacted' = (redacted \/ Redact(call) # call)
    /\ lastResult' = Len(events')
    /\ UNCHANGED <<swallows, phase, runnerVars, lastResponse, replayVars>>

\* The callback returns.  Its result is redacted too; the capsule is eligible
\* for replay only if redaction changed nothing, and is not replayed otherwise.
CaptureEnds ==
    /\ Capturing
    /\ InCallback
    /\ \E changed \in BOOLEAN :
          LET recorded == \E i \in DOMAIN events : events[i].kind = "model_request"
              eligible == ~redacted /\ ~changed
          IN phase' = IF ~recorded THEN "abandoned"
                      ELSE IF eligible THEN "captured" ELSE "ineligible"
    /\ UNCHANGED <<swallows, runnerVars, captureVars, replayVars>>

-------------------------------------------------------------------------------
(* Replay.                                                                   *)

\* A replay session is built over the recording and executes.
BeginReplay ==
    /\ phase = "captured"
    /\ Len(events) >= 2
    /\ phase' = "replaying"
    /\ runner' = "none"
    /\ turns' = 0
    /\ calls' = <<>>
    /\ waiting' = {}
    /\ inFlight' = {}
    /\ UNCHANGED <<swallows, captureVars, replayVars>>

\* The callback calls run, which it can do once; a second call raises.  An agent
\* that is not the session's raises too, and does not count.
RunRefused(agent) ==
    /\ Capturing \/ Replaying
    /\ runner = "none"
    /\ ~ValidAgent(agent)
    /\ Raised
    /\ departed' = (departed \/ Replaying)
    /\ UNCHANGED <<swallows, runnerVars, captureVars, cursor, deferred,
                   attempted, made>>

Run(max_turns) ==
    /\ Capturing \/ Replaying
    /\ runner = "none"
    /\ runner' = "model"
    /\ turns' = max_turns
    /\ UNCHANGED <<swallows, phase, calls, waiting, inFlight,
                   captureVars, replayVars>>

RunAgain ==
    /\ Capturing \/ Replaying
    /\ runner \in {"returned", "raised"}
    /\ Raised
    /\ departed' = (departed \/ Replaying)
    /\ UNCHANGED <<swallows, runnerVars, captureVars, cursor, deferred,
                   attempted, made>>

\* The pair of events at the cursor is a call and its result.
PairAt(kind, result) ==
    /\ cursor + 2 <= Len(events)
    /\ events[cursor + 1].kind = kind
    /\ events[cursor + 2].kind = result

Matches(call) ==
    IF call.kind = "model_request"
    THEN /\ PairAt("model_request", "model_response")
         /\ events[cursor + 1].value = call.value
    ELSE /\ PairAt("tool_call", "tool_result")
         /\ events[cursor + 1].value = call.value
         /\ events[cursor + 2].value = call.value

Made(call) ==
    /\ made' = Append(made, call)
    /\ departed' = \/ departed
                   \/ Len(made) >= Len(RecordedCalls)
                   \/ ~Same(RecordedCalls[Len(made) + 1], call)

\* A mutant of Answerable: the cursor is read before it has moved.
AnswerableStale(answer) ==
    /\ Len(answer) <= 1
    /\ Len(answer) = 1 =>
          Same(events[cursor + 1], Event("tool_call", answer[1], {}))

\* The answer of the pair just consumed can be given: it makes at most one
\* call, and that call is the event that follows.
Answerable(answer) ==
    LET next == cursor + 3
    IN /\ Len(answer) <= 1
       /\ Len(answer) = 1 =>
             /\ next <= Len(events)
             /\ Same(events[next], Event("tool_call", answer[1], {}))

\* The Runner asks the recorded model and gets the recorded answer.
ReplayRequest(ask) ==
    LET request == Event("model_request", ask, {})
    IN /\ Replaying
       /\ runner = "model"
       /\ turns > 0
       /\ SupportedRequest(Shape[ask])
       /\ ~deferred
       /\ Matches(request)
       /\ cursor' = cursor + 2
       /\ Made(request)
       /\ turns' = turns - 1
       /\ LET answer == events[cursor + 2].value
          IN IF Answerable(answer) /\ UsageIsRead(UsageKeys)
             THEN /\ calls' = answer
                  /\ waiting' = DOMAIN answer
                  /\ runner' = IF answer = <<>> THEN "returned" ELSE "tools"
                  /\ UNCHANGED phase
             ELSE /\ runner' = "raised"
                  /\ Raised
                  /\ UNCHANGED <<calls, waiting>>
       /\ UNCHANGED <<swallows, inFlight, captureVars, deferred, attempted>>

\* ... or an exception: a divergence was deferred, or this is one.
ReplayRequestRaises(ask) ==
    LET request == Event("model_request", ask, {})
    IN /\ Replaying
       /\ runner = "model"
       /\ turns > 0
       /\ SupportedRequest(Shape[ask])
       /\ deferred \/ ~Matches(request)
       /\ Made(request)
       /\ turns' = turns - 1
       /\ runner' = "raised"
       /\ Raised
       /\ UNCHANGED <<swallows, calls, waiting, inFlight, captureVars, cursor,
                      deferred, attempted>>

ReplayTurnsUsedUp ==
    /\ Replaying
    /\ runner = "model"
    /\ turns = 0
    /\ runner' = "raised"
    /\ Raised
    /\ departed' = (departed \/ Len(made) < Len(RecordedCalls))
    /\ UNCHANGED <<swallows, turns, calls, waiting, inFlight, captureVars,
                   cursor, deferred, attempted, made>>

\* A mutant of Consume: a departing tool call is answered and forgotten.
ConsumeForgiving(call) ==
    /\ Made(call)
    /\ cursor' = IF Matches(call) THEN cursor + 2 ELSE cursor
    /\ UNCHANGED deferred

\* A tool wrapper is invoked: it gives the recorded result, or None and a
\* deferred divergence.
Consume(call) ==
    /\ Made(call)
    /\ cursor' = IF Matches(call) THEN cursor + 2 ELSE cursor
    /\ deferred' = (deferred \/ ~Matches(call))

ReplayCall(i) ==
    /\ Replaying
    /\ runner = "tools"
    /\ i \in waiting
    /\ Consume(Event("tool_call", calls[i], {}))
    /\ waiting' = waiting \ {i}
    /\ runner' = IF waiting' = {} THEN "model" ELSE runner
    /\ UNCHANGED <<swallows, phase, turns, calls, inFlight, captureVars, attempted>>

\* Bound: outside the Runner a rerun makes one call more than were recorded.
ReplayDirectCall(call) ==
    /\ Replaying
    /\ InCallback
    /\ Len(made) <= Len(RecordedCalls)
    /\ Consume(Event("tool_call", call, {}))
    /\ UNCHANGED <<swallows, phase, runnerVars, captureVars, attempted>>

\* The callback reaches an original tool's canary or the provider's.
LiveAttempt ==
    /\ Replaying
    /\ InCallback
    /\ attempted' = TRUE
    /\ departed' = TRUE
    /\ Raised
    /\ UNCHANGED <<swallows, runnerVars, captureVars, cursor, deferred, made>>

\* A mutant of Accepted: the rest of the recording is not asked for.
AcceptedEarly == ~deferred /\ ~attempted /\ runner # "none"

\* The tests of execute after the callback has returned.
Accepted ==
    /\ ~deferred
    /\ ~attempted
    /\ runner # "none"
    /\ cursor = Len(events)

\* The callback returns.  run itself raises a deferred divergence, which a
\* callback may swallow; execute raises it again.
ReplayEnds ==
    /\ Replaying
    /\ InCallback
    /\ phase' = IF Accepted THEN "reported" ELSE "failed"
    /\ departed' = (departed \/ Len(made) < Len(RecordedCalls) \/ runner = "none")
    /\ UNCHANGED <<swallows, runnerVars, captureVars, cursor, deferred,
                   attempted, made>>

-------------------------------------------------------------------------------
Init ==
    /\ swallows \in Callbacks
    /\ phase = "capturing"
    /\ runner = "none"
    /\ turns = 0
    /\ calls = <<>>
    /\ waiting = {}
    /\ inFlight = {}
    /\ events = <<>>
    /\ lastResponse = 0
    /\ lastResult = 0
    /\ redacted = FALSE
    /\ cursor = 0
    /\ deferred = FALSE
    /\ attempted = FALSE
    /\ made = <<>>
    /\ departed = FALSE

Answers == BoundedSeq(Calls, MaxCalls)

CaptureStep ==
    \/ \E ask \in Asks : CaptureRequest(ask)
    \/ \E response \in Responses : ResponseRefused(response)
    \/ \E answer \in Answers : CaptureResponse(answer)
    \/ \E i \in waiting : BeginCall(i)
    \/ \E f \in inFlight : EndCall(f)
    \/ CaptureRaises
    \/ \E call \in Calls : CaptureDirectCall(call)
    \/ CaptureEnds

ReplayStep ==
    \/ BeginReplay
    \/ \E ask \in Asks : ReplayRequest(ask) \/ ReplayRequestRaises(ask)
    \/ ReplayTurnsUsedUp
    \/ \E i \in waiting : ReplayCall(i)
    \/ \E call \in Calls : ReplayDirectCall(call)
    \/ LiveAttempt
    \/ ReplayEnds

Next ==
    \/ CaptureStep
    \/ ReplayStep
    \/ \E max_turns \in 1..MaxTurns : Run(max_turns)
    \/ \E agent \in Agents : RunRefused(agent)
    \/ \E ask \in Asks : RequestRefused(ask)
    \/ RunAgain

Spec == Init /\ [][Next]_vars

-------------------------------------------------------------------------------
(* Properties.                                                               *)

\* However the calls of an answer interleave, each result depends on the one
\* call it is the result of (_capture_tool).
ResultsNameTheirCalls ==
    \A i \in DOMAIN events : events[i].kind = "tool_result" =>
       \E call \in 1..(i - 1) :
          /\ events[i].deps = {call}
          /\ Same(events[call], [events[i] EXCEPT !.kind = "tool_call"])
          /\ \A other \in DOMAIN events \ {i} :
                events[other].kind = "tool_result" => events[other].deps # {call}

Alike(left, right) ==
    /\ Len(left) = Len(right)
    /\ \A i \in DOMAIN left : Same(left[i], right[i])

\* All that was recorded was asked, in its order, and whatever else was asked are
\* requests to the model.
Covers(asked, recorded) ==
    \E place \in [DOMAIN recorded -> DOMAIN asked] :
       /\ \A i, j \in DOMAIN recorded : i < j => place[i] < place[j]
       /\ \A i \in DOMAIN recorded : Same(asked[place[i]], recorded[i])
       /\ \A j \in DOMAIN asked : asked[j].kind = "model_request" \/ j \in Range(place)

\* A report of success means that the rerun made the recorded calls in the recorded
\* order, and no other, unless the callback swallows exceptions: then it may have
\* asked the model, in between, for what was not recorded, and was refused, but of the
\* tools it has asked nothing else, for their divergences are kept (_consume_pair,
\* _replay_tool, execute).
ReportIsExact ==
    phase = "reported" =>
       /\ Covers(made, RecordedCalls)
       /\ ~swallows => Alike(made, RecordedCalls)

\* What docs/application-replay.md says: what replay does not support fails at
\* capture.  An application that does in the rerun what it did in the capture
\* is then reported.
EligibleReplays == phase = "failed" => departed

\* The same for answers of at most one call each and an application that lets
\* exceptions through.  Redaction does not take the names under which a request
\* or a usage is recorded for those of secrets: without a secret in what is asked
\* and answered the capture is eligible.
PlainEligibleReplays ==
    /\ redacted /\ Asks \intersect Secrets = {} => \E i \in DOMAIN events :
          CASE events[i].kind = "model_response" -> Masked \in Range(events[i].value)
            [] events[i].kind = "model_request" -> FALSE
            [] OTHER -> events[i].value = Masked
    /\ /\ \A i \in DOMAIN events :
             events[i].kind = "model_response" => Len(events[i].value) <= 1
       /\ ~swallows
       => EligibleReplays
===============================================================================

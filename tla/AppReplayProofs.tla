---------------------------- MODULE AppReplayProofs ----------------------------
(***************************************************************************)
(* One application captured and rerun, for any requests, calls and secrets, *)
(* any number of calls in an answer, any number of turns and recordings of  *)
(* every length: results name their calls, a report is exact, and a plain   *)
(* session that is rerun as it was recorded is reported.                    *)
(*                                                                         *)
(* The last one rests on what the recording of a plain session looks like   *)
(* (Regular), on where the Runner stands in it while it grows               *)
(* (CaptureStands) and on where it stands while it is consumed              *)
(* (RerunStands): each call of the rerun is then the recorded one at the    *)
(* cursor, or the rerun has departed.                                       *)
(*                                                                         *)
(* At the end, what ToolClaims promises of the sessions of one process, for *)
(* every set of sessions, tools and handlers.  Exclusion and the canaries   *)
(* need no assumption on the caller: only the session that holds the claim  *)
(* of a tool replaces its handler.  That the handlers come back is proved   *)
(* for a careful caller.                                                    *)
(***************************************************************************)
EXTENDS AppReplay, ToolClaims, WellFoundedInduction, TLAPS

-------------------------------------------------------------------------------
(* Counting, and what OfKind picks.                                          *)

\* Every set of numbers with a member has a least one.
LEMMA LeastNumber ==
    ASSUME NEW T \in SUBSET Nat, T # {}
    PROVE  \E x \in T : \A y \in T : x <= y
<1> DEFINE Less == {pair \in Nat \X Nat : pair[1] < pair[2]}
<1>1. IsWellFoundedOn(Less, Nat)
  BY NatLessThanWellFounded DEF OpToRel
<1>2. PICK x \in T : \A y \in T : ~(<<y, x>> \in Less)
  BY <1>1, WFMin
<1>3. ASSUME NEW y \in T PROVE x <= y
  <2>1. <<y, x>> \in Nat \X Nat
    OBVIOUS
  <2>2. ~(y < x)
    BY <2>1, <1>2
  <2>3. QED
    BY <2>2
<1>4. QED
  BY <1>3

\* What holds of zero, and of the successor of each number it holds of, holds
\* of every number.
LEMMA Counting ==
    ASSUME NEW T, 0 \in T, \A n \in Nat : n \in T => n + 1 \in T
    PROVE  Nat \subseteq T
<1>1. SUFFICES ASSUME ~(Nat \subseteq T) PROVE FALSE
  OBVIOUS
<1>2. PICK x \in Nat \ T : \A y \in Nat \ T : x <= y
  BY <1>1, LeastNumber
<1>3. x # 0 /\ x - 1 \in Nat /\ x - 1 \in T
  BY <1>2
<1>4. QED
  BY <1>2, <1>3

\* The function of OfKind on the first n of a sequence.
Upto(asked, kinds, n, f) ==
    f = [i \in 0..n |-> IF i = 0 THEN <<>>
                        ELSE IF asked[i].kind \in kinds THEN Append(f[i - 1], asked[i])
                        ELSE f[i - 1]]

\* The same, as what a proof by counting needs.
Starts(f) == f[0] = <<>>
Goes(asked, kinds, n, f) ==
    \A k \in Nat : k + 1 <= n =>
       f[k + 1] = IF asked[k + 1].kind \in kinds THEN Append(f[k], asked[k + 1]) ELSE f[k]

LEMMA UptoSays ==
    ASSUME NEW asked, NEW kinds, NEW n \in Nat, NEW f, Upto(asked, kinds, n, f)
    PROVE  Starts(f) /\ Goes(asked, kinds, n, f)
<1>1. Starts(f)
  BY DEF Upto, Starts
<1>2. ASSUME NEW k \in Nat, k + 1 <= n
      PROVE  f[k + 1] = IF asked[k + 1].kind \in kinds THEN Append(f[k], asked[k + 1])
                        ELSE f[k]
  <2>1. k + 1 \in 0..n /\ k + 1 # 0 /\ (k + 1) - 1 = k
    BY <1>2
  <2>2. QED
    BY <2>1 DEF Upto
<1>3. QED
  BY <1>1, <1>2 DEF Goes

\* It exists.
LEMMA UptoExists ==
    ASSUME NEW asked, NEW kinds, NEW n \in Nat
    PROVE  \E f : Upto(asked, kinds, n, f)
<1> DEFINE T == {m \in Nat : \E f : Upto(asked, kinds, m, f)}
<1>1. 0 \in T
  <2>1. Upto(asked, kinds, 0, [i \in 0..0 |-> <<>>])
    BY DEF Upto
  <2>2. QED
    BY <2>1
<1>2. ASSUME NEW m \in Nat, m \in T PROVE m + 1 \in T
  <2>1. PICK f : Upto(asked, kinds, m, f)
    BY <1>2
  <2>5. Starts(f) /\ Goes(asked, kinds, m, f)
    BY <2>1, UptoSays
  <2> DEFINE g == [i \in 0..(m + 1) |->
                     IF i <= m THEN f[i]
                     ELSE IF asked[m + 1].kind \in kinds THEN Append(f[m], asked[m + 1])
                     ELSE f[m]]
  <2>2. ASSUME NEW i \in 0..(m + 1)
        PROVE  g[i] = IF i = 0 THEN <<>>
                      ELSE IF asked[i].kind \in kinds THEN Append(g[i - 1], asked[i])
                      ELSE g[i - 1]
    <3>1. CASE i <= m /\ i # 0
      <4>1. i - 1 \in Nat /\ (i - 1) + 1 = i /\ i - 1 <= m
        BY <3>1
      <4>2. f[i] = IF asked[i].kind \in kinds THEN Append(f[i - 1], asked[i]) ELSE f[i - 1]
        BY <2>5, <3>1, <4>1 DEF Goes
      <4>3. g[i] = f[i] /\ g[i - 1] = f[i - 1]
        BY <3>1, <4>1
      <4>4. QED
        BY <3>1, <4>2, <4>3
    <3>2. CASE i = m + 1
      BY <3>2
    <3>3. CASE i = 0
      <4>1. f[0] = <<>>
        BY <2>5 DEF Starts
      <4>2. QED
        BY <3>3, <4>1
    <3>4. QED
      BY <3>1, <3>2, <3>3
  <2>3. Upto(asked, kinds, m + 1, g)
    BY <2>2 DEF Upto
  <2>4. QED
    BY <2>3
<1>3. QED
  BY <1>1, <1>2, Counting

\* And there is only one: it says the same of the part two sequences share.
LEMMA UptoAgrees ==
    ASSUME NEW asked, NEW more, NEW kinds, NEW n \in Nat, NEW m \in Nat, n <= m,
           NEW f, NEW g, Upto(asked, kinds, n, f), Upto(more, kinds, m, g),
           \A i \in 1..n : asked[i] = more[i]
    PROVE  f[n] = g[n]
<1>0. Starts(f) /\ Starts(g) /\ Goes(asked, kinds, n, f) /\ Goes(more, kinds, m, g)
  BY UptoSays
<1> DEFINE T == {k \in Nat : k <= n => f[k] = g[k]}
<1>1. 0 \in T
  BY <1>0 DEF Starts
<1>2. ASSUME NEW k \in Nat, k \in T PROVE k + 1 \in T
  <2>1. SUFFICES ASSUME k + 1 <= n PROVE f[k + 1] = g[k + 1]
    OBVIOUS
  <2>2. f[k] = g[k] /\ asked[k + 1] = more[k + 1] /\ k + 1 <= m
    BY <1>2, <2>1
  <2>3. f[k + 1] = IF asked[k + 1].kind \in kinds THEN Append(f[k], asked[k + 1]) ELSE f[k]
    BY <1>0, <2>1 DEF Goes
  <2>4. g[k + 1] = IF more[k + 1].kind \in kinds THEN Append(g[k], more[k + 1]) ELSE g[k]
    BY <1>0, <2>2 DEF Goes
  <2>5. QED
    BY <2>2, <2>3, <2>4
<1>3. n \in T
  BY <1>1, <1>2, Counting
<1>4. QED
  BY <1>3

LEMMA OfKindIs ==
    ASSUME NEW asked, Len(asked) \in Nat, NEW kinds, NEW f,
           Upto(asked, kinds, Len(asked), f)
    PROVE  OfKind(asked, kinds) = f[Len(asked)]
<1> DEFINE g == CHOOSE g : Upto(asked, kinds, Len(asked), g)
<1>1. Upto(asked, kinds, Len(asked), g)
  BY UptoExists
<1>2. OfKind(asked, kinds) = g[Len(asked)]
  BY DEF OfKind, Upto
<1>3. QED
  BY <1>1, <1>2, UptoAgrees

\* Nothing is picked of nothing.
LEMMA OfKindEmpty ==
    ASSUME NEW kinds PROVE OfKind(<<>>, kinds) = <<>>
<1>1. PICK f : Upto(<<>>, kinds, 0, f)
  BY UptoExists
<1>2. OfKind(<<>>, kinds) = f[0]
  BY <1>1, OfKindIs
<1>3. QED
  BY <1>1, <1>2, UptoSays DEF Starts

\* One more is picked if it is of the kinds.
LEMMA OfKindAppend ==
    ASSUME NEW S, NEW asked \in Seq(S), NEW e \in S, NEW kinds
    PROVE  OfKind(Append(asked, e), kinds) =
             IF e.kind \in kinds THEN Append(OfKind(asked, kinds), e)
             ELSE OfKind(asked, kinds)
<1> DEFINE n == Len(asked)
           more == Append(asked, e)
<1>1. /\ n \in Nat /\ Len(more) = n + 1 /\ more[n + 1] = e
      /\ \A i \in 1..n : asked[i] = more[i]
  OBVIOUS
<1>2. PICK f : Upto(asked, kinds, n, f)
  BY <1>1, UptoExists
<1>3. PICK g : Upto(more, kinds, n + 1, g)
  BY SMTT(60), <1>1, UptoExists
<1>4. OfKind(asked, kinds) = f[n]
  BY <1>1, <1>2, OfKindIs
<1>8. OfKind(more, kinds) = g[n + 1]
  <2>1. Len(more) \in Nat /\ Upto(more, kinds, Len(more), g)
    BY <1>1, <1>3
  <2> HIDE DEF more
  <2>2. QED
    BY <1>1, <2>1, OfKindIs
<1> HIDE DEF n, more
<1>5. f[n] = g[n]
  BY <1>1, <1>2, <1>3, UptoAgrees
<1>6. g[n + 1] = IF more[n + 1].kind \in kinds THEN Append(g[n], more[n + 1]) ELSE g[n]
  <2>1. Goes(more, kinds, n + 1, g)
    BY <1>1, <1>3, UptoSays
  <2>2. QED
    BY <1>1, <2>1 DEF Goes
<1>7. QED
  BY <1>1, <1>4, <1>5, <1>6, <1>8 DEF more

\* It is a sequence of the same things.
LEMMA OfKindType ==
    ASSUME NEW S, NEW asked \in Seq(S), NEW kinds
    PROVE  OfKind(asked, kinds) \in Seq(S)
<1>0. Len(asked) \in Nat /\ \A i \in 1..Len(asked) : asked[i] \in S
  OBVIOUS
<1>1. PICK f : Upto(asked, kinds, Len(asked), f)
  BY <1>0, UptoExists
<1> DEFINE T == {k \in Nat : k <= Len(asked) => f[k] \in Seq(S)}
<1>6. Starts(f) /\ Goes(asked, kinds, Len(asked), f)
  BY <1>0, <1>1, UptoSays
<1>7. f[0] \in Seq(S)
  BY <1>6 DEF Starts
<1>2. 0 \in T
  BY <1>7
<1>3. ASSUME NEW k \in Nat, k \in T PROVE k + 1 \in T
  <2>1. SUFFICES ASSUME k + 1 <= Len(asked) PROVE f[k + 1] \in Seq(S)
    OBVIOUS
  <2>2. f[k] \in Seq(S) /\ asked[k + 1] \in S
    BY <1>0, <1>3, <2>1
  <2>3. f[k + 1] = IF asked[k + 1].kind \in kinds THEN Append(f[k], asked[k + 1]) ELSE f[k]
    BY <1>0, <1>6, <2>1 DEF Goes
  <2>4. Append(f[k], asked[k + 1]) \in Seq(S)
    BY <2>2
  <2>5. QED
    BY <2>2, <2>3, <2>4
<1>4. Len(asked) \in T
  BY <1>0, <1>2, <1>3, Counting
<1>5. QED
  BY <1>0, <1>1, <1>4, OfKindIs
-------------------------------------------------------------------------------
(* The invariant.                                                            *)

Kept == Calls \union {Masked}
Kinds == {"model_request", "model_response", "tool_call", "tool_result"}
EventType == [kind : Kinds, value : Asks \union Kept \union Seq(Kept), deps : SUBSET Nat]

\* The type invariant: what the Runner is given are calls, as the live model
\* made them or as they were recorded.
FlagsTyped ==
    /\ swallows \in BOOLEAN /\ redacted \in BOOLEAN /\ deferred \in BOOLEAN
    /\ attempted \in BOOLEAN /\ departed \in BOOLEAN

Typed ==
    /\ calls \in Seq(Kept) /\ waiting \subseteq DOMAIN calls
    /\ inFlight \subseteq [call : Kept, event : Nat]
    /\ events \in Seq(EventType)
    /\ \A i \in DOMAIN events :
          events[i].kind = "model_response" => events[i].value \in Seq(Kept)
    /\ lastResponse \in Nat /\ lastResult \in Nat /\ cursor \in Nat
    /\ made \in Seq(EventType)

\* A call that has not returned has its event, and no result depends on it yet.
InFlightAgrees ==
    /\ \A f \in inFlight :
          /\ f.event \in DOMAIN events
          /\ events[f.event].kind = "tool_call"
          /\ events[f.event].value = Redact(f.call)
          /\ \A i \in DOMAIN events :
                events[i].kind = "tool_result" => events[i].deps # {f.event}
    /\ \A f, g \in inFlight : f.event = g.event => f = g

Consumed(n) == OfKind(SubSeq(events, 1, n), CallKinds)

\* What the rerun asked agrees with what it has consumed of the recording.
ReplayAgrees ==
    /\ phase \in {"capturing", "captured"} => cursor = 0 /\ made = <<>> /\ ~deferred
    /\ phase \in {"replaying", "reported"} =>
          /\ cursor <= Len(events)
          /\ ~deferred => Covers(made, Consumed(cursor))
          /\ ~deferred /\ ~swallows => Alike(made, Consumed(cursor))
    /\ phase = "reported" => cursor = Len(events) /\ ~deferred

\* Answers of one call at most, and a callback that lets exceptions through.
PlainSession ==
    /\ ~swallows
    /\ \A i \in DOMAIN events :
          events[i].kind = "model_response" => Len(events[i].value) <= 1

Odd(i) == i % 2 = 1
IsFinal(e) == e.kind = "model_response" /\ e.value = <<>>
ToolKinds == {"tool_call", "tool_result"}

Paired(e, f) ==
    \/ e.kind = "model_request" /\ f.kind = "model_response"
    \/ e.kind = "tool_call" /\ f.kind = "tool_result" /\ f.value = e.value

\* An answer that makes a call is followed by it.
Follows(e, f) ==
    e.kind = "model_response" /\ e.value # <<>> => Same(f, Event("tool_call", e.value[1], {}))

\* The recording of a plain session: calls and results in turn, an answer's
\* call next to the answer, and only the callback's own calls after the last.
Regular(s) ==
    /\ \A i \in DOMAIN s : Odd(i) => s[i].kind \in CallKinds
    /\ \A i \in DOMAIN s : ~Odd(i) => Paired(s[i - 1], s[i])
    /\ \A i, j \in DOMAIN s : IsFinal(s[i]) /\ i < j => s[j].kind \in ToolKinds
    /\ \A i \in DOMAIN s : i < Len(s) => Follows(s[i], s[i + 1])

NoneFinal(s, n) == \A i \in 1..n : ~IsFinal(s[i])
Finished(s) == ~Odd(Len(s)) /\ \E i \in DOMAIN s : IsFinal(s[i])

\* Where the Runner is in a plain capture.
CaptureStands ==
    /\ runner \in {"none", "model", "answering", "tools", "returned"}
    /\ runner \in {"none", "model", "returned"} => ~Odd(Len(events)) /\ inFlight = {}
    /\ runner = "none" => \A i \in DOMAIN events : events[i].kind \in ToolKinds
    /\ runner \in {"none", "model", "answering", "tools"} => NoneFinal(events, Len(events))
    /\ runner = "model" /\ Len(events) # 0 =>
          events[Len(events)].kind # "model_response"
    /\ runner = "answering" =>
          /\ Odd(Len(events)) /\ inFlight = {}
          /\ events[Len(events)].kind = "model_request"
    /\ runner = "tools" =>
          /\ Len(calls) = 1
          /\ \/ /\ waiting = {1} /\ inFlight = {}
                /\ Len(events) # 0 /\ ~Odd(Len(events))
                /\ events[Len(events)].kind = "model_response"
                /\ events[Len(events)].value = RedactAll(calls)
             \/ /\ waiting = {} /\ Odd(Len(events))
                /\ events[Len(events)].kind = "tool_call"
                /\ \E f \in inFlight : inFlight = {f} /\ f.event = Len(events)
    /\ runner = "returned" => \E i \in DOMAIN events : IsFinal(events[i])

\* Where it is in a rerun that has not departed from one.
RerunStands ==
    /\ ~deferred /\ ~attempted
    /\ cursor = 2 * Len(made)
    /\ runner \in {"none", "model", "tools", "returned"}
    /\ runner \in {"none", "model", "tools"} => NoneFinal(events, cursor)
    /\ runner = "tools" => waiting = {1}

Standing ==
    /\ Regular(events)
    /\ phase = "capturing" => CaptureStands /\ ~attempted
    /\ phase = "captured" => Finished(events) /\ ~attempted
    /\ phase = "replaying" => Finished(events) /\ (~departed => RerunStands)
    /\ EligibleReplays

Stands == PlainSession => Standing

\* What redaction takes it takes out of an event.
RedactionShows ==
    redacted /\ Asks \intersect Secrets = {} => \E i \in DOMAIN events :
       CASE events[i].kind = "model_response" -> Masked \in Range(events[i].value)
         [] events[i].kind = "model_request" -> FALSE
         [] OTHER -> events[i].value = Masked

IInv ==
    /\ FlagsTyped /\ Typed
    /\ InFlightAgrees /\ ResultsNameTheirCalls
    /\ ReplayAgrees
    /\ Stands
    /\ RedactionShows

-------------------------------------------------------------------------------
(* Types.                                                                     *)

\* The flags stay flags.
LEMMA StepFlags ==
    ASSUME FlagsTyped, [Next]_vars
    PROVE  FlagsTyped'
<1>1. ASSUME NEW ask \in Asks, CaptureRequest(ask) PROVE FlagsTyped'
  BY <1>1 DEF CaptureRequest, FlagsTyped, captureVars, replayVars, runnerVars, Record,
       Result, Made, Consume, Raised
<1>2. ASSUME NEW response \in Responses, ResponseRefused(response) PROVE FlagsTyped'
  BY <1>2 DEF ResponseRefused, FlagsTyped, captureVars, replayVars, runnerVars, Record,
       Result, Made, Consume, Raised
<1>3. ASSUME NEW answer \in Answers, CaptureResponse(answer) PROVE FlagsTyped'
  BY <1>3 DEF CaptureResponse, FlagsTyped, captureVars, replayVars, runnerVars, Record,
       Result, Made, Consume, Raised
<1>4. ASSUME NEW i \in waiting, BeginCall(i) PROVE FlagsTyped'
  BY <1>4 DEF BeginCall, FlagsTyped, captureVars, replayVars, runnerVars, Record, Result,
       Made, Consume, Raised
<1>5. ASSUME NEW f \in inFlight, EndCall(f) PROVE FlagsTyped'
  BY <1>5 DEF EndCall, FlagsTyped, captureVars, replayVars, runnerVars, Record, Result,
       Made, Consume, Raised
<1>6. ASSUME CaptureRaises PROVE FlagsTyped'
  BY <1>6 DEF CaptureRaises, FlagsTyped, captureVars, replayVars, runnerVars, Record,
       Result, Made, Consume, Raised
<1>7. ASSUME NEW call \in Calls, CaptureDirectCall(call) PROVE FlagsTyped'
  BY <1>7 DEF CaptureDirectCall, FlagsTyped, captureVars, replayVars, runnerVars, Record,
       Result, Made, Consume, Raised
<1>8. ASSUME CaptureEnds PROVE FlagsTyped'
  BY <1>8 DEF CaptureEnds, FlagsTyped, captureVars, replayVars, runnerVars, Record,
       Result, Made, Consume, Raised
<1>9. ASSUME BeginReplay PROVE FlagsTyped'
  BY <1>9 DEF BeginReplay, FlagsTyped, captureVars, replayVars, runnerVars, Record,
       Result, Made, Consume, Raised
<1>10. ASSUME NEW ask \in Asks, ReplayRequest(ask) PROVE FlagsTyped'
  BY <1>10 DEF ReplayRequest, FlagsTyped, captureVars, replayVars, runnerVars, Record,
       Result, Made, Consume, Raised
<1>11. ASSUME NEW ask \in Asks, ReplayRequestRaises(ask) PROVE FlagsTyped'
  BY <1>11 DEF ReplayRequestRaises, FlagsTyped, captureVars, replayVars, runnerVars,
       Record, Result, Made, Consume, Raised
<1>12. ASSUME ReplayTurnsUsedUp PROVE FlagsTyped'
  BY <1>12 DEF ReplayTurnsUsedUp, FlagsTyped, captureVars, replayVars, runnerVars, Record,
       Result, Made, Consume, Raised
<1>13. ASSUME NEW i \in waiting, ReplayCall(i) PROVE FlagsTyped'
  BY <1>13 DEF ReplayCall, FlagsTyped, captureVars, replayVars, runnerVars, Record,
       Result, Made, Consume, Raised
<1>14. ASSUME NEW call \in Calls, ReplayDirectCall(call) PROVE FlagsTyped'
  BY <1>14 DEF ReplayDirectCall, FlagsTyped, captureVars, replayVars, runnerVars, Record,
       Result, Made, Consume, Raised
<1>15. ASSUME LiveAttempt PROVE FlagsTyped'
  BY <1>15 DEF LiveAttempt, FlagsTyped, captureVars, replayVars, runnerVars, Record,
       Result, Made, Consume, Raised
<1>16. ASSUME ReplayEnds PROVE FlagsTyped'
  BY <1>16 DEF ReplayEnds, FlagsTyped, captureVars, replayVars, runnerVars, Record,
       Result, Made, Consume, Raised
<1>17. ASSUME NEW max_turns \in 1..MaxTurns, Run(max_turns) PROVE FlagsTyped'
  BY <1>17 DEF Run, FlagsTyped, captureVars, replayVars, runnerVars, Record, Result, Made,
       Consume, Raised
<1>18. ASSUME NEW agent \in Agents, RunRefused(agent) PROVE FlagsTyped'
  BY <1>18 DEF RunRefused, FlagsTyped, captureVars, replayVars, runnerVars, Record,
       Result, Made, Consume, Raised
<1>19. ASSUME NEW ask \in Asks, RequestRefused(ask) PROVE FlagsTyped'
  BY <1>19 DEF RequestRefused, FlagsTyped, captureVars, replayVars, runnerVars, Record,
       Result, Made, Consume, Raised
<1>20. ASSUME RunAgain PROVE FlagsTyped'
  BY <1>20 DEF RunAgain, FlagsTyped, captureVars, replayVars, runnerVars, Record, Result,
       Made, Consume, Raised
<1>21. CASE UNCHANGED vars
  BY <1>21 DEF vars, captureVars, replayVars, runnerVars, FlagsTyped, captureVars,
       replayVars, runnerVars, Record, Result, Made, Consume, Raised
<1>22. QED
  BY <1>1, <1>2, <1>3, <1>4, <1>5, <1>6, <1>7, <1>8, <1>9, <1>10, <1>11, <1>12, <1>13,
       <1>14, <1>15, <1>16, <1>17, <1>18, <1>19, <1>20, <1>21 DEF Next, CaptureStep,
       ReplayStep

\* Redaction leaves a call or the mask of it, and a request or the mask of it.
LEMMA RedactType ==
    /\ \A x \in Kept : Redact(x) \in Kept
    /\ \A x \in Asks : Redact(x) \in Asks \union Kept
    /\ \A x \in Seq(Kept) : RedactAll(x) \in Seq(Kept) /\ Len(RedactAll(x)) = Len(x)
<1>1. \A x \in Kept : Redact(x) \in Kept
  BY DEF Redact, Kept
<1>2. \A x \in Asks : Redact(x) \in Asks \union Kept
  BY DEF Redact, Kept
<1>3. ASSUME NEW x \in Seq(Kept)
      PROVE  RedactAll(x) \in Seq(Kept) /\ Len(RedactAll(x)) = Len(x)
  <2>1. RedactAll(x) = [i \in 1..Len(x) |-> Redact(x[i])]
    BY DEF RedactAll
  <2>2. QED
    BY <1>1, <2>1
<1>4. QED
  BY <1>1, <1>2, <1>3

LEMMA AnswersType == Answers \subseteq Seq(Kept) /\ Calls \subseteq Kept
<1>1. ASSUME NEW n \in Nat, NEW s \in [1..n -> Calls] PROVE s \in Seq(Kept)
  BY DEF Kept
<1>2. Answers \subseteq Seq(Kept)
  BY <1>1, BoundsAssumption DEF Answers, BoundedSeq, SeqOf
<1>3. QED
  BY <1>2 DEF Kept

\* An event recorded keeps the recording typed.
RecordingTyped(s) ==
    /\ s \in Seq(EventType)
    /\ \A i \in DOMAIN s : s[i].kind = "model_response" => s[i].value \in Seq(Kept)

LEMMA AppendTyped ==
    ASSUME NEW s, RecordingTyped(s), NEW e \in EventType,
           e.kind = "model_response" => e.value \in Seq(Kept)
    PROVE  RecordingTyped(Append(s, e))
BY DEF RecordingTyped

\* So do the rest.
LEMMA StepTyped ==
    ASSUME Typed, [Next]_vars
    PROVE  Typed'
<1> USE DEF captureVars, replayVars, runnerVars
<1>a. RecordingTyped(events) /\ Len(events) \in Nat
  BY DEF Typed, RecordingTyped
<1>1. ASSUME NEW ask \in Asks, CaptureRequest(ask) PROVE Typed'
  <2>1. Event("model_request", Redact(ask), Dependency(lastResult)) \in EventType
    BY RedactType DEF Event, EventType, Kinds, Dependency, Typed
  <2>2. RecordingTyped(events')
    BY <1>1, <1>a, <2>1, AppendTyped DEF CaptureRequest, Record, Event
  <2>3. QED
    BY <1>1, <2>2 DEF CaptureRequest, RecordingTyped, Typed
<1>2. ASSUME NEW response \in Responses, ResponseRefused(response) PROVE Typed'
  BY <1>2 DEF ResponseRefused, Typed
<1>3. ASSUME NEW answer \in Answers, CaptureResponse(answer) PROVE Typed'
  <2>1. answer \in Seq(Kept) /\ RedactAll(answer) \in Seq(Kept)
    BY RedactType, AnswersType
  <2>2. Event("model_response", RedactAll(answer), {Len(events)}) \in EventType
    BY <1>a, <2>1 DEF Event, EventType, Kinds
  <2>3. RecordingTyped(events')
    BY <1>3, <1>a, <2>1, <2>2, AppendTyped DEF CaptureResponse, Event
  <2>4. Len(events') \in Nat
    BY <2>3 DEF RecordingTyped
  <2>5. QED
    BY <1>3, <2>1, <2>3, <2>4 DEF CaptureResponse, RecordingTyped, Typed
<1>4. ASSUME NEW i \in waiting, BeginCall(i) PROVE Typed'
  <2>1. calls[i] \in Kept
    BY DEF Typed
  <2>2. Event("tool_call", Redact(calls[i]), Dependency(lastResponse)) \in EventType
    BY <2>1, RedactType DEF Event, EventType, Kinds, Dependency, Typed
  <2>3. RecordingTyped(events')
    BY <1>4, <1>a, <2>2, AppendTyped DEF BeginCall, Record, Event
  <2>4. Len(events') \in Nat
    BY <2>3 DEF RecordingTyped
  <2>5. QED
    BY <1>4, <2>1, <2>3, <2>4 DEF BeginCall, RecordingTyped, Typed
<1>5. ASSUME NEW f \in inFlight, EndCall(f) PROVE Typed'
  <2>1. Event("tool_result", Redact(f.call), {f.event}) \in EventType
    BY RedactType DEF Event, EventType, Kinds, Typed
  <2>3. RecordingTyped(events')
    BY <1>5, <1>a, <2>1, AppendTyped DEF EndCall, Result, Record, Event
  <2>4. Len(events') \in Nat
    BY <2>3 DEF RecordingTyped
  <2>5. QED
    BY <1>5, <2>3, <2>4 DEF EndCall, RecordingTyped, Typed
<1>6. ASSUME CaptureRaises PROVE Typed'
  BY <1>6 DEF CaptureRaises, Typed
<1>7. ASSUME NEW call \in Calls, CaptureDirectCall(call) PROVE Typed'
  <2> DEFINE first == Event("tool_call", Redact(call), Dependency(lastResponse))
             second == Event("tool_result", Redact(call), {Len(events) + 1})
  <2>1. first \in EventType /\ second \in EventType
    BY <1>a, RedactType, AnswersType DEF Event, EventType, Kinds, Dependency, Typed
  <2>2. RecordingTyped(Append(Append(events, first), second))
    BY <1>a, <2>1, AppendTyped DEF Event
  <2>3. events' = Append(Append(events, first), second)
    BY <1>7, <1>a, <2>1 DEF CaptureDirectCall, RecordingTyped
  <2>4. RecordingTyped(events') /\ Len(events') \in Nat
    <3>1. RecordingTyped(events')
      BY <2>2, <2>3
    <3>2. QED
      BY <3>1 DEF RecordingTyped
  <2>5. QED
    BY <1>7, <2>4 DEF CaptureDirectCall, RecordingTyped, Typed
<1>8. ASSUME CaptureEnds PROVE Typed'
  BY <1>8 DEF CaptureEnds, Typed
<1>9. ASSUME BeginReplay PROVE Typed'
  BY <1>9 DEF BeginReplay, Typed
<1>10. ASSUME NEW ask \in Asks, ReplayRequest(ask) PROVE Typed'
  <2> DEFINE request == Event("model_request", ask, {})
             answer == events[cursor + 2].value
  <2>1. request \in EventType
    BY DEF Event, EventType, Kinds
  <2>2. answer \in Seq(Kept)
    BY <1>10 DEF ReplayRequest, Matches, PairAt, Event, Typed
  <2>3. made' \in Seq(EventType)
    BY <1>10, <2>1 DEF ReplayRequest, Made, Typed
  <2>4. calls' \in Seq(Kept) /\ waiting' \subseteq DOMAIN calls'
    BY <1>10, <2>2 DEF ReplayRequest, Typed
  <2>5. QED
    BY SMTT(60), <1>10, <2>3, <2>4 DEF ReplayRequest, Typed
<1>11. ASSUME NEW ask \in Asks, ReplayRequestRaises(ask) PROVE Typed'
  <2>1. Event("model_request", ask, {}) \in EventType
    BY DEF Event, EventType, Kinds
  <2>2. made' \in Seq(EventType)
    BY <1>11, <2>1 DEF ReplayRequestRaises, Made, Typed
  <2>3. QED
    BY <1>11, <2>2 DEF ReplayRequestRaises, Typed
<1>12. ASSUME ReplayTurnsUsedUp PROVE Typed'
  BY <1>12 DEF ReplayTurnsUsedUp, Typed
<1>13. ASSUME NEW i \in waiting, ReplayCall(i) PROVE Typed'
  <2>1. Event("tool_call", calls[i], {}) \in EventType
    BY DEF Event, EventType, Kinds, Typed
  <2>2. made' \in Seq(EventType) /\ cursor' \in Nat
    BY <1>13, <2>1 DEF ReplayCall, Consume, Made, Typed
  <2>3. QED
    BY <1>13, <2>2 DEF ReplayCall, Typed
<1>14. ASSUME NEW call \in Calls, ReplayDirectCall(call) PROVE Typed'
  <2>1. Event("tool_call", call, {}) \in EventType
    BY AnswersType DEF Event, EventType, Kinds
  <2>2. made' \in Seq(EventType) /\ cursor' \in Nat
    BY <1>14, <2>1 DEF ReplayDirectCall, Consume, Made, Typed
  <2>3. QED
    BY <1>14, <2>2 DEF ReplayDirectCall, Typed
<1>15. ASSUME LiveAttempt PROVE Typed'
  BY <1>15 DEF LiveAttempt, Typed
<1>16. ASSUME ReplayEnds PROVE Typed'
  BY <1>16 DEF ReplayEnds, Typed
<1>17. ASSUME NEW max_turns \in 1..MaxTurns, Run(max_turns) PROVE Typed'
  BY <1>17 DEF Run, Typed
<1>18. ASSUME NEW agent \in Agents, RunRefused(agent) PROVE Typed'
  BY <1>18 DEF RunRefused, Typed
<1>19. ASSUME NEW ask \in Asks, RequestRefused(ask) PROVE Typed'
  BY <1>19 DEF RequestRefused, Typed
<1>20. ASSUME RunAgain PROVE Typed'
  BY <1>20 DEF RunAgain, Typed
<1>21. CASE UNCHANGED vars
  BY <1>21 DEF vars, Typed
<1>22. QED
  BY <1>1, <1>2, <1>3, <1>4, <1>5, <1>6, <1>7, <1>8, <1>9, <1>10, <1>11, <1>12, <1>13,
       <1>14, <1>15, <1>16, <1>17, <1>18, <1>19, <1>20, <1>21 DEF Next, CaptureStep,
       ReplayStep

-------------------------------------------------------------------------------
(* Results and the calls they name.                                           *)

\* Who records, and that nobody else does or puts a call in flight.
LEMMA StepRecords ==
    ASSUME [Next]_vars
    PROVE  \/ \E ask \in Asks : CaptureRequest(ask)
           \/ \E answer \in Answers : CaptureResponse(answer)
           \/ \E i \in waiting : BeginCall(i)
           \/ \E f \in inFlight : EndCall(f)
           \/ \E call \in Calls : CaptureDirectCall(call)
           \/ UNCHANGED <<events, redacted>> /\ inFlight' \subseteq inFlight
<1> USE DEF captureVars, runnerVars
<1>1. ASSUME NEW response \in Responses, ResponseRefused(response)
      PROVE  UNCHANGED <<events, redacted, inFlight>>
  BY <1>1 DEF ResponseRefused
<1>2. ASSUME CaptureRaises PROVE UNCHANGED <<events, redacted>> /\ inFlight' \subseteq inFlight
  BY <1>2 DEF CaptureRaises
<1>3. ASSUME CaptureEnds PROVE UNCHANGED <<events, redacted, inFlight>>
  BY <1>3 DEF CaptureEnds
<1>4. ASSUME ReplayStep PROVE UNCHANGED <<events, redacted>> /\ inFlight' \subseteq inFlight
  BY <1>4 DEF ReplayStep, BeginReplay, ReplayRequest, ReplayRequestRaises,
     ReplayTurnsUsedUp, ReplayCall, ReplayDirectCall, LiveAttempt, ReplayEnds
<1>5. ASSUME NEW max_turns \in 1..MaxTurns, Run(max_turns)
      PROVE  UNCHANGED <<events, redacted, inFlight>>
  BY <1>5 DEF Run
<1>6. ASSUME NEW agent \in Agents, RunRefused(agent)
      PROVE  UNCHANGED <<events, redacted, inFlight>>
  BY <1>6 DEF RunRefused
<1>7. ASSUME NEW ask \in Asks, RequestRefused(ask)
      PROVE  UNCHANGED <<events, redacted, inFlight>>
  BY <1>7 DEF RequestRefused
<1>8. ASSUME RunAgain PROVE UNCHANGED <<events, redacted, inFlight>>
  BY <1>8 DEF RunAgain
<1>9. QED
  BY <1>1, <1>2, <1>3, <1>4, <1>5, <1>6, <1>7, <1>8 DEF Next, CaptureStep, vars

\* What ResultsNameTheirCalls says, in two parts: each result names a call
\* before it, and no two name the same.
Each(s) ==
    \A i \in DOMAIN s : s[i].kind = "tool_result" =>
       \E c \in 1..(i - 1) :
          s[i].deps = {c} /\ s[c].kind = "tool_call" /\ s[c].value = s[i].value
Once(s) ==
    \A i, j \in DOMAIN s :
       s[i].kind = "tool_result" /\ s[j].kind = "tool_result" /\ s[i].deps = s[j].deps => i = j

Named(s) ==
    \A i \in DOMAIN s : s[i].kind = "tool_result" =>
       \E call \in 1..(i - 1) :
          /\ s[i].deps = {call}
          /\ Same(s[call], [s[i] EXCEPT !.kind = "tool_call"])
          /\ \A other \in DOMAIN s \ {i} :
                s[other].kind = "tool_result" => s[other].deps # {call}

LEMMA EachOnce ==
    ASSUME NEW s \in Seq(EventType)
    PROVE  Named(s) <=> Each(s) /\ Once(s)
<1>1. ASSUME NEW i \in DOMAIN s, NEW c
      PROVE  Same(s[c], [s[i] EXCEPT !.kind = "tool_call"])
             <=> s[c].kind = "tool_call" /\ s[c].value = s[i].value
  <2>1. s[i] \in EventType
    OBVIOUS
  <2>2. QED
    BY <2>1 DEF Same, EventType
<1>2. ASSUME Named(s) PROVE Each(s)
  BY <1>1, <1>2 DEF Named, Each
<1>3. ASSUME Named(s) PROVE Once(s)
  <2>1. ASSUME NEW i \in DOMAIN s, NEW j \in DOMAIN s, i # j,
               s[i].kind = "tool_result", s[j].kind = "tool_result"
        PROVE  s[i].deps # s[j].deps
    BY <1>3, <2>1 DEF Named
  <2>2. QED
    BY <2>1 DEF Once
<1>4. ASSUME Each(s), Once(s) PROVE Named(s)
  <2>1. ASSUME NEW i \in DOMAIN s, s[i].kind = "tool_result"
        PROVE  \E call \in 1..(i - 1) :
                  /\ s[i].deps = {call}
                  /\ Same(s[call], [s[i] EXCEPT !.kind = "tool_call"])
                  /\ \A other \in DOMAIN s \ {i} :
                        s[other].kind = "tool_result" => s[other].deps # {call}
    <3>1. PICK c \in 1..(i - 1) : /\ s[i].deps = {c} /\ s[c].kind = "tool_call"
                                  /\ s[c].value = s[i].value
      BY <1>4, <2>1 DEF Each
    <3>2. \A other \in DOMAIN s \ {i} :
             s[other].kind = "tool_result" => s[other].deps # {c}
      BY <1>4, <2>1, <3>1 DEF Once
    <3>3. QED
      BY <1>1, <3>1, <3>2
  <2>2. QED
    BY <2>1 DEF Named
<1>5. QED
  BY <1>2, <1>3, <1>4

LEMMA DepsAreEarlier ==
    ASSUME NEW s \in Seq(EventType), Each(s), NEW k \in DOMAIN s, s[k].kind = "tool_result"
    PROVE  s[k].deps # {Len(s) + 1}
<1>1. PICK c \in 1..(k - 1) : s[k].deps = {c}
  BY DEF Each
<1>2. c # Len(s) + 1
  OBVIOUS
<1>3. QED
  BY <1>1, <1>2

\* An event of another kind, or the result of a call no result depends on yet.
LEMMA AppendNames ==
    ASSUME NEW s \in Seq(EventType), Each(s), Once(s), NEW e \in EventType,
           e.kind = "tool_result" =>
              \E c \in DOMAIN s :
                 /\ e.deps = {c} /\ s[c].kind = "tool_call" /\ s[c].value = e.value
                 /\ \A i \in DOMAIN s : s[i].kind = "tool_result" => s[i].deps # {c}
    PROVE  Each(Append(s, e)) /\ Once(Append(s, e))
<1> DEFINE n == Len(s)
           t == Append(s, e)
<1>1. /\ n \in Nat /\ DOMAIN s = 1..n /\ DOMAIN t = 1..(n + 1)
      /\ t[n + 1] = e /\ \A i \in 1..n : t[i] = s[i]
  OBVIOUS
<1> HIDE DEF n, t
<1>2. ASSUME NEW i \in 1..(n + 1), t[i].kind = "tool_result"
      PROVE  \E c \in 1..(i - 1) :
                t[i].deps = {c} /\ t[c].kind = "tool_call" /\ t[c].value = t[i].value
  <2>1. CASE i = n + 1
    <3>1. PICK c \in 1..n : e.deps = {c} /\ s[c].kind = "tool_call" /\ s[c].value = e.value
      BY <1>1, <1>2, <2>1
    <3>2. c \in 1..(i - 1)
      BY <1>1, <2>1
    <3>3. QED
      BY <1>1, <2>1, <3>1, <3>2
  <2>2. CASE i \in 1..n
    <3>1. PICK c \in 1..(i - 1) :
             s[i].deps = {c} /\ s[c].kind = "tool_call" /\ s[c].value = s[i].value
      BY <1>1, <1>2, <2>2 DEF Each
    <3>2. c \in 1..n
      BY <1>1, <2>2
    <3>3. QED
      BY <1>1, <2>2, <3>1, <3>2
  <2>3. QED
    BY <1>1, <2>1, <2>2
<1>3. ASSUME NEW i \in 1..n, s[i].kind = "tool_result", e.kind = "tool_result"
      PROVE  s[i].deps # e.deps
  BY <1>1, <1>3
<1>4. Once(t)
  BY <1>1, <1>3 DEF Once
<1>5. QED
  BY <1>1, <1>2, <1>4 DEF Each, t

Beginning(s, f) ==
    /\ f.event \in DOMAIN s
    /\ s[f.event].kind = "tool_call"
    /\ s[f.event].value = Redact(f.call)
    /\ \A i \in DOMAIN s : s[i].kind = "tool_result" => s[i].deps # {f.event}

\* A call stays in flight until its own result is recorded.
LEMMA AppendBeginning ==
    ASSUME NEW s \in Seq(EventType), NEW f, Beginning(s, f), NEW e \in EventType,
           e.kind = "tool_result" => e.deps # {f.event}
    PROVE  Beginning(Append(s, e), f)
<1> DEFINE n == Len(s)
           t == Append(s, e)
<1>1. /\ n \in Nat /\ DOMAIN s = 1..n /\ DOMAIN t = 1..(n + 1)
      /\ t[n + 1] = e /\ \A i \in 1..n : t[i] = s[i]
  OBVIOUS
<1> HIDE DEF n, t
<1>2. QED
  BY <1>1 DEF Beginning, t

\* Results keep naming their calls.
LEMMA StepResults ==
    ASSUME Typed, InFlightAgrees, ResultsNameTheirCalls, [Next]_vars
    PROVE  InFlightAgrees' /\ ResultsNameTheirCalls'
<1>a. events \in Seq(EventType) /\ Len(events) \in Nat /\ DOMAIN events = 1..Len(events)
  BY DEF Typed
<1>b. Each(events) /\ Once(events) /\ \A f \in inFlight : Beginning(events, f)
  BY <1>a, EachOnce DEF InFlightAgrees, Beginning, ResultsNameTheirCalls, Named
<1>c. ASSUME events' = events, inFlight' \subseteq inFlight
      PROVE  InFlightAgrees' /\ ResultsNameTheirCalls'
  BY <1>c DEF InFlightAgrees, ResultsNameTheirCalls, Redact, Same
<1>d. ASSUME NEW e \in EventType, e.kind # "tool_result",
             events' = Append(events, e), inFlight' = inFlight
      PROVE  InFlightAgrees' /\ ResultsNameTheirCalls'
  <2>1. events' \in Seq(EventType) /\ Each(events') /\ Once(events')
    BY <1>a, <1>b, <1>d, AppendNames
  <2>2. \A f \in inFlight' : Beginning(events', f)
    BY <1>a, <1>b, <1>d, AppendBeginning
  <2>3. ResultsNameTheirCalls'
    BY <2>1, EachOnce DEF ResultsNameTheirCalls, Named
  <2>4. QED
    BY <1>d, <2>2, <2>3 DEF InFlightAgrees, Beginning, Redact
<1>1. ASSUME NEW ask \in Asks, CaptureRequest(ask) PROVE InFlightAgrees' /\ ResultsNameTheirCalls'
  <2> DEFINE e == Event("model_request", Redact(ask), Dependency(lastResult))
  <2>1. e \in EventType /\ e.kind # "tool_result"
    BY RedactType DEF Event, EventType, Kinds, Dependency, Typed
  <2>2. events' = Append(events, e) /\ inFlight' = inFlight
    BY <1>1 DEF CaptureRequest, Record
  <2>3. QED
    BY <2>1, <2>2, <1>d
<1>2. ASSUME NEW answer \in Answers, CaptureResponse(answer) PROVE InFlightAgrees' /\ ResultsNameTheirCalls'
  <2> DEFINE e == Event("model_response", RedactAll(answer), {Len(events)})
  <2>1. e \in EventType /\ e.kind # "tool_result"
    BY <1>a, RedactType, AnswersType DEF Event, EventType, Kinds, Typed
  <2>2. events' = Append(events, e) /\ inFlight' = inFlight
    BY <1>2 DEF CaptureResponse, Record
  <2>3. QED
    BY <2>1, <2>2, <1>d
<1>3. ASSUME NEW i \in waiting, BeginCall(i) PROVE InFlightAgrees' /\ ResultsNameTheirCalls'
  <2> DEFINE e == Event("tool_call", Redact(calls[i]), Dependency(lastResponse))
             fresh == [call |-> calls[i], event |-> Len(events')]
  <2>1. e \in EventType /\ e.kind = "tool_call" /\ e.value = Redact(calls[i])
    <3>1. calls[i] \in Kept
      BY DEF Typed
    <3>2. QED
      BY <3>1, RedactType DEF Event, EventType, Kinds, Dependency, Typed
  <2> HIDE DEF e
  <2>2. events' = Append(events, e) /\ inFlight' = inFlight \union {fresh}
    BY <1>3 DEF BeginCall, Record, e
  <2>12. events' \in Seq(EventType) /\ Each(events') /\ Once(events')
    BY <1>a, <1>b, <2>1, <2>2, AppendNames
  <2>3. ResultsNameTheirCalls'
    BY <2>12, EachOnce DEF ResultsNameTheirCalls, Named
  <2>4. /\ Len(events') = Len(events) + 1
        /\ events'[Len(events) + 1] = e
        /\ DOMAIN events' = 1..(Len(events) + 1)
        /\ \A k \in 1..Len(events) : events'[k] = events[k]
    BY <1>a, <2>1, <2>2
  <2>5. fresh.event = Len(events) + 1 /\ fresh.call = calls[i]
    BY <2>4
  <2> HIDE DEF fresh
  <2>6. \A k \in DOMAIN events : events[k].kind = "tool_result" =>
           events[k].deps # {Len(events) + 1}
    BY <1>a, <1>b, DepsAreEarlier
  <2>7. Beginning(events', fresh)
    BY <1>a, <2>1, <2>4, <2>5, <2>6 DEF Beginning
  <2>8. \A f \in inFlight' : Beginning(events', f)
    BY <1>a, <1>b, <2>1, <2>2, <2>7, AppendBeginning
  <2>9. \A f \in inFlight : f.event # Len(events) + 1
    BY <1>a, <1>b DEF Beginning
  <2>10. \A f, g \in inFlight' : f.event = g.event => f = g
    BY <2>2, <2>5, <2>9 DEF InFlightAgrees
  <2>11. QED
    BY <2>3, <2>8, <2>10 DEF InFlightAgrees, Beginning, Redact
<1>4. ASSUME NEW f \in inFlight, EndCall(f) PROVE InFlightAgrees' /\ ResultsNameTheirCalls'
  <2> DEFINE e == Event("tool_result", Redact(f.call), {f.event})
  <2>1. /\ e.kind = "tool_result" /\ e.deps = {f.event} /\ e.value = Redact(f.call)
        /\ e \in EventType
    BY RedactType DEF Event, EventType, Kinds, Typed
  <2>2. events' = Append(events, e) /\ inFlight' = inFlight \ {f}
    BY <1>4 DEF EndCall, Result, Record
  <2> HIDE DEF e
  <2>3. Each(events') /\ Once(events') /\ events' \in Seq(EventType)
    <3>1. /\ f.event \in DOMAIN events
          /\ e.deps = {f.event} /\ events[f.event].kind = "tool_call"
          /\ events[f.event].value = e.value
          /\ \A i \in DOMAIN events :
                events[i].kind = "tool_result" => events[i].deps # {f.event}
      BY <1>b, <2>1 DEF Beginning
    <3>2. Each(Append(events, e)) /\ Once(Append(events, e))
      BY <1>a, <1>b, <2>1, <3>1, AppendNames
    <3>3. QED
      BY <1>a, <2>1, <2>2, <3>2
  <2>4. ASSUME NEW g \in inFlight' PROVE Beginning(events', g)
    <3>1. g \in inFlight /\ g.event # f.event
      BY <2>2 DEF InFlightAgrees
    <3>2. e.deps # {g.event}
      BY <2>1, <3>1
    <3>3. QED
      BY <1>a, <1>b, <2>1, <2>2, <3>1, <3>2, AppendBeginning
  <2>5. ResultsNameTheirCalls'
    BY <2>3, EachOnce DEF ResultsNameTheirCalls, Named
  <2>6. QED
    BY <2>2, <2>4, <2>5 DEF InFlightAgrees, Beginning, Redact
<1>5. ASSUME NEW call \in Calls, CaptureDirectCall(call) PROVE InFlightAgrees' /\ ResultsNameTheirCalls'
  <2> DEFINE a == Event("tool_call", Redact(call), Dependency(lastResponse))
             b == Event("tool_result", Redact(call), {Len(events) + 1})
             s == Append(events, a)
  <2>1. /\ a \in EventType /\ a.kind = "tool_call" /\ a.value = Redact(call)
        /\ b \in EventType /\ b.kind = "tool_result" /\ b.deps = {Len(events) + 1}
        /\ b.value = Redact(call)
    BY <1>a, RedactType, AnswersType DEF Event, EventType, Kinds, Dependency, Typed
  <2>2. events' = Append(s, b) /\ inFlight' = inFlight
    BY <1>5, <1>a DEF CaptureDirectCall, runnerVars
  <2> HIDE DEF a, b
  <2>3. /\ s \in Seq(EventType) /\ DOMAIN s = 1..(Len(events) + 1)
        /\ s[Len(events) + 1] = a
        /\ \A k \in 1..Len(events) : s[k] = events[k]
    BY <1>a, <2>1
  <2>4. Each(s) /\ Once(s)
    BY <1>a, <1>b, <2>1, AppendNames
  <2>5. \A f \in inFlight : Beginning(s, f) /\ f.event # Len(events) + 1
    BY <1>a, <1>b, <2>1, AppendBeginning DEF Beginning
  <2> HIDE DEF s
  <2>6. /\ Len(events) + 1 \in DOMAIN s
        /\ \A k \in DOMAIN s : s[k].kind = "tool_result" => s[k].deps # {Len(events) + 1}
    <3>1. ASSUME NEW k \in 1..Len(events), events[k].kind = "tool_result"
          PROVE  events[k].deps # {Len(events) + 1}
      BY <1>a, <1>b, <3>1, DepsAreEarlier
    <3>2. QED
      BY <1>a, <2>1, <2>3, <3>1
  <2>7. Each(Append(s, b)) /\ Once(Append(s, b))
    <3>1. s[Len(events) + 1].kind = "tool_call" /\ s[Len(events) + 1].value = b.value
      BY <2>1, <2>3
    <3>2. QED
      BY <2>1, <2>3, <2>4, <2>6, <3>1, AppendNames
  <2>8. events' \in Seq(EventType) /\ Each(events') /\ Once(events')
    BY <2>1, <2>2, <2>3, <2>7
  <2>9. ResultsNameTheirCalls'
    BY <2>8, EachOnce DEF ResultsNameTheirCalls, Named
  <2>10. ASSUME NEW f \in inFlight' PROVE Beginning(events', f)
    <3>1. b.deps # {f.event}
      BY <2>1, <2>2, <2>5
    <3>2. QED
      BY <2>1, <2>2, <2>3, <2>5, <3>1, AppendBeginning
  <2>11. QED
    BY <2>2, <2>9, <2>10 DEF InFlightAgrees, Beginning, Redact
<1>6. CASE UNCHANGED <<events, redacted>> /\ inFlight' \subseteq inFlight
  BY <1>6, <1>c
<1>7. QED
  BY <1>1, <1>2, <1>3, <1>4, <1>5, <1>6, StepRecords

-------------------------------------------------------------------------------
(* The rerun and what it has consumed.                                        *)

LEMMA AlikeAppend ==
    ASSUME NEW left \in Seq(EventType), NEW right \in Seq(EventType), Alike(left, right),
           NEW e \in EventType, NEW f \in EventType, Same(e, f)
    PROVE  Alike(Append(left, e), Append(right, f))
<1>1. Len(left) = Len(right) /\ Len(left) \in Nat
  BY DEF Alike
<1>2. ASSUME NEW i \in 1..(Len(left) + 1)
      PROVE  Same(Append(left, e)[i], Append(right, f)[i])
  BY <1>1, <1>2 DEF Alike
<1>3. DOMAIN Append(left, e) = 1..(Len(left) + 1)
      /\ Len(Append(left, e)) = Len(Append(right, f))
  BY <1>1
<1>4. QED
  BY <1>2, <1>3 DEF Alike

\* A pair consumed is one more call consumed.
LEMMA ConsumedPair ==
    ASSUME events \in Seq(EventType), NEW c \in Nat, c + 2 <= Len(events),
           events[c + 1].kind \in CallKinds, events[c + 2].kind \notin CallKinds
    PROVE  /\ Consumed(c) \in Seq(EventType) /\ events[c + 1] \in EventType
           /\ Consumed(c + 2) = Append(Consumed(c), events[c + 1])
<1> DEFINE s(n) == SubSeq(events, 1, n)
<1>1. /\ s(c) \in Seq(EventType) /\ s(c + 1) \in Seq(EventType)
      /\ events[c + 1] \in EventType /\ events[c + 2] \in EventType
  OBVIOUS
<1>2. s(c + 1) = Append(s(c), events[c + 1])
  OBVIOUS
<1>3. s(c + 2) = Append(s(c + 1), events[c + 2])
  OBVIOUS
<1> HIDE DEF s
<1>4. OfKind(s(c + 1), CallKinds) = Append(OfKind(s(c), CallKinds), events[c + 1])
  BY ZenonT(60), <1>1, <1>2, OfKindAppend
<1>5. OfKind(s(c + 2), CallKinds) = OfKind(s(c + 1), CallKinds)
  <2>1. OfKind(Append(s(c + 1), events[c + 2]), CallKinds) =
          IF events[c + 2].kind \in CallKinds
          THEN Append(OfKind(s(c + 1), CallKinds), events[c + 2])
          ELSE OfKind(s(c + 1), CallKinds)
    BY <1>1, OfKindAppend
  <2>2. QED
    BY <1>3, <2>1
<1>6. OfKind(s(c), CallKinds) \in Seq(EventType)
  BY <1>1, OfKindType
<1>7. QED
  BY <1>1, <1>4, <1>5, <1>6 DEF Consumed, s

\* Nothing was recorded, and nothing asked.
LEMMA NothingIsCovered == Covers(<<>>, <<>>)
<1> DEFINE place == [i \in {} |-> 0]
<1>1. DOMAIN <<>> = {} /\ place \in [{} -> {}]
  OBVIOUS
<1> HIDE DEF place
<1>2. QED
  BY <1>1 DEF Covers

\* The next that was recorded is asked.
LEMMA CoversNext ==
    ASSUME NEW asked \in Seq(EventType), NEW recorded \in Seq(EventType),
           Covers(asked, recorded), NEW e \in EventType, NEW f \in EventType, Same(e, f)
    PROVE  Covers(Append(asked, e), Append(recorded, f))
<1> DEFINE more == Append(asked, e)
           longer == Append(recorded, f)
           n == Len(asked)
           k == Len(recorded)
<1>1. PICK place \in [DOMAIN recorded -> DOMAIN asked] :
         /\ \A i, j \in DOMAIN recorded : i < j => place[i] < place[j]
         /\ \A i \in DOMAIN recorded : Same(asked[place[i]], recorded[i])
         /\ \A j \in DOMAIN asked : asked[j].kind = "model_request" \/ j \in Range(place)
  BY DEF Covers
<1>2. /\ n \in Nat /\ k \in Nat /\ DOMAIN asked = 1..n /\ DOMAIN recorded = 1..k
      /\ DOMAIN more = 1..(n + 1) /\ DOMAIN longer = 1..(k + 1)
      /\ \A j \in 1..n : more[j] = asked[j]
      /\ more[n + 1] = e
      /\ \A i \in 1..k : longer[i] = recorded[i]
      /\ longer[k + 1] = f
  OBVIOUS
<1> DEFINE new == [i \in 1..(k + 1) |-> IF i = k + 1 THEN n + 1 ELSE place[i]]
<1> HIDE DEF more, longer, n, k
<1>3. /\ \A i \in 1..k : new[i] = place[i] /\ new[i] \in 1..n
      /\ new[k + 1] = n + 1 /\ DOMAIN new = 1..(k + 1)
  BY <1>1, <1>2
<1>4. new \in [1..(k + 1) -> 1..(n + 1)]
  <2>1. \A i \in 1..(k + 1) : new[i] \in 1..(n + 1)
    BY <1>2, <1>3
  <2>2. QED
    BY <2>1
<1> HIDE DEF new
<1>5. \A i, j \in 1..(k + 1) : i < j => new[i] < new[j]
  <2>1. SUFFICES ASSUME NEW i \in 1..(k + 1), NEW j \in 1..(k + 1), i < j
                 PROVE  new[i] < new[j]
    OBVIOUS
  <2>2. i \in 1..k
    BY <1>2, <2>1
  <2>3. CASE j = k + 1
    BY <1>2, <1>3, <2>2, <2>3
  <2>4. CASE j \in 1..k
    <3>1. place[i] < place[j]
      BY <1>1, <1>2, <2>1, <2>2, <2>4
    <3>2. QED
      BY <1>3, <2>2, <2>4, <3>1
  <2>5. QED
    BY <1>2, <2>3, <2>4
<1>6. \A i \in 1..(k + 1) : Same(more[new[i]], longer[i])
  <2>1. Same(more[new[k + 1]], longer[k + 1])
    BY <1>2, <1>3
  <2>2. ASSUME NEW i \in 1..k PROVE Same(more[new[i]], longer[i])
    <3>1. Same(asked[place[i]], recorded[i])
      BY <1>1, <1>2
    <3>2. more[new[i]] = asked[place[i]] /\ longer[i] = recorded[i]
      BY <1>2, <1>3
    <3>3. QED
      BY <3>1, <3>2
  <2>3. QED
    BY <1>2, <2>1, <2>2
<1>7. \A j \in 1..(n + 1) : more[j].kind = "model_request" \/ j \in Range(new)
  <2>1. Range(place) \subseteq Range(new) /\ n + 1 \in Range(new)
    <3>1. n + 1 \in Range(new)
      BY SMTT(60), <1>2, <1>3 DEF Range
    <3>2. ASSUME NEW j \in Range(place) PROVE j \in Range(new)
      <4>1. PICK i \in 1..k : place[i] = j
        BY <1>1, <1>2 DEF Range
      <4>2. i \in 1..(k + 1) /\ new[i] = j
        BY <1>2, <1>3, <4>1
      <4>3. QED
        BY <1>3, <4>2 DEF Range
    <3>3. QED
      BY <3>1, <3>2
  <2>2. ASSUME NEW j \in 1..n PROVE more[j].kind = "model_request" \/ j \in Range(new)
    <3>1. asked[j].kind = "model_request" \/ j \in Range(place)
      BY <1>1, <1>2
    <3>2. more[j] = asked[j]
      BY <1>2
    <3>3. QED
      BY <2>1, <3>1, <3>2
  <2>3. QED
    BY <1>2, <2>1, <2>2
<1>8. Covers(more, longer)
  BY <1>2, <1>4, <1>5, <1>6, <1>7 DEF Covers
<1>9. QED
  BY <1>8 DEF more, longer

\* The model is asked for what was not recorded.
LEMMA CoversBeside ==
    ASSUME NEW asked \in Seq(EventType), NEW recorded, Covers(asked, recorded),
           NEW e \in EventType, e.kind = "model_request"
    PROVE  Covers(Append(asked, e), recorded)
<1> DEFINE more == Append(asked, e)
           n == Len(asked)
<1>1. PICK place \in [DOMAIN recorded -> DOMAIN asked] :
         /\ \A i, j \in DOMAIN recorded : i < j => place[i] < place[j]
         /\ \A i \in DOMAIN recorded : Same(asked[place[i]], recorded[i])
         /\ \A j \in DOMAIN asked : asked[j].kind = "model_request" \/ j \in Range(place)
  BY DEF Covers
<1>2. /\ n \in Nat /\ DOMAIN asked = 1..n /\ DOMAIN more = 1..(n + 1)
      /\ \A j \in 1..n : more[j] = asked[j]
      /\ more[n + 1] = e
  OBVIOUS
<1> HIDE DEF more, n
<1>3. place \in [DOMAIN recorded -> DOMAIN more]
  BY <1>1, <1>2
<1>4. \A i \in DOMAIN recorded : Same(more[place[i]], recorded[i])
  BY <1>1, <1>2
<1>5. \A j \in DOMAIN more : more[j].kind = "model_request" \/ j \in Range(place)
  BY <1>1, <1>2
<1>6. Covers(more, recorded)
  BY <1>1, <1>3, <1>4, <1>5 DEF Covers
<1>7. QED
  BY <1>6 DEF more

\* What is asked is that of the pair consumed.
LEMMA MatchSays ==
    ASSUME Typed, NEW call \in EventType, call.kind \in CallKinds, Matches(call)
    PROVE  /\ cursor + 2 <= Len(events) /\ Same(call, events[cursor + 1])
           /\ events[cursor + 1].kind \in CallKinds
           /\ events[cursor + 2].kind \notin CallKinds
BY DEF Matches, PairAt, CallKinds, Same

LEMMA MatchAgrees ==
    ASSUME Typed, NEW call \in EventType, call.kind \in CallKinds, Matches(call)
    PROVE  /\ cursor + 2 <= Len(events)
           /\ Covers(made, Consumed(cursor)) => Covers(Append(made, call), Consumed(cursor + 2))
           /\ Alike(made, Consumed(cursor)) => Alike(Append(made, call), Consumed(cursor + 2))
<1> DEFINE e == events[cursor + 1]
<1>1. /\ cursor + 2 <= Len(events) /\ Same(call, e)
      /\ e.kind \in CallKinds /\ events[cursor + 2].kind \notin CallKinds
  BY MatchSays
<1>2. /\ Consumed(cursor) \in Seq(EventType) /\ e \in EventType
      /\ Consumed(cursor + 2) = Append(Consumed(cursor), e)
  BY <1>1, ConsumedPair DEF Typed
<1>3. made \in Seq(EventType)
  BY DEF Typed
<1> HIDE DEF e
<1>4. Covers(made, Consumed(cursor)) => Covers(Append(made, call), Append(Consumed(cursor), e))
  BY <1>1, <1>2, <1>3, CoversNext
<1>5. Alike(made, Consumed(cursor)) => Alike(Append(made, call), Append(Consumed(cursor), e))
  BY <1>1, <1>2, <1>3, AlikeAppend
<1>6. QED
  BY <1>1, <1>2, <1>4, <1>5

LEMMA NothingAlike == Alike(<<>>, Consumed(0)) /\ Covers(<<>>, Consumed(0))
<1>1. SubSeq(events, 1, 0) = <<>>
  OBVIOUS
<1>2. Consumed(0) = <<>>
  BY <1>1, OfKindEmpty DEF Consumed
<1>3. Alike(<<>>, <<>>)
  BY DEF Alike
<1>4. QED
  BY <1>2, <1>3, NothingIsCovered

\* The rerun keeps agreeing with what it consumed.
LEMMA StepReplay ==
    ASSUME Typed, ReplayAgrees, [Next]_vars
    PROVE  ReplayAgrees'
<1>a. events \in Seq(EventType) /\ Len(events) \in Nat /\ made \in Seq(EventType)
  BY DEF Typed
<1>b. ASSUME UNCHANGED <<events, swallows, cursor, made, deferred>>,
             phase' \in {phase, "abandoned", "failed"}
      PROVE  ReplayAgrees'
  BY <1>b DEF ReplayAgrees, Consumed
<1>c. ASSUME phase = "replaying", phase' \in {phase, "failed"}, ~deferred, ~deferred',
             UNCHANGED <<events, swallows>>,
             NEW call \in EventType, call.kind \in CallKinds, Matches(call),
             cursor' = cursor + 2, made' = Append(made, call)
      PROVE  ReplayAgrees'
  <2>1. /\ Covers(made, Consumed(cursor))
        /\ ~swallows => Alike(made, Consumed(cursor))
    BY <1>c DEF ReplayAgrees
  <2>2. /\ cursor + 2 <= Len(events)
        /\ Covers(Append(made, call), Consumed(cursor + 2))
        /\ ~swallows => Alike(Append(made, call), Consumed(cursor + 2))
    BY <1>c, <2>1, MatchAgrees
  <2>3. Consumed(cursor)' = Consumed(cursor + 2)
    BY <1>c DEF Consumed
  <2>4. QED
    BY <1>c, <2>2, <2>3 DEF ReplayAgrees, Covers, Alike
<1>1. ASSUME CaptureStep PROVE ReplayAgrees'
  <2>1. /\ UNCHANGED <<cursor, made, deferred>> /\ phase = "capturing"
        /\ phase' \in {"capturing", "abandoned", "captured", "ineligible"}
    BY <1>1 DEF CaptureStep, CaptureRequest, ResponseRefused, CaptureResponse, BeginCall,
       EndCall, CaptureRaises, CaptureDirectCall, CaptureEnds, replayVars, Capturing,
       Raised, Broken
  <2>2. QED
    BY <2>1 DEF ReplayAgrees
<1>2. ASSUME BeginReplay PROVE ReplayAgrees'
  <2>1. /\ UNCHANGED <<events, cursor, made, deferred>> /\ phase' = "replaying"
        /\ cursor = 0 /\ made = <<>> /\ ~deferred
    BY <1>2 DEF BeginReplay, captureVars, replayVars, ReplayAgrees
  <2>2. cursor' <= Len(events)'
    BY <1>a, <2>1
  <2>3. made' = <<>> /\ cursor' = 0
    BY <2>1
  <2>4. Alike(made', Consumed(cursor)') /\ Covers(made', Consumed(cursor)')
    BY <2>1, <2>3, NothingAlike DEF Consumed
  <2>5. QED
    BY <2>1, <2>2, <2>4 DEF ReplayAgrees, Covers, Alike
<1>3. ASSUME NEW ask \in Asks, ReplayRequest(ask) PROVE ReplayAgrees'
  <2> DEFINE request == Event("model_request", ask, {})
  <2>1. request \in EventType /\ request.kind = "model_request"
    BY DEF Event, EventType, Kinds
  <2>2. /\ phase = "replaying" /\ phase' \in {phase, "failed"} /\ ~deferred
        /\ UNCHANGED <<events, swallows, deferred>>
        /\ Matches(request) /\ cursor' = cursor + 2 /\ made' = Append(made, request)
    BY <1>3 DEF ReplayRequest, Made, Raised, Broken, Replaying, Capturing, captureVars
  <2> HIDE DEF request
  <2>3. QED
    BY <1>c, <2>1, <2>2 DEF CallKinds
<1>4. ASSUME NEW ask \in Asks, ReplayRequestRaises(ask) PROVE ReplayAgrees'
  <2> DEFINE request == Event("model_request", ask, {})
  <2>1. request \in EventType /\ request.kind = "model_request"
    BY DEF Event, EventType, Kinds
  <2>2. /\ phase = "replaying" /\ phase' \in {phase, "failed"}
        /\ ~swallows => phase' = "failed"
        /\ UNCHANGED <<events, swallows, cursor, deferred>> /\ made' = Append(made, request)
    BY <1>4 DEF ReplayRequestRaises, Made, Raised, Broken, Replaying, Capturing, captureVars
  <2>3. cursor <= Len(events) /\ (~deferred => Covers(made, Consumed(cursor)))
    BY <2>2 DEF ReplayAgrees
  <2>4. ~deferred => Covers(Append(made, request), Consumed(cursor))
    BY <1>a, <2>1, <2>3, CoversBeside
  <2>5. Consumed(cursor)' = Consumed(cursor)
    BY <2>2 DEF Consumed
  <2> HIDE DEF request
  <2>6. ~deferred' => Covers(made', Consumed(cursor)')
    BY <2>2, <2>4, <2>5
  <2>7. QED
    BY <2>2, <2>3, <2>6 DEF ReplayAgrees, Covers
<1>5. ASSUME ReplayTurnsUsedUp PROVE ReplayAgrees'
  <2>1. UNCHANGED <<events, swallows, cursor, made, deferred>> /\ phase' \in {phase,
     "abandoned", "failed"}
    BY <1>5 DEF ReplayTurnsUsedUp, captureVars, replayVars, Raised, Broken
  <2>2. QED
    BY <2>1, <1>b
<1>6. ASSUME NEW i \in waiting, ReplayCall(i) PROVE ReplayAgrees'
  <2> DEFINE asked == Event("tool_call", calls[i], {})
  <2>1. asked \in EventType /\ asked.kind = "tool_call"
    BY DEF Event, EventType, Kinds, Typed
  <2>2. /\ phase = "replaying" /\ phase' = phase /\ UNCHANGED <<events, swallows>>
        /\ Consume(asked)
    BY <1>6 DEF ReplayCall, Replaying, captureVars
  <2> HIDE DEF asked
  <2>3. /\ made' = Append(made, asked) /\ (deferred' <=> deferred \/ ~Matches(asked))
        /\ Matches(asked) => cursor' = cursor + 2
        /\ ~Matches(asked) => cursor' = cursor
    BY <2>2 DEF Consume, Made
  <2>4. CASE deferred'
    <3>1. cursor' <= Len(events)
      BY <2>1, <2>2, <2>3, MatchSays DEF CallKinds, ReplayAgrees
    <3>2. QED
      BY <2>2, <2>4, <3>1 DEF ReplayAgrees
  <2>5. CASE ~deferred'
    BY <1>c, <2>1, <2>2, <2>3, <2>5 DEF CallKinds
  <2>6. QED
    BY <2>4, <2>5
<1>7. ASSUME NEW call \in Calls, ReplayDirectCall(call) PROVE ReplayAgrees'
  <2> DEFINE asked == Event("tool_call", call, {})
  <2>1. asked \in EventType /\ asked.kind = "tool_call"
    BY AnswersType DEF Event, EventType, Kinds
  <2>2. /\ phase = "replaying" /\ phase' = phase /\ UNCHANGED <<events, swallows>>
        /\ Consume(asked)
    BY <1>7 DEF ReplayDirectCall, Replaying, captureVars
  <2> HIDE DEF asked
  <2>3. /\ made' = Append(made, asked) /\ (deferred' <=> deferred \/ ~Matches(asked))
        /\ Matches(asked) => cursor' = cursor + 2
        /\ ~Matches(asked) => cursor' = cursor
    BY <2>2 DEF Consume, Made
  <2>4. CASE deferred'
    <3>1. cursor' <= Len(events)
      BY <2>1, <2>2, <2>3, MatchSays DEF CallKinds, ReplayAgrees
    <3>2. QED
      BY <2>2, <2>4, <3>1 DEF ReplayAgrees
  <2>5. CASE ~deferred'
    BY <1>c, <2>1, <2>2, <2>3, <2>5 DEF CallKinds
  <2>6. QED
    BY <2>4, <2>5
<1>8. ASSUME LiveAttempt PROVE ReplayAgrees'
  <2>1. UNCHANGED <<events, swallows, cursor, made, deferred>> /\ phase' \in {phase,
     "abandoned", "failed"}
    BY <1>8 DEF LiveAttempt, captureVars, replayVars, Raised, Broken
  <2>2. QED
    BY <2>1, <1>b
<1>9. ASSUME ReplayEnds PROVE ReplayAgrees'
  <2>1. /\ UNCHANGED <<events, swallows, cursor, made, deferred>>
        /\ phase = "replaying" /\ phase' \in {"reported", "failed"}
        /\ phase' = "reported" => ~deferred /\ cursor = Len(events)
    BY <1>9 DEF ReplayEnds, Accepted, Replaying, captureVars
  <2>2. QED
    BY <2>1 DEF ReplayAgrees, Consumed
<1>10. ASSUME NEW max_turns \in 1..MaxTurns, Run(max_turns) PROVE ReplayAgrees'
  <2>1. UNCHANGED <<events, swallows, cursor, made, deferred>> /\ phase' \in {phase,
     "abandoned", "failed"}
    BY <1>10 DEF Run, captureVars, replayVars, Raised, Broken
  <2>2. QED
    BY <2>1, <1>b
<1>11. ASSUME NEW agent \in Agents, RunRefused(agent) PROVE ReplayAgrees'
  <2>1. UNCHANGED <<events, swallows, cursor, made, deferred>> /\ phase' \in {phase,
     "abandoned", "failed"}
    BY <1>11 DEF RunRefused, captureVars, replayVars, Raised, Broken
  <2>2. QED
    BY <2>1, <1>b
<1>12. ASSUME NEW ask \in Asks, RequestRefused(ask) PROVE ReplayAgrees'
  <2>1. UNCHANGED <<events, swallows, cursor, made, deferred>> /\ phase' \in {phase,
     "abandoned", "failed"}
    BY <1>12 DEF RequestRefused, captureVars, replayVars, Raised, Broken
  <2>2. QED
    BY <2>1, <1>b
<1>13. ASSUME RunAgain PROVE ReplayAgrees'
  <2>1. UNCHANGED <<events, swallows, cursor, made, deferred>> /\ phase' \in {phase,
     "abandoned", "failed"}
    BY <1>13 DEF RunAgain, captureVars, replayVars, Raised, Broken
  <2>2. QED
    BY <2>1, <1>b
<1>14. CASE UNCHANGED vars
  BY <1>14, <1>b DEF vars, captureVars, replayVars
<1>15. QED
  BY <1>1, <1>2, <1>3, <1>4, <1>5, <1>6, <1>7, <1>8, <1>9, <1>10, <1>11, <1>12, <1>13,
     <1>14 DEF Next, ReplayStep

-------------------------------------------------------------------------------
(* What redaction takes.                                                      *)

Marked(e) ==
    CASE e.kind = "model_response" -> Masked \in Range(e.value)
      [] e.kind = "model_request" -> FALSE
      [] OTHER -> e.value = Masked

\* No key of a supported request, and none of a usage, is the name of a secret.
LEMMA KeysAreNotSecret ==
    /\ UsageKeys \intersect SecretKeys = {}
    /\ \A request : SupportedRequest(request) => RequestKeys(request) \intersect SecretKeys = {}
<1>1. UsageKeys \intersect SecretKeys = {}
  BY DEF UsageKeys, SecretKeys
<1>2. ASSUME NEW request, SupportedRequest(request)
      PROVE  RequestKeys(request) \intersect SecretKeys = {}
  <2>1. request.settings \subseteq SupportedSettings
    BY <1>2 DEF SupportedRequest
  <2>2. \A key \in SettingKeys(request.settings) : key \notin SecretKeys
    BY <2>1 DEF SettingKeys, SupportedSettings, SecretKeys
  <2>3. QED
    BY <2>2 DEF RequestKeys, SecretKeys
<1>3. QED
  BY <1>1, <1>2

LEMMA RedactedResponse ==
    ASSUME NEW answer \in Seq(Kept), RedactAll(answer) # answer
    PROVE  Masked \in Range(RedactAll(answer))
<1>1. RedactAll(answer) \in Seq(Kept) /\ Len(RedactAll(answer)) = Len(answer)
  BY RedactType
<1>2. PICK i \in 1..Len(answer) : RedactAll(answer)[i] # answer[i]
  BY <1>1
<1>3. RedactAll(answer)[i] = Redact(answer[i])
  BY DEF RedactAll
<1>4. RedactAll(answer)[i] = Masked
  BY <1>2, <1>3 DEF Redact
<1>5. i \in DOMAIN RedactAll(answer)
  BY <1>1
<1>6. QED
  BY <1>4, <1>5 DEF Range

\* What redaction takes keeps showing.
LEMMA StepRedaction ==
    ASSUME FlagsTyped, Typed, RedactionShows, [Next]_vars
    PROVE  RedactionShows'
<1>a. events \in Seq(EventType) /\ Len(events) \in Nat /\ DOMAIN events = 1..Len(events)
  BY DEF Typed
<1>c. ASSUME redacted' = redacted, 1..Len(events) \subseteq DOMAIN events',
             \A i \in 1..Len(events) : events'[i] = events[i]
      PROVE  RedactionShows'
  <2>1. SUFFICES ASSUME redacted', Asks \intersect Secrets = {}
                 PROVE  \E i \in DOMAIN events' : Marked(events'[i])
    BY DEF RedactionShows, Marked
  <2>2. PICK i \in DOMAIN events : Marked(events[i])
    BY <1>c, <2>1 DEF RedactionShows, Marked
  <2>3. QED
    BY <1>a, <1>c, <2>2
<1>b. ASSUME NEW e \in EventType, events' = Append(events, e),
             redacted' /\ ~redacted /\ Asks \intersect Secrets = {} => Marked(e)
      PROVE  RedactionShows'
  <2>1. SUFFICES ASSUME redacted', Asks \intersect Secrets = {}
                 PROVE  \E i \in DOMAIN events' : Marked(events'[i])
    BY DEF RedactionShows, Marked
  <2>2. /\ DOMAIN events' = 1..(Len(events) + 1) /\ events'[Len(events) + 1] = e
        /\ \A i \in 1..Len(events) : events'[i] = events[i]
    BY <1>a, <1>b
  <2>3. CASE redacted
    <3>1. PICK i \in DOMAIN events : Marked(events[i])
      BY <2>1, <2>3 DEF RedactionShows, Marked
    <3>2. i \in DOMAIN events' /\ events'[i] = events[i]
      BY <1>a, <2>2
    <3>3. QED
      BY <3>1, <3>2
  <2>4. CASE ~redacted
    <3>1. Marked(e) /\ Len(events) + 1 \in DOMAIN events'
      BY <1>a, <1>b, <2>1, <2>2, <2>4
    <3>2. QED
      BY <2>2, <3>1
  <2>5. QED
    BY <2>3, <2>4
<1>1. ASSUME NEW ask \in Asks, CaptureRequest(ask) PROVE RedactionShows'
  <2> DEFINE e == Event("model_request", Redact(ask), Dependency(lastResult))
  <2>1. e \in EventType
    BY RedactType DEF Event, EventType, Kinds, Dependency, Typed
  <2>2. events' = Append(events, e)
    BY <1>1 DEF CaptureRequest, Record, Result
  <2>3. ASSUME redacted', ~redacted, Asks \intersect Secrets = {} PROVE Marked(e)
    <3>1. Redact(ask) = Masked /\ SupportedRequest(Shape[ask])
      BY <1>1, <2>3 DEF CaptureRequest, Record
    <3>2. QED
      BY <2>3, <3>1, KeysAreNotSecret, NamesAssumption DEF Redact
  <2> HIDE DEF e
  <2>4. QED
    BY <1>a, <1>b, <2>1, <2>2, <2>3
<1>2. ASSUME NEW answer \in Answers, CaptureResponse(answer) PROVE RedactionShows'
  <2> DEFINE e == Event("model_response", RedactAll(answer), {Len(events)})
  <2>1. e \in EventType
    BY <1>a, RedactType, AnswersType DEF Event, EventType, Kinds
  <2>2. events' = Append(events, e)
    BY <1>2 DEF CaptureResponse, Record, Result
  <2>3. ASSUME redacted', ~redacted, Asks \intersect Secrets = {} PROVE Marked(e)
    <3>1. RedactAll(answer) # answer
      BY <1>2, <2>3, KeysAreNotSecret DEF CaptureResponse
    <3>2. Masked \in Range(RedactAll(answer))
      BY <3>1, RedactedResponse, AnswersType
    <3>3. QED
      BY <3>2 DEF Marked, Event
  <2> HIDE DEF e
  <2>4. QED
    BY <1>a, <1>b, <2>1, <2>2, <2>3
<1>3. ASSUME NEW i \in waiting, BeginCall(i) PROVE RedactionShows'
  <2> DEFINE e == Event("tool_call", Redact(calls[i]), Dependency(lastResponse))
  <2>5. calls[i] \in Kept
    BY DEF Typed
  <2>1. e \in EventType
    BY <2>5, RedactType DEF Event, EventType, Kinds, Dependency, Typed
  <2>2. events' = Append(events, e)
    BY <1>3 DEF BeginCall, Record, Result
  <2>3. ASSUME redacted', ~redacted, Asks \intersect Secrets = {} PROVE Marked(e)
    <3>1. Redact(calls[i]) = Masked
      BY <1>3, <2>3 DEF BeginCall, Record
    <3>2. QED
      BY <3>1 DEF Marked, Event
  <2> HIDE DEF e
  <2>4. QED
    BY <1>a, <1>b, <2>1, <2>2, <2>3
<1>4. ASSUME NEW f \in inFlight, EndCall(f) PROVE RedactionShows'
  <2> DEFINE e == Event("tool_result", Redact(f.call), {f.event})
  <2>1. e \in EventType
    BY RedactType DEF Event, EventType, Kinds, Typed
  <2>2. events' = Append(events, e)
    BY <1>4 DEF EndCall, Record, Result
  <2>3. ASSUME redacted', ~redacted, Asks \intersect Secrets = {} PROVE Marked(e)
    <3>1. Redact(f.call) = Masked
      BY <1>4, <2>3 DEF EndCall, Result, Record
    <3>2. QED
      BY <3>1 DEF Marked, Event
  <2> HIDE DEF e
  <2>4. QED
    BY <1>a, <1>b, <2>1, <2>2, <2>3
<1>5. ASSUME NEW call \in Calls, CaptureDirectCall(call) PROVE RedactionShows'
  <2> DEFINE a == Event("tool_call", Redact(call), Dependency(lastResponse))
             b == Event("tool_result", Redact(call), {Len(events) + 1})
  <2>1. a \in EventType /\ b \in EventType
    BY <1>a, RedactType, AnswersType DEF Event, EventType, Kinds, Dependency, Typed
  <2>2. events' = events \o <<a, b>> /\ redacted' = (redacted \/ Redact(call) # call)
    BY <1>5, <1>a DEF CaptureDirectCall
  <2>3. Redact(call) # call => Marked(b)
    BY DEF Marked, Event, Redact
  <2> HIDE DEF a, b
  <2>4. /\ DOMAIN events' = 1..(Len(events) + 2) /\ events'[Len(events) + 2] = b
        /\ \A i \in 1..Len(events) : events'[i] = events[i]
    BY <1>a, <2>1, <2>2
  <2>5. CASE Redact(call) # call
    <3>1. \E i \in DOMAIN events' : Marked(events'[i])
      BY <1>a, <2>3, <2>4, <2>5
    <3>2. QED
      BY <3>1 DEF RedactionShows, Marked
  <2>6. CASE Redact(call) = call
    <3>1. redacted' = redacted
      BY <2>2, <2>6 DEF FlagsTyped
    <3>2. QED
      BY <1>a, <1>c, <2>4, <3>1
  <2>7. QED
    BY <2>5, <2>6
<1>6. CASE UNCHANGED <<events, redacted>> /\ inFlight' \subseteq inFlight
  BY <1>6 DEF RedactionShows
<1>7. QED
  BY <1>1, <1>2, <1>3, <1>4, <1>5, <1>6, StepRecords

-------------------------------------------------------------------------------
(* Plain sessions.                                                            *)

\* One more event keeps a recording regular.
LEMMA RegularAppend ==
    ASSUME NEW s \in Seq(EventType), Regular(s), NEW e \in EventType,
           Odd(Len(s) + 1) => e.kind \in CallKinds,
           ~Odd(Len(s) + 1) => Len(s) # 0 /\ Paired(s[Len(s)], e),
           e.kind \notin ToolKinds => NoneFinal(s, Len(s)),
           Len(s) # 0 => Follows(s[Len(s)], e)
    PROVE  Regular(Append(s, e))
<1> DEFINE n == Len(s)
           t == Append(s, e)
<1>1. /\ n \in Nat /\ DOMAIN s = 1..n /\ DOMAIN t = 1..(n + 1) /\ Len(t) = n + 1
      /\ t[n + 1] = e /\ \A i \in 1..n : t[i] = s[i]
  OBVIOUS
<1>2. /\ Odd(n + 1) => e.kind \in CallKinds
      /\ ~Odd(n + 1) => n # 0 /\ Paired(s[n], e)
      /\ e.kind \notin ToolKinds => NoneFinal(s, n)
      /\ n # 0 => Follows(s[n], e)
  OBVIOUS
<1> HIDE DEF n, t
<1>3. \A i \in 1..(n + 1) : Odd(i) => t[i].kind \in CallKinds
  BY <1>1, <1>2 DEF Regular
<1>4. ASSUME NEW i \in 1..(n + 1), ~Odd(i) PROVE Paired(t[i - 1], t[i])
  <2>1. CASE i = n + 1
    <3>1. i - 1 = n /\ n # 0 /\ Paired(s[n], e)
      BY <1>1, <1>2, <1>4, <2>1
    <3>2. QED
      BY <1>1, <2>1, <3>1
  <2>2. CASE i \in 1..n
    <3>1. i - 1 # 0
      BY <1>4 DEF Odd
    <3>2. i - 1 \in 1..n /\ Paired(s[i - 1], s[i])
      BY <1>1, <1>4, <2>2, <3>1 DEF Regular
    <3>3. QED
      BY <1>1, <2>2, <3>2
  <2>3. QED
    BY <1>1, <2>1, <2>2
<1>5. ASSUME NEW i \in 1..(n + 1), NEW j \in 1..(n + 1), IsFinal(t[i]), i < j
      PROVE  t[j].kind \in ToolKinds
  <2>1. i \in 1..n /\ IsFinal(s[i])
    BY <1>1, <1>5
  <2>2. CASE j = n + 1
    BY <1>1, <1>2, <2>1, <2>2 DEF NoneFinal
  <2>3. CASE j \in 1..n
    BY <1>1, <1>5, <2>1, <2>3 DEF Regular
  <2>4. QED
    BY <1>1, <2>2, <2>3
<1>6. ASSUME NEW i \in 1..(n + 1), i < n + 1 PROVE Follows(t[i], t[i + 1])
  <2>1. CASE i = n
    BY <1>1, <1>2, <2>1
  <2>2. CASE i < n
    <3>1. i \in 1..n /\ i + 1 \in 1..n /\ Follows(s[i], s[i + 1])
      BY <1>1, <1>6, <2>2 DEF Regular, n
    <3>2. QED
      BY <1>1, <3>1
  <2>3. QED
    BY <1>1, <1>6, <2>1, <2>2
<1>7. QED
  BY <1>1, <1>3, <1>4, <1>5, <1>6 DEF Regular, t

\* Of a regular recording every other event is a recorded call.
LEMMA ConsumedRegular ==
    ASSUME events \in Seq(EventType), Regular(events)
    PROVE  \A k \in Nat : 2 * k <= Len(events) =>
              /\ Consumed(2 * k) \in Seq(EventType) /\ Len(Consumed(2 * k)) = k
              /\ \A j \in 1..k : Consumed(2 * k)[j] = events[2 * j - 1]
<1> DEFINE Says(k) == /\ Consumed(2 * k) \in Seq(EventType) /\ Len(Consumed(2 * k)) = k
                      /\ \A j \in 1..k : Consumed(2 * k)[j] = events[2 * j - 1]
           T == {k \in Nat : 2 * k <= Len(events) => Says(k)}
<1>1. 0 \in T
  <2>1. SubSeq(events, 1, 0) = <<>>
    OBVIOUS
  <2>2. Consumed(0) = <<>>
    BY <2>1, OfKindEmpty DEF Consumed
  <2> DEFINE none == Consumed(2 * 0)
  <2>3. none = <<>>
    BY <2>2
  <2> HIDE DEF none
  <2>4. none \in Seq(EventType) /\ Len(none) = 0 /\ \A j \in 1..0 : none[j] = events[2 * j - 1]
    BY <2>3
  <2>5. Says(0)
    BY <2>4 DEF none
  <2>6. QED
    BY <2>5
<1>2. ASSUME NEW k \in Nat, k \in T PROVE k + 1 \in T
  <2>1. SUFFICES ASSUME 2 * (k + 1) <= Len(events) PROVE Says(k + 1)
    OBVIOUS
  <2>2. /\ Says(k) /\ 2 * k \in Nat /\ 2 * k + 2 = 2 * (k + 1) /\ 2 * k + 2 <= Len(events)
        /\ 2 * (k + 1) - 1 = 2 * k + 1
    BY <1>2, <2>1
  <2>3. Odd(2 * k + 1) /\ ~Odd(2 * k + 2)
    BY DEF Odd
  <2>4. 2 * k + 1 \in DOMAIN events /\ 2 * k + 2 \in DOMAIN events /\ (2 * k + 2) - 1 = 2 * k + 1
    BY <2>2
  <2>5. events[2 * k + 1].kind \in CallKinds /\ Paired(events[2 * k + 1], events[2 * k + 2])
    BY <2>3, <2>4 DEF Regular
  <2>6. events[2 * k + 2].kind \notin CallKinds
    BY <2>5 DEF Paired, CallKinds
  <2>7. /\ events[2 * k + 1] \in EventType
        /\ Consumed(2 * (k + 1)) = Append(Consumed(2 * k), events[2 * k + 1])
    BY <2>2, <2>5, <2>6, ConsumedPair
  <2> DEFINE before == Consumed(2 * k)
             after == Consumed(2 * (k + 1))
             e == events[2 * k + 1]
  <2>8. /\ before \in Seq(EventType) /\ Len(before) = k /\ e \in EventType
        /\ \A j \in 1..k : before[j] = events[2 * j - 1]
        /\ after = Append(before, e) /\ e = events[2 * (k + 1) - 1]
    BY <2>2, <2>7
  <2> HIDE DEF before, after, e
  <2>9. after \in Seq(EventType) /\ Len(after) = k + 1
    BY <2>8
  <2>10. ASSUME NEW j \in 1..(k + 1) PROVE after[j] = events[2 * j - 1]
    <3>1. CASE j = k + 1
      BY <2>8, <3>1
    <3>2. CASE j \in 1..k
      BY <2>8, <3>2
    <3>3. QED
      BY <3>1, <3>2
  <2>11. QED
    BY <2>9, <2>10 DEF after
<1>3. Nat \subseteq T
  BY <1>1, <1>2, Counting
<1>4. QED
  BY <1>3

LEMMA RecordedRegular ==
    ASSUME events \in Seq(EventType), Regular(events), ~Odd(Len(events))
    PROVE  /\ Len(RecordedCalls) \in Nat /\ 2 * Len(RecordedCalls) = Len(events)
           /\ \A j \in 1..Len(RecordedCalls) : RecordedCalls[j] = events[2 * j - 1]
<1>1. PICK k \in Nat : 2 * k = Len(events)
  <2>1. Len(events) \in Nat /\ Len(events) % 2 = 0
    BY DEF Odd
  <2>2. 2 * (Len(events) \div 2) = Len(events) /\ Len(events) \div 2 \in Nat
    BY <2>1
  <2>3. QED
    BY <2>2
<1>2. SubSeq(events, 1, 2 * k) = events
  BY <1>1
<1>3. RecordedCalls = Consumed(2 * k)
  BY <1>2 DEF RecordedCalls, Consumed
<1>4. 2 * k <= Len(events) /\ 2 * k = Len(events)
  BY <1>1
<1>5. Len(Consumed(2 * k)) = k /\ \A j \in 1..k : Consumed(2 * k)[j] = events[2 * j - 1]
  BY <1>4, ConsumedRegular
<1>6. QED
  BY <1>3, <1>4, <1>5

\* The next recorded call is at the cursor, with its result behind it.
LEMMA NextRecorded ==
    ASSUME Typed, Regular(events), ~Odd(Len(events)), cursor = 2 * Len(made),
           Len(made) < Len(RecordedCalls), NEW call, call.kind \in CallKinds,
           Same(RecordedCalls[Len(made) + 1], call)
    PROVE  /\ cursor + 2 <= Len(events) /\ events[cursor + 1].kind = call.kind
           /\ Paired(events[cursor + 1], events[cursor + 2]) /\ Matches(call)
<1>1. events \in Seq(EventType) /\ Len(made) \in Nat /\ cursor \in Nat /\ Len(events) \in Nat
  BY DEF Typed
<1>2. /\ Len(RecordedCalls) \in Nat /\ 2 * Len(RecordedCalls) = Len(events)
      /\ RecordedCalls[Len(made) + 1] = events[2 * (Len(made) + 1) - 1]
  BY SMTT(60), <1>1, RecordedRegular
<1>3. cursor + 2 <= Len(events) /\ 2 * (Len(made) + 1) - 1 = cursor + 1
  BY <1>1, <1>2
<1>4. Same(events[cursor + 1], call)
  BY <1>2, <1>3
<1>5. ~Odd(cursor + 2)
  BY <1>1 DEF Odd
<1>6. cursor + 2 \in DOMAIN events /\ (cursor + 2) - 1 = cursor + 1
  BY <1>1, <1>3
<1>7. Paired(events[cursor + 1], events[cursor + 2])
  BY <1>5, <1>6 DEF Regular
<1>8. QED
  BY <1>3, <1>4, <1>7 DEF Same, Paired, Matches, PairAt, CallKinds

\* While no answer was the last one, the answer at the cursor can be given.
LEMMA AnswerFollows ==
    ASSUME Typed, PlainSession, Regular(events), Finished(events), NoneFinal(events, cursor),
           cursor + 2 <= Len(events), events[cursor + 1].kind = "model_request",
           events[cursor + 2].kind = "model_response"
    PROVE  Answerable(events[cursor + 2].value)
<1> DEFINE answer == events[cursor + 2].value
<1>1. /\ cursor \in Nat /\ Len(events) \in Nat /\ DOMAIN events = 1..Len(events)
      /\ answer \in Seq(Kept) /\ Len(answer) <= 1
  BY DEF Typed, PlainSession
<1>2. PICK i \in 1..Len(events) : IsFinal(events[i])
  BY <1>1 DEF Finished
<1>3. i > cursor /\ i # cursor + 1
  BY <1>1, <1>2 DEF NoneFinal, IsFinal
<1>4. CASE Len(answer) = 1
  <2>1. answer # <<>>
    BY <1>1, <1>4
  <2>2. i # cursor + 2
    BY <1>2, <2>1 DEF IsFinal
  <2>3. cursor + 2 \in DOMAIN events /\ cursor + 2 < Len(events)
    BY <1>1, <1>2, <1>3, <2>2
  <2>4. Follows(events[cursor + 2], events[(cursor + 2) + 1])
    BY <2>3 DEF Regular
  <2>5. (cursor + 2) + 1 = cursor + 3
    BY <1>1
  <2>6. Same(events[cursor + 3], Event("tool_call", answer[1], {}))
    BY <2>1, <2>4, <2>5 DEF Follows
  <2>7. QED
    BY <1>1, <1>4, <2>3, <2>6 DEF Answerable
<1>5. CASE Len(answer) # 1
  BY <1>1, <1>5 DEF Answerable
<1>6. QED
  BY <1>4, <1>5

\* A plain session keeps standing where it should.
LEMMA StepStands ==
    ASSUME FlagsTyped, Typed, InFlightAgrees, ReplayAgrees, Stands, [Next]_vars
    PROVE  Stands'
<1>a. /\ events \in Seq(EventType) /\ Len(events) \in Nat /\ DOMAIN events = 1..Len(events)
      /\ Len(made) \in Nat /\ cursor \in Nat
  BY DEF Typed
<1>p. ASSUME swallows' = swallows, 1..Len(events) \subseteq DOMAIN events',
             \A k \in 1..Len(events) : events'[k] = events[k], PlainSession'
      PROVE  PlainSession
  BY <1>a, <1>p DEF PlainSession
<1>b. ASSUME UNCHANGED <<events, swallows>>, PlainSession' PROVE PlainSession
  BY <1>b DEF PlainSession
<1>f. ASSUME UNCHANGED <<events, swallows>>, PlainSession',
             phase \in {"capturing", "replaying"}, phase' = Broken,
             phase = "replaying" => departed'
      PROVE  Standing'
  <2>1. Regular(events)
    BY <1>b, <1>f DEF Stands, Standing
  <2>2. phase' \in {"abandoned", "failed"} /\ (phase' = "failed" => departed')
    BY <1>f DEF Broken, Capturing
  <2>3. QED
    BY <1>f, <2>1, <2>2 DEF Standing, EligibleReplays
<1>1. ASSUME NEW ask \in Asks, CaptureRequest(ask) PROVE Stands'
  <2> DEFINE e == Event("model_request", Redact(ask), Dependency(lastResult))
             n == Len(events)
  <2>1. SUFFICES ASSUME PlainSession' PROVE Standing'
    BY DEF Stands
  <2>2. e \in EventType /\ events' = Append(events, e)
    <3>1. e \in EventType
      BY RedactType DEF Event, EventType, Kinds, Dependency, Typed
    <3>2. events' = Append(events, e)
      BY <1>1 DEF CaptureRequest, Record, Result
    <3>3. QED
      BY <3>1, <3>2
  <2>3. /\ DOMAIN events' = 1..(n + 1) /\ Len(events') = n + 1 /\ events'[n + 1] = e
        /\ \A k \in 1..n : events'[k] = events[k]
    BY <1>a, <2>2
  <2>4. PlainSession
    BY <1>1, <1>a, <1>p, <2>1, <2>3 DEF CaptureRequest
  <2>5. phase = "capturing" /\ phase' = phase /\ Regular(events) /\ CaptureStands /\
       ~attempted
        /\ attempted' = attempted
    BY <1>1, <2>4 DEF CaptureRequest, Capturing, Stands, Standing, replayVars
  <2>6. e.kind = "model_request"
    BY DEF Event
  <2> HIDE DEF e, n
  <2>7. /\ runner = "model" /\ ~Odd(n) /\ inFlight = {} /\ NoneFinal(events, n)
        /\ n # 0 => events[n].kind # "model_response"
        /\ runner' = "answering" /\ inFlight' = inFlight
    BY <1>1, <2>5 DEF CaptureRequest, CaptureStands, n
  <2>8. Odd(n + 1) /\ n \in Nat
    BY <1>a, <2>7 DEF Odd, n
  <2>9. Regular(events')
    BY <1>a, <2>2, <2>5, <2>6, <2>7, <2>8, RegularAppend DEF n, CallKinds, Follows
  <2>10. NoneFinal(events', n + 1)
    BY <2>3, <2>6, <2>7, <2>8 DEF NoneFinal, IsFinal
  <2>11. CaptureStands'
    BY <2>3, <2>6, <2>7, <2>8, <2>10 DEF CaptureStands
  <2>12. QED
    BY <2>5, <2>9, <2>11 DEF Standing, EligibleReplays
<1>2. ASSUME NEW response \in Responses, ResponseRefused(response) PROVE Stands'
  <2>1. SUFFICES ASSUME PlainSession' PROVE Standing'
    BY DEF Stands
  <2>2. UNCHANGED <<events, swallows>> /\ ~swallows
    BY <1>2, <2>1 DEF ResponseRefused, captureVars, PlainSession
  <2>3. /\ phase \in {"capturing", "replaying"} /\ phase' = Broken
        /\ phase = "replaying" => departed'
    BY <1>2, <2>2 DEF ResponseRefused, Raised, Capturing, Replaying
  <2>4. QED
    BY <2>1, <2>2, <2>3, <1>f
<1>3. ASSUME NEW answer \in Answers, CaptureResponse(answer) PROVE Stands'
  <2> DEFINE e == Event("model_response", RedactAll(answer), {Len(events)})
             n == Len(events)
  <2>1. SUFFICES ASSUME PlainSession' PROVE Standing'
    BY DEF Stands
  <2>2. e \in EventType /\ events' = Append(events, e)
    <3>1. e \in EventType
      BY <1>a, RedactType, AnswersType DEF Event, EventType, Kinds
    <3>2. events' = Append(events, e)
      BY <1>3 DEF CaptureResponse, Record, Result
    <3>3. QED
      BY <3>1, <3>2
  <2>3. /\ DOMAIN events' = 1..(n + 1) /\ Len(events') = n + 1 /\ events'[n + 1] = e
        /\ \A k \in 1..n : events'[k] = events[k]
    BY <1>a, <2>2
  <2>4. PlainSession
    BY <1>3, <1>a, <1>p, <2>1, <2>3 DEF CaptureResponse
  <2>5. phase = "capturing" /\ phase' = phase /\ Regular(events) /\ CaptureStands /\
       ~attempted
        /\ attempted' = attempted
    BY <1>3, <2>4 DEF CaptureResponse, Capturing, Stands, Standing, replayVars
  <2>6. e.kind = "model_response" /\ e.value = RedactAll(answer)
    BY DEF Event
  <2>7. answer \in Seq(Kept) /\ RedactAll(answer) \in Seq(Kept) /\ Len(RedactAll(answer))
       = Len(answer)
    BY RedactType, AnswersType
  <2>8. Len(answer) \in {0, 1}
    <3>1. Len(events'[n + 1].value) <= 1
      BY <1>a, <2>1, <2>3, <2>6 DEF PlainSession
    <3>2. QED
      BY <2>3, <2>6, <2>7, <3>1
  <2> HIDE DEF e, n
  <2>9. /\ runner = "answering" /\ Odd(n) /\ inFlight = {} /\ NoneFinal(events, n)
        /\ events[n].kind = "model_request" /\ inFlight' = inFlight
        /\ calls' = answer /\ waiting' = DOMAIN answer
        /\ runner' = IF answer = <<>> THEN "returned" ELSE "tools"
    BY <1>3, <2>5 DEF CaptureResponse, CaptureStands, n
  <2>10. ~Odd(n + 1) /\ n \in Nat /\ n # 0
    BY <1>a, <2>9 DEF Odd, n
  <2>11. Regular(events')
    <3>1. Paired(events[n], e) /\ Follows(events[n], e)
      BY <2>6, <2>9 DEF Paired, Follows
    <3>2. QED
      BY <1>a, <2>2, <2>5, <2>9, <2>10, <3>1, RegularAppend DEF n
  <2>12. CASE answer = <<>>
    <3>1. IsFinal(events'[n + 1]) /\ n + 1 \in DOMAIN events'
      BY <2>3, <2>6, <2>7, <2>10, <2>12 DEF IsFinal
    <3>2. CaptureStands'
      BY <2>3, <2>9, <2>10, <2>12, <3>1 DEF CaptureStands
    <3>3. QED
      BY <2>5, <2>11, <3>2 DEF Standing, EligibleReplays
  <2>13. CASE answer # <<>>
    <3>1. Len(answer) = 1 /\ DOMAIN answer = {1}
      BY <2>7, <2>8, <2>13
    <3>7. RedactAll(answer) # <<>>
      BY SMTT(60), <2>7, <3>1
    <3>2. NoneFinal(events', n + 1)
      BY <2>3, <2>6, <2>9, <2>10, <3>7 DEF NoneFinal, IsFinal
    <3>3. RedactAll(calls)' = RedactAll(answer)
      BY <2>9 DEF RedactAll, Redact
    <3>4. /\ runner' = "tools" /\ Len(calls') = 1 /\ waiting' = {1} /\ inFlight' = {}
          /\ Len(events') # 0 /\ ~Odd(Len(events'))
          /\ events'[Len(events')].kind = "model_response"
          /\ events'[Len(events')].value = RedactAll(calls)'
      BY <2>3, <2>6, <2>9, <2>10, <2>13, <3>1, <3>3
    <3>5. CaptureStands'
      BY <2>3, <3>2, <3>4 DEF CaptureStands
    <3>6. QED
      BY <2>5, <2>11, <3>5 DEF Standing, EligibleReplays
  <2>14. QED
    BY <2>12, <2>13
<1>4. ASSUME NEW i \in waiting, BeginCall(i) PROVE Stands'
  <2> DEFINE e == Event("tool_call", Redact(calls[i]), Dependency(lastResponse))
             n == Len(events)
  <2>1. SUFFICES ASSUME PlainSession' PROVE Standing'
    BY DEF Stands
  <2>2. e \in EventType /\ events' = Append(events, e)
    <3>4. calls[i] \in Kept
      BY DEF Typed
    <3>1. e \in EventType
      BY <3>4, RedactType DEF Event, EventType, Kinds, Dependency, Typed
    <3>2. events' = Append(events, e)
      BY <1>4 DEF BeginCall, Record, Result
    <3>3. QED
      BY <3>1, <3>2
  <2>3. /\ DOMAIN events' = 1..(n + 1) /\ Len(events') = n + 1 /\ events'[n + 1] = e
        /\ \A k \in 1..n : events'[k] = events[k]
    BY <1>a, <2>2
  <2>4. PlainSession
    BY <1>4, <1>a, <1>p, <2>1, <2>3 DEF BeginCall
  <2>5. phase = "capturing" /\ phase' = phase /\ Regular(events) /\ CaptureStands /\
       ~attempted
        /\ attempted' = attempted
    BY <1>4, <2>4 DEF BeginCall, Capturing, Stands, Standing, replayVars
  <2>6. e.kind = "tool_call" /\ e.value = Redact(calls[i])
    BY DEF Event
  <2> DEFINE fresh == [call |-> calls[i], event |-> Len(events')]
  <2>7. fresh.event = n + 1
    BY <2>3
  <2>14. inFlight' = inFlight \union {fresh} /\ waiting' = waiting \ {i}
    BY <1>4 DEF BeginCall
  <2> HIDE DEF e, n, fresh
  <2>8. /\ runner = "tools" /\ Len(calls) = 1 /\ waiting = {1} /\ inFlight = {}
        /\ n # 0 /\ ~Odd(n) /\ events[n].kind = "model_response"
        /\ events[n].value = RedactAll(calls) /\ NoneFinal(events, n)
        /\ runner' = "tools" /\ calls' = calls
    BY <1>4, <2>5 DEF BeginCall, CaptureStands, n
  <2>9. i = 1 /\ waiting' = {} /\ inFlight' = {fresh}
    BY <2>8, <2>14
  <2>10. Odd(n + 1) /\ n \in Nat
    BY <1>a, <2>8 DEF Odd, n
  <2>11. Follows(events[n], e)
    <3>1. RedactAll(calls)[1] = Redact(calls[1])
      BY <2>8 DEF RedactAll, Typed
    <3>2. QED
      BY <2>6, <2>8, <2>9, <3>1 DEF Follows, Same, Event
  <2>12. Regular(events')
    BY <1>a, <2>2, <2>5, <2>6, <2>8, <2>10, <2>11, RegularAppend DEF n, CallKinds, ToolKinds
  <2>13. NoneFinal(events', n + 1)
    BY <2>3, <2>6, <2>8, <2>10 DEF NoneFinal, IsFinal
  <2>15. CaptureStands'
    BY <2>3, <2>6, <2>7, <2>8, <2>9, <2>10, <2>13 DEF CaptureStands
  <2>16. QED
    BY <2>5, <2>12, <2>15 DEF Standing, EligibleReplays
<1>5. ASSUME NEW f \in inFlight, EndCall(f) PROVE Stands'
  <2> DEFINE e == Event("tool_result", Redact(f.call), {f.event})
             n == Len(events)
  <2>1. SUFFICES ASSUME PlainSession' PROVE Standing'
    BY DEF Stands
  <2>2. e \in EventType /\ events' = Append(events, e)
    <3>1. e \in EventType
      BY RedactType DEF Event, EventType, Kinds, Typed
    <3>2. events' = Append(events, e)
      BY <1>5 DEF EndCall, Record, Result
    <3>3. QED
      BY <3>1, <3>2
  <2>3. /\ DOMAIN events' = 1..(n + 1) /\ Len(events') = n + 1 /\ events'[n + 1] = e
        /\ \A k \in 1..n : events'[k] = events[k]
    BY <1>a, <2>2
  <2>4. PlainSession
    BY <1>5, <1>a, <1>p, <2>1, <2>3 DEF EndCall
  <2>5. phase = "capturing" /\ phase' = phase /\ Regular(events) /\ CaptureStands /\
       ~attempted
        /\ attempted' = attempted
    BY <1>5, <2>4 DEF EndCall, Capturing, Stands, Standing, replayVars
  <2>6. e.kind = "tool_result" /\ e.value = Redact(f.call)
    BY DEF Event
  <2> HIDE DEF e, n
  <2>7. /\ runner = "tools" /\ waiting = {} /\ inFlight = {f} /\ f.event = n /\ Odd(n)
        /\ events[n].kind = "tool_call" /\ NoneFinal(events, n)
    BY <1>5, <2>5 DEF CaptureStands, n
  <2>8. inFlight' = {} /\ runner' = "model"
    BY <1>5, <2>7 DEF EndCall
  <2>9. ~Odd(n + 1) /\ n \in Nat /\ n # 0
    BY <1>a, <2>7 DEF Odd, n
  <2>10. events[n].value = e.value
    BY <2>6, <2>7 DEF InFlightAgrees
  <2>11. Regular(events')
    <3>1. Paired(events[n], e) /\ Follows(events[n], e)
      BY <2>6, <2>7, <2>10 DEF Paired, Follows
    <3>2. QED
      BY <1>a, <2>2, <2>5, <2>6, <2>9, <3>1, RegularAppend DEF n, ToolKinds
  <2>12. NoneFinal(events', n + 1)
    BY <2>3, <2>6, <2>7, <2>9 DEF NoneFinal, IsFinal
  <2>13. CaptureStands'
    BY <2>3, <2>6, <2>8, <2>9, <2>12 DEF CaptureStands
  <2>14. QED
    BY <2>5, <2>11, <2>13 DEF Standing, EligibleReplays
<1>6. ASSUME CaptureRaises PROVE Stands'
  <2>1. SUFFICES ASSUME PlainSession' PROVE Standing'
    BY DEF Stands
  <2>2. UNCHANGED <<events, swallows>> /\ ~swallows
    BY <1>6, <2>1 DEF CaptureRaises, captureVars, PlainSession
  <2>3. /\ phase \in {"capturing", "replaying"} /\ phase' = Broken
        /\ phase = "replaying" => departed'
    BY <1>6, <2>2 DEF CaptureRaises, Raised, Capturing, Replaying
  <2>4. QED
    BY <2>1, <2>2, <2>3, <1>f
<1>7. ASSUME NEW call \in Calls, CaptureDirectCall(call) PROVE Stands'
  <2> DEFINE a == Event("tool_call", Redact(call), Dependency(lastResponse))
             b == Event("tool_result", Redact(call), {Len(events) + 1})
             n == Len(events)
             s == Append(events, a)
  <2>1. SUFFICES ASSUME PlainSession' PROVE Standing'
    BY DEF Stands
  <2>2. a \in EventType /\ b \in EventType
    BY <1>a, RedactType, AnswersType DEF Event, EventType, Kinds, Dependency, Typed
  <2>3. events' = Append(s, b)
    BY <1>7, <1>a DEF CaptureDirectCall
  <2>4. a.kind = "tool_call" /\ b.kind = "tool_result" /\ b.value = a.value
    BY DEF Event
  <2>5. /\ phase = "capturing" /\ phase' = phase /\ swallows' = swallows
        /\ attempted' = attempted /\ runner \in {"none", "returned", "raised"}
        /\ runner' = runner /\ inFlight' = inFlight
    BY <1>7 DEF CaptureDirectCall, Capturing, InCallback, runnerVars, replayVars
  <2> HIDE DEF a, b
  <2>6. /\ s \in Seq(EventType) /\ Len(s) = n + 1 /\ DOMAIN s = 1..(n + 1) /\ s[n + 1] = a
        /\ \A k \in 1..n : s[k] = events[k]
    BY <1>a, <2>2
  <2>7. /\ DOMAIN events' = 1..(n + 2) /\ Len(events') = n + 2
        /\ events'[n + 1] = a /\ events'[n + 2] = b
        /\ \A k \in 1..n : events'[k] = events[k]
    BY <1>a, <2>2, <2>3, <2>6
  <2>8. PlainSession
    BY <1>a, <1>p, <2>1, <2>5, <2>7
  <2>9. /\ Regular(events) /\ CaptureStands /\ ~attempted
        /\ ~Odd(n) /\ inFlight = {} /\ runner \in {"none", "returned"}
    BY <2>5, <2>8 DEF Stands, Standing, CaptureStands
  <2>10. Odd(n + 1) /\ ~Odd(n + 2) /\ n \in Nat
    BY <1>a, <2>9 DEF Odd
  <2>11. n # 0 => Follows(events[n], a)
    <3>1. SUFFICES ASSUME n # 0, events[n].kind = "model_response", events[n].value # <<>>
                   PROVE  FALSE
      BY DEF Follows
    <3>2. runner = "returned" /\ n \in DOMAIN events
      BY <1>a, <2>9, <3>1 DEF CaptureStands, ToolKinds
    <3>3. PICK i \in DOMAIN events : IsFinal(events[i])
      BY <2>9, <3>2 DEF CaptureStands
    <3>4. i # n
      BY <3>1, <3>3 DEF IsFinal
    <3>5. i < n
      BY <1>a, <3>3, <3>4
    <3>6. events[n].kind \in ToolKinds
      BY <2>9, <3>2, <3>3, <3>5 DEF Regular
    <3>7. QED
      BY <3>1, <3>6 DEF ToolKinds
  <2>12. Regular(s)
    BY <1>a, <2>2, <2>4, <2>9, <2>10, <2>11, RegularAppend DEF CallKinds, ToolKinds
  <2> HIDE DEF s, n
  <2>13. (n + 1) + 1 = n + 2
    BY <2>10
  <2>14. Regular(events')
    <3>1. Paired(a, b) /\ Follows(a, b)
      BY <2>4 DEF Paired, Follows
    <3>2. Regular(Append(s, b))
      BY <2>2, <2>4, <2>6, <2>10, <2>12, <2>13, <3>1, RegularAppend DEF ToolKinds
    <3>3. QED
      BY <2>3, <3>2
  <2>15. CaptureStands'
    <3>1. CASE runner = "none"
      <4>1. \A k \in 1..(n + 2) : events'[k].kind \in ToolKinds
        BY <1>a, <2>4, <2>7, <2>9, <2>10, <3>1 DEF CaptureStands, ToolKinds, n
      <4>2. NoneFinal(events', n + 2)
        BY <4>1 DEF NoneFinal, IsFinal, ToolKinds
      <4>3. QED
        BY <2>5, <2>7, <2>9, <2>10, <3>1, <4>1, <4>2 DEF CaptureStands
    <3>2. CASE runner = "returned"
      <4>1. PICK i \in DOMAIN events : IsFinal(events[i])
        BY <2>9, <3>2 DEF CaptureStands
      <4>2. i \in DOMAIN events' /\ IsFinal(events'[i])
        BY <1>a, <2>7, <2>10, <4>1 DEF n
      <4>3. QED
        BY <2>5, <2>7, <2>9, <2>10, <3>2, <4>2 DEF CaptureStands
    <3>3. QED
      BY <2>9, <3>1, <3>2
  <2>16. QED
    BY <2>5, <2>9, <2>14, <2>15 DEF Standing, EligibleReplays
<1>8. ASSUME CaptureEnds PROVE Stands'
  <2>1. SUFFICES ASSUME PlainSession' PROVE Standing'
    BY DEF Stands
  <2>2. /\ UNCHANGED <<events, swallows, attempted>> /\ phase = "capturing"
        /\ runner \in {"none", "returned", "raised"}
        /\ phase' \in {"abandoned", "captured", "ineligible"}
        /\ phase' = "captured" => \E i \in DOMAIN events : events[i].kind = "model_request"
    BY <1>8 DEF CaptureEnds, Capturing, InCallback, captureVars, replayVars
  <2>3. Regular(events) /\ CaptureStands /\ ~attempted
    BY <1>b, <2>1, <2>2 DEF Stands, Standing
  <2>4. ASSUME phase' = "captured" PROVE Finished(events)
    <3>1. runner # "none"
      BY <2>2, <2>3, <2>4 DEF CaptureStands, ToolKinds
    <3>2. runner = "returned"
      BY <2>2, <2>3, <3>1 DEF CaptureStands
    <3>3. QED
      BY <2>3, <3>2 DEF CaptureStands, Finished
  <2>5. QED
    BY <2>2, <2>3, <2>4 DEF Standing, EligibleReplays
<1>9. ASSUME BeginReplay PROVE Stands'
  <2>1. SUFFICES ASSUME PlainSession' PROVE Standing'
    BY DEF Stands
  <2>2. /\ UNCHANGED <<events, swallows, attempted, cursor, made, deferred, departed>>
        /\ phase = "captured" /\ phase' = "replaying" /\ runner' = "none"
    BY <1>9 DEF BeginReplay, captureVars, replayVars
  <2>3. Standing /\ cursor = 0 /\ made = <<>> /\ ~deferred
    BY <1>b, <2>1, <2>2 DEF Stands, ReplayAgrees
  <2>4. NoneFinal(events, 0) /\ Len(<<>>) = 0
    BY DEF NoneFinal
  <2>5. cursor' = 2 * Len(made')
    BY <2>2, <2>3
  <2>6. RerunStands'
    BY <2>2, <2>3, <2>4, <2>5 DEF Standing, RerunStands
  <2>7. QED
    BY <2>2, <2>3, <2>6 DEF Standing, EligibleReplays
<1>10. ASSUME NEW ask \in Asks, ReplayRequest(ask) PROVE Stands'
  <2> DEFINE request == Event("model_request", ask, {})
             answer == events[cursor + 2].value
  <2>1. SUFFICES ASSUME PlainSession' PROVE Standing'
    BY DEF Stands
  <2>2. /\ UNCHANGED <<events, swallows, deferred, attempted>> /\ phase = "replaying"
        /\ runner = "model" /\ Matches(request) /\ cursor' = cursor + 2 /\ Made(request)
        /\ IF Answerable(answer) /\ UsageIsRead(UsageKeys)
           THEN /\ calls' = answer /\ waiting' = DOMAIN answer
                /\ runner' = IF answer = <<>> THEN "returned" ELSE "tools"
                /\ UNCHANGED phase
           ELSE phase' = "failed"
    BY <1>10, <2>1 DEF ReplayRequest, Replaying, Capturing, captureVars, Raised, Broken,
         PlainSession
  <2>3. PlainSession /\ Standing /\ Finished(events) /\ (~departed => RerunStands)
    BY <1>b, <2>1, <2>2 DEF Stands, Standing
  <2>4. /\ cursor + 2 <= Len(events) /\ events[cursor + 1].kind = "model_request"
        /\ events[cursor + 2].kind = "model_response"
    BY <2>2 DEF Matches, PairAt, Event
  <2>5. made' = Append(made, request) /\ (~departed' => ~departed)
    BY <2>2 DEF Made
  <2> HIDE DEF request
  <2>6. CASE departed'
    BY <2>2, <2>3, <2>6 DEF Standing, EligibleReplays
  <2>7. CASE ~departed'
    <3>1. RerunStands /\ NoneFinal(events, cursor)
      BY <2>2, <2>3, <2>5, <2>7 DEF RerunStands
    <3>2. Answerable(answer) /\ UsageIsRead(UsageKeys)
      BY <2>3, <2>4, <3>1, AnswerFollows DEF Standing, UsageIsRead, UsageKeys
    <3>3. /\ answer \in Seq(Kept) /\ Len(answer) <= 1
      BY <1>a, <2>3, <2>4 DEF Typed, PlainSession
    <3>4. phase' = "replaying" /\ runner' \in {"tools", "returned"}
      BY <2>2, <3>2
    <3>5. runner' = "tools" => waiting' = {1} /\ answer # <<>>
      BY <2>2, <3>2, <3>3
    <3>6. runner' = "tools" => NoneFinal(events, cursor + 2)
      BY <1>a, <2>4, <3>1, <3>5 DEF NoneFinal, IsFinal
    <3>7. cursor' = 2 * Len(made')
      BY <1>a, <2>2, <2>5, <3>1 DEF RerunStands, Typed
    <3>8. RerunStands'
      BY <2>2, <3>1, <3>4, <3>5, <3>6, <3>7 DEF RerunStands
    <3>9. QED
      BY <2>2, <2>3, <3>4, <3>8 DEF Standing, EligibleReplays
  <2>8. QED
    BY <2>6, <2>7
<1>11. ASSUME NEW ask \in Asks, ReplayRequestRaises(ask) PROVE Stands'
  <2> DEFINE request == Event("model_request", ask, {})
  <2>1. SUFFICES ASSUME PlainSession' PROVE Standing'
    BY DEF Stands
  <2>2. /\ UNCHANGED <<events, swallows>> /\ phase = "replaying" /\ phase' = "failed"
        /\ (deferred \/ ~Matches(request)) /\ Made(request)
    BY <1>11, <2>1 DEF ReplayRequestRaises, Replaying, Capturing, captureVars, Raised,
         Broken,
       PlainSession
  <2>3. PlainSession /\ Standing /\ Finished(events) /\ (~departed => RerunStands)
    BY <1>b, <2>1, <2>2 DEF Stands, Standing
  <2>4. request.kind = "model_request"
    BY DEF Event
  <2> HIDE DEF request
  <2>5. departed'
    <3>1. SUFFICES ASSUME ~departed' PROVE FALSE
      OBVIOUS
    <3>2. /\ ~departed /\ ~(Len(made) >= Len(RecordedCalls))
          /\ Same(RecordedCalls[Len(made) + 1], request)
      BY <2>2, <3>1 DEF Made
    <3>3. Regular(events) /\ ~Odd(Len(events)) /\ cursor = 2 * Len(made) /\ ~deferred
      BY <2>3, <3>2 DEF Standing, Finished, RerunStands
    <3>4. Len(made) < Len(RecordedCalls)
      BY <1>a, <3>2, <3>3, RecordedRegular
    <3>5. Matches(request)
      BY <2>4, <3>2, <3>3, <3>4, NextRecorded DEF CallKinds
    <3>6. QED
      BY <2>2, <3>3, <3>5
  <2>6. QED
    BY <2>2, <2>3, <2>5 DEF Standing, EligibleReplays
<1>12. ASSUME ReplayTurnsUsedUp PROVE Stands'
  <2>1. SUFFICES ASSUME PlainSession' PROVE Standing'
    BY DEF Stands
  <2>2. /\ UNCHANGED <<events, swallows>> /\ phase = "replaying" /\ phase' = "failed"
        /\ runner = "model" /\ departed' = (departed \/ Len(made) < Len(RecordedCalls))
    BY <1>12, <2>1 DEF ReplayTurnsUsedUp, Replaying, Capturing, captureVars, Raised,
         Broken, PlainSession
  <2>3. PlainSession /\ Standing /\ Finished(events) /\ (~departed => RerunStands)
    BY <1>b, <2>1, <2>2 DEF Stands, Standing
  <2>4. departed'
    <3>1. SUFFICES ASSUME ~departed' PROVE FALSE
      OBVIOUS
    <3>2. ~departed /\ ~(Len(made) < Len(RecordedCalls))
      BY <2>2, <3>1
    <3>3. Regular(events) /\ ~Odd(Len(events)) /\ cursor = 2 * Len(made) /\
         NoneFinal(events, cursor)
      BY <2>2, <2>3, <3>2 DEF Standing, Finished, RerunStands
    <3>4. Len(events) <= cursor
      BY <1>a, <3>2, <3>3, RecordedRegular
    <3>5. PICK i \in 1..Len(events) : IsFinal(events[i])
      BY <1>a, <2>3 DEF Finished
    <3>6. QED
      BY <1>a, <3>3, <3>4, <3>5 DEF NoneFinal
  <2>5. QED
    BY <2>2, <2>3, <2>4 DEF Standing, EligibleReplays
<1>13. ASSUME NEW i \in waiting, ReplayCall(i) PROVE Stands'
  <2> DEFINE asked == Event("tool_call", calls[i], {})
  <2>1. SUFFICES ASSUME PlainSession' PROVE Standing'
    BY DEF Stands
  <2>2. /\ UNCHANGED <<events, swallows, attempted, phase>> /\ phase = "replaying"
        /\ Consume(asked)
    BY <1>13 DEF ReplayCall, Replaying, captureVars
  <2>3. PlainSession /\ Standing /\ Finished(events) /\ (~departed => RerunStands)
    BY <1>b, <2>1, <2>2 DEF Stands, Standing
  <2>4. asked.kind = "tool_call" /\ asked \in EventType
    BY DEF Event, EventType, Kinds, Typed
  <2> HIDE DEF asked
  <2>5. CASE departed'
    BY <2>2, <2>3, <2>5 DEF Standing, EligibleReplays
  <2>6. CASE ~departed'
    <3>1. /\ ~departed /\ ~(Len(made) >= Len(RecordedCalls))
          /\ Same(RecordedCalls[Len(made) + 1], asked)
      BY <2>2, <2>6 DEF Consume, Made
    <3>2. /\ Regular(events) /\ ~Odd(Len(events)) /\ cursor = 2 * Len(made) /\ ~deferred
          /\ RerunStands /\ ~attempted
      BY <2>3, <3>1 DEF Standing, Finished, RerunStands
    <3>3. Len(made) < Len(RecordedCalls)
      BY <1>a, <3>1, <3>2, RecordedRegular
    <3>4. /\ Matches(asked) /\ cursor + 2 <= Len(events)
          /\ events[cursor + 1].kind = "tool_call"
          /\ Paired(events[cursor + 1], events[cursor + 2])
      BY <2>4, <3>1, <3>2, <3>3, NextRecorded DEF CallKinds
    <3>5. cursor' = cursor + 2 /\ ~deferred' /\ made' = Append(made, asked)
      BY <2>2, <3>2, <3>4 DEF Consume, Made
    <3>6. cursor' = 2 * Len(made')
      BY <1>a, <2>4, <3>2, <3>5 DEF Typed
    <3>7. NoneFinal(events, cursor) => NoneFinal(events, cursor + 2)
      BY <1>a, <3>4 DEF NoneFinal, IsFinal, Paired
    <3>8. runner = "tools" /\ runner' = "model"
      BY <1>13, <3>2 DEF ReplayCall, RerunStands
    <3>9. RerunStands'
      BY <2>2, <3>2, <3>5, <3>6, <3>7, <3>8 DEF RerunStands
    <3>10. QED
      BY <2>2, <2>3, <3>9 DEF Standing, EligibleReplays
  <2>7. QED
    BY <2>5, <2>6
<1>14. ASSUME NEW call \in Calls, ReplayDirectCall(call) PROVE Stands'
  <2> DEFINE asked == Event("tool_call", call, {})
  <2>1. SUFFICES ASSUME PlainSession' PROVE Standing'
    BY DEF Stands
  <2>2. /\ UNCHANGED <<events, swallows, attempted, phase>> /\ phase = "replaying"
        /\ Consume(asked)
    BY <1>14 DEF ReplayDirectCall, Replaying, captureVars
  <2>3. PlainSession /\ Standing /\ Finished(events) /\ (~departed => RerunStands)
    BY <1>b, <2>1, <2>2 DEF Stands, Standing
  <2>4. asked.kind = "tool_call" /\ asked \in EventType
    BY AnswersType DEF Event, EventType, Kinds
  <2> HIDE DEF asked
  <2>5. CASE departed'
    BY <2>2, <2>3, <2>5 DEF Standing, EligibleReplays
  <2>6. CASE ~departed'
    <3>1. /\ ~departed /\ ~(Len(made) >= Len(RecordedCalls))
          /\ Same(RecordedCalls[Len(made) + 1], asked)
      BY <2>2, <2>6 DEF Consume, Made
    <3>2. /\ Regular(events) /\ ~Odd(Len(events)) /\ cursor = 2 * Len(made) /\ ~deferred
          /\ RerunStands /\ ~attempted
      BY <2>3, <3>1 DEF Standing, Finished, RerunStands
    <3>3. Len(made) < Len(RecordedCalls)
      BY <1>a, <3>1, <3>2, RecordedRegular
    <3>4. /\ Matches(asked) /\ cursor + 2 <= Len(events)
          /\ events[cursor + 1].kind = "tool_call"
          /\ Paired(events[cursor + 1], events[cursor + 2])
      BY <2>4, <3>1, <3>2, <3>3, NextRecorded DEF CallKinds
    <3>5. cursor' = cursor + 2 /\ ~deferred' /\ made' = Append(made, asked)
      BY <2>2, <3>2, <3>4 DEF Consume, Made
    <3>6. cursor' = 2 * Len(made')
      BY <1>a, <2>4, <3>2, <3>5 DEF Typed
    <3>7. NoneFinal(events, cursor) => NoneFinal(events, cursor + 2)
      BY <1>a, <3>4 DEF NoneFinal, IsFinal, Paired
    <3>8. runner' = runner /\ runner # "tools"
      BY <1>14 DEF ReplayDirectCall, InCallback, runnerVars
    <3>9. RerunStands'
      BY <2>2, <3>2, <3>5, <3>6, <3>7, <3>8 DEF RerunStands
    <3>10. QED
      BY <2>2, <2>3, <3>9 DEF Standing, EligibleReplays
  <2>7. QED
    BY <2>5, <2>6
<1>15. ASSUME LiveAttempt PROVE Stands'
  <2>1. SUFFICES ASSUME PlainSession' PROVE Standing'
    BY DEF Stands
  <2>2. UNCHANGED <<events, swallows>> /\ ~swallows
    BY <1>15, <2>1 DEF LiveAttempt, captureVars, PlainSession
  <2>3. /\ phase \in {"capturing", "replaying"} /\ phase' = Broken
        /\ phase = "replaying" => departed'
    BY <1>15, <2>2 DEF LiveAttempt, Raised, Capturing, Replaying
  <2>4. QED
    BY <2>1, <2>2, <2>3, <1>f
<1>16. ASSUME ReplayEnds PROVE Stands'
  <2>1. SUFFICES ASSUME PlainSession' PROVE Standing'
    BY DEF Stands
  <2>2. /\ UNCHANGED <<events, swallows>> /\ phase = "replaying"
        /\ phase' = IF Accepted THEN "reported" ELSE "failed"
        /\ departed' = (departed \/ Len(made) < Len(RecordedCalls) \/ runner = "none")
    BY <1>16 DEF ReplayEnds, Replaying, captureVars
  <2>3. PlainSession /\ Standing /\ Finished(events) /\ (~departed => RerunStands)
    BY <1>b, <2>1, <2>2 DEF Stands, Standing
  <2>4. ASSUME ~departed' PROVE Accepted
    <3>1. ~departed /\ ~(Len(made) < Len(RecordedCalls)) /\ runner # "none"
      BY <2>2, <2>4
    <3>2. /\ Regular(events) /\ ~Odd(Len(events)) /\ cursor = 2 * Len(made) /\ ~deferred
          /\ ~attempted
      BY <2>3, <3>1 DEF Standing, Finished, RerunStands
    <3>3. Len(events) <= cursor
      BY SMTT(60), <1>a, <3>1, <3>2, RecordedRegular
    <3>4. cursor <= Len(events)
      BY SMTT(60), <2>2 DEF ReplayAgrees
    <3>5. cursor = Len(events)
      <4>1. \A a, b \in Nat : a <= b /\ b <= a => a = b
        OBVIOUS
      <4>2. QED
        BY <1>a, <3>3, <3>4, <4>1
    <3>6. QED
      BY <3>1, <3>2, <3>5 DEF Accepted
  <2>5. QED
    BY <2>2, <2>3, <2>4 DEF Standing, EligibleReplays
<1>17. ASSUME NEW max_turns \in 1..MaxTurns, Run(max_turns) PROVE Stands'
  <2>1. SUFFICES ASSUME PlainSession' PROVE Standing'
    BY DEF Stands
  <2>2. /\ UNCHANGED <<events, swallows, attempted, phase, inFlight>>
        /\ UNCHANGED <<cursor, made, deferred, departed>>
        /\ phase \in {"capturing", "replaying"} /\ runner = "none" /\ runner' = "model"
    BY <1>17 DEF Run, Capturing, Replaying, captureVars, replayVars
  <2>3. PlainSession /\ Standing
    BY <1>b, <2>1, <2>2 DEF Stands
  <2>4. phase = "capturing" => CaptureStands'
    <3>1. SUFFICES ASSUME phase = "capturing" PROVE CaptureStands'
      OBVIOUS
    <3>2. CaptureStands
      BY <2>3, <3>1 DEF Standing
    <3>3. \A i \in DOMAIN events : events[i].kind # "model_response"
      BY <2>2, <3>2 DEF CaptureStands, ToolKinds
    <3>4. QED
      BY <1>a, <2>2, <3>2, <3>3 DEF CaptureStands
  <2>5. phase = "replaying" /\ ~departed => RerunStands'
    BY <2>2, <2>3 DEF Standing, RerunStands
  <2>6. QED
    BY <2>2, <2>3, <2>4, <2>5 DEF Standing, EligibleReplays
<1>18. ASSUME NEW agent \in Agents, RunRefused(agent) PROVE Stands'
  <2>1. SUFFICES ASSUME PlainSession' PROVE Standing'
    BY DEF Stands
  <2>2. UNCHANGED <<events, swallows>> /\ ~swallows
    BY <1>18, <2>1 DEF RunRefused, captureVars, PlainSession
  <2>3. /\ phase \in {"capturing", "replaying"} /\ phase' = Broken
        /\ phase = "replaying" => departed'
    BY <1>18, <2>2 DEF RunRefused, Raised, Capturing, Replaying
  <2>4. QED
    BY <2>1, <2>2, <2>3, <1>f
<1>19. ASSUME NEW ask \in Asks, RequestRefused(ask) PROVE Stands'
  <2>1. SUFFICES ASSUME PlainSession' PROVE Standing'
    BY DEF Stands
  <2>2. UNCHANGED <<events, swallows>> /\ ~swallows
    BY <1>19, <2>1 DEF RequestRefused, captureVars, PlainSession
  <2>3. /\ phase \in {"capturing", "replaying"} /\ phase' = Broken
        /\ phase = "replaying" => departed'
    BY <1>19, <2>2 DEF RequestRefused, Raised, Capturing, Replaying
  <2>4. QED
    BY <2>1, <2>2, <2>3, <1>f
<1>20. ASSUME RunAgain PROVE Stands'
  <2>1. SUFFICES ASSUME PlainSession' PROVE Standing'
    BY DEF Stands
  <2>2. UNCHANGED <<events, swallows>> /\ ~swallows
    BY <1>20, <2>1 DEF RunAgain, captureVars, PlainSession
  <2>3. /\ phase \in {"capturing", "replaying"} /\ phase' = Broken
        /\ phase = "replaying" => departed'
    BY <1>20, <2>2 DEF RunAgain, Raised, Capturing, Replaying
  <2>4. QED
    BY <2>1, <2>2, <2>3, <1>f
<1>21. CASE UNCHANGED vars
  BY <1>21 DEF vars, captureVars, replayVars, runnerVars, Stands, Standing, PlainSession,
     EligibleReplays, CaptureStands, RerunStands, RedactAll, Redact
<1>22. QED
  BY <1>1, <1>2, <1>3, <1>4, <1>5, <1>6, <1>7, <1>8, <1>9, <1>10, <1>11, <1>12, <1>13,
       <1>14, <1>15, <1>16, <1>17, <1>18, <1>19, <1>20, <1>21 DEF Next, CaptureStep,
       ReplayStep

-------------------------------------------------------------------------------
(* The theorems.                                                             *)

\* Nothing is recorded and nothing is in flight at first.
LEMMA InitHolds == Init => IInv
<1> SUFFICES ASSUME Init PROVE IInv
  OBVIOUS
<1>1. events = <<>> /\ made = <<>> /\ calls = <<>> /\ inFlight = {} /\ waiting = {}
  BY DEF Init
<1>2. FlagsTyped
  BY CallbacksAssumption DEF Init, FlagsTyped
<1>3. Typed
  BY <1>1 DEF Init, Typed
<1>4. InFlightAgrees /\ ResultsNameTheirCalls
  BY <1>1 DEF InFlightAgrees, ResultsNameTheirCalls
<1>5. ReplayAgrees
  BY DEF Init, ReplayAgrees
<1>6. Stands
  <2>1. Regular(events) /\ NoneFinal(events, Len(events))
    BY <1>1 DEF Regular, NoneFinal
  <2>2. CaptureStands
    <3>1. Len(events) = 0
      BY <1>1
    <3>2. ~Odd(Len(events))
      BY <3>1 DEF Odd
    <3>3. QED
      BY <1>1, <2>1, <3>2 DEF Init, CaptureStands
  <2>3. QED
    BY <2>1, <2>2 DEF Init, Stands, Standing, EligibleReplays
<1>7. RedactionShows
  BY DEF Init, RedactionShows
<1>8. QED
  BY <1>2, <1>3, <1>4, <1>5, <1>6, <1>7 DEF IInv

\* Every step keeps the invariant.
LEMMA StepHolds == IInv /\ [Next]_vars => IInv'
BY StepFlags, StepTyped, StepResults, StepReplay, StepRedaction, StepStands DEF IInv

\* However the callback, the Runner, the model and the tools behave in the
\* capture and in the rerun, the invariant holds.
THEOREM SessionInvariant == Spec => []IInv
BY InitHolds, StepHolds, PTL DEF Spec

\* However the tool calls of an answer interleave and whatever fails, each
\* result recorded depends on the one call it is the result of
\* (openai_agents_replay.py:462-485).
THEOREM ResultsKeepTheirCalls == Spec => []ResultsNameTheirCalls
<1>1. IInv => ResultsNameTheirCalls
  BY DEF IInv
<1>2. QED
  BY <1>1, SessionInvariant, PTL

\* A rerun that is reported made every recorded call in the recorded order.  It made
\* no other tool call, whatever the callback swallows, and no other model request
\* if it lets exceptions through: one that swallows them may have asked the model
\* for what was not recorded, which only that request's own exception says
\* (openai_agents_replay.py:720-741, 804-913).
THEOREM ReportsAreExact == Spec => []ReportIsExact
<1>1. IInv => ReportIsExact
  <2>1. SUFFICES ASSUME IInv, phase = "reported"
                 PROVE  /\ Covers(made, RecordedCalls)
                        /\ ~swallows => Alike(made, RecordedCalls)
    BY DEF ReportIsExact
  <2>2. /\ Covers(made, Consumed(cursor))
        /\ ~swallows => Alike(made, Consumed(cursor))
        /\ cursor = Len(events)
    BY <2>1 DEF IInv, ReplayAgrees
  <2>3. SubSeq(events, 1, cursor) = events
    BY <2>1, <2>2 DEF IInv, Typed
  <2>4. Consumed(cursor) = RecordedCalls
    BY <2>3 DEF Consumed, RecordedCalls
  <2>5. QED
    BY <2>2, <2>4
<1>2. QED
  BY <1>1, SessionInvariant, PTL

\* A session with answers of at most one call and a callback that lets
\* exceptions through is reported when it is rerun as it was recorded, and it is
\* not barred from that by the names its requests are recorded under
\* (openai_agents_replay.py:164-225, 732-913).
THEOREM PlainSessionsReplay == Spec => []PlainEligibleReplays
<1>1. IInv => PlainEligibleReplays
  <2>1. SUFFICES ASSUME IInv PROVE PlainEligibleReplays
    OBVIOUS
  <2>2. RedactionShows /\ (PlainSession => EligibleReplays)
    BY <2>1 DEF IInv, Stands, Standing
  <2>3. QED
    BY <2>2 DEF PlainEligibleReplays, RedactionShows, PlainSession
<1>2. QED
  BY <1>1, SessionInvariant, PTL

-------------------------------------------------------------------------------
(* The claims of the sessions of one process on the caller's tools.          *)

\* What a session has still to treat is one of its tools.
TodoIsOwn == \A s \in Session : todo[s] \subseteq uses[s]

\* The canaries put so far are in their places.
Installed ==
    \A s \in Session, t \in Tool :
        /\ t \in uses[s]
        /\ pc[s] = "calling" \/ (pc[s] = "installing" /\ t \notin todo[s])
        => handler[t] = s \/ t \in rebound

Exclusion == ClaimsTypeOK /\ ClaimsAreExact /\ TodoIsOwn /\ Installed

\* What a session of a careful caller remembers is what the caller bound, for
\* as long as the session may put it back.
Faithful(s, t) ==
    /\ pc[s] = "reading" =>
          /\ \A u \in Tool : claim[u] = Free
          /\ t \notin todo[s] => saved[s][t] = bound[t]
    /\ pc[s] \in {"built", "installing"} => saved[s][t] = bound[t]
    /\ Active(s) => /\ handler[t] # s => handler[t] = bound[t]
                    /\ handler[t] = s => saved[s][t] = bound[t]
    /\ pc[s] = "releasing" \/ (pc[s] = "restoring" /\ t \notin todo[s])
          => handler[t] = bound[t]

Remembered ==
    \A s \in Session, t \in Tool : t \in uses[s] => Faithful(s, t)

ClaimsInvariant == Exclusion /\ (careful => Remembered /\ RestoredWhenFree)

-------------------------------------------------------------------------------
\* Only the session that has claimed a tool is treating it.
LEMMA OneOwner ==
    ASSUME ClaimsAreExact, TodoIsOwn, ClaimsTypeOK,
           NEW s \in Session, NEW q \in Session, NEW t \in Tool,
           Active(s), t \in uses[s], Active(q), t \in uses[q]
    PROVE  s = q
  BY DEF ClaimsAreExact

LEMMA InitExclusion == ClaimsInit => Exclusion
  BY OwnersAssumption
  DEF ClaimsInit, Exclusion, ClaimsTypeOK, ClaimsAreExact, TodoIsOwn, Installed, Active

LEMMA CarefulIsRigid == [ClaimsNext]_claimVars => careful' = careful
  BY DEF ClaimsNext, claimVars

LEMMA ClaimsTypeStep == ClaimsTypeOK /\ [ClaimsNext]_claimVars => ClaimsTypeOK'
<1> SUFFICES ASSUME ClaimsTypeOK, [ClaimsNext]_claimVars PROVE ClaimsTypeOK'
  OBVIOUS
<1> careful' = careful
  BY CarefulIsRigid
<1> USE DEF ClaimsTypeOK
<1>1. ASSUME NEW s \in Session, Build(s) PROVE ClaimsTypeOK'
  BY <1>1 DEF Build
<1>2. ASSUME NEW s \in Session, Built(s) PROVE ClaimsTypeOK'
  BY <1>2 DEF Built
<1>3. ASSUME NEW s \in Session, Claim(s) PROVE ClaimsTypeOK'
  BY <1>3 DEF Claim
<1>4. ASSUME NEW s \in Session, Refuse(s) PROVE ClaimsTypeOK'
  BY <1>4 DEF Refuse
<1>5. ASSUME NEW s \in Session, CallApplication(s) PROVE ClaimsTypeOK'
  BY <1>5 DEF CallApplication
<1>6. ASSUME NEW s \in Session, ApplicationEnds(s) PROVE ClaimsTypeOK'
  BY <1>6 DEF ApplicationEnds
<1>7. ASSUME NEW s \in Session, Restored(s) PROVE ClaimsTypeOK'
  BY <1>7 DEF Restored
<1>8. ASSUME NEW s \in Session, Release(s) PROVE ClaimsTypeOK'
  BY <1>8 DEF Release
<1>9. ASSUME NEW s \in Session, NEW t \in Tool, Read(s, t) PROVE ClaimsTypeOK'
  BY <1>9 DEF Read
<1>10. ASSUME NEW s \in Session, NEW t \in Tool, Install(s, t) PROVE ClaimsTypeOK'
  BY <1>10 DEF Install
<1>11. ASSUME NEW s \in Session, NEW t \in Tool, Restore(s, t) PROVE ClaimsTypeOK'
  BY <1>11 DEF Restore
<1>12. ASSUME NEW t \in Tool, NEW h \in Handler, Rebind(t, h) PROVE ClaimsTypeOK'
  BY <1>12 DEF Rebind
<1>13. CASE UNCHANGED claimVars
  BY <1>13 DEF claimVars
<1> QED
  BY <1>1, <1>2, <1>3, <1>4, <1>5, <1>6, <1>7, <1>8, <1>9, <1>10, <1>11,
     <1>12, <1>13 DEF ClaimsNext, SessionStep

\* Each step keeps the claims exact, the work of a session its own and the
\* canaries where they were put.
LEMMA ExclusionStep == Exclusion /\ [ClaimsNext]_claimVars => Exclusion'
<1> SUFFICES ASSUME Exclusion, [ClaimsNext]_claimVars PROVE Exclusion'
  OBVIOUS
<1> DEFINE Stays == ClaimsAreExact' /\ TodoIsOwn' /\ Installed'
<1> USE OwnersAssumption DEF Exclusion, ClaimsTypeOK, ClaimsAreExact, TodoIsOwn, Installed, Active
<1>1. ASSUME NEW s \in Session, Build(s) PROVE Stays
  BY <1>1 DEF Build
<1>2. ASSUME NEW s \in Session, Built(s) PROVE Stays
  BY <1>2 DEF Built
<1>3. ASSUME NEW s \in Session, Claim(s) PROVE Stays
  BY <1>3 DEF Claim, Called, Contended
<1>4. ASSUME NEW s \in Session, Refuse(s) PROVE Stays
  BY <1>4 DEF Refuse, Called
<1>5. ASSUME NEW s \in Session, CallApplication(s) PROVE Stays
  BY <1>5 DEF CallApplication
<1>6. ASSUME NEW s \in Session, ApplicationEnds(s) PROVE Stays
  BY <1>6 DEF ApplicationEnds
<1>7. ASSUME NEW s \in Session, Restored(s) PROVE Stays
  BY <1>7 DEF Restored
<1>8. ASSUME NEW s \in Session, Release(s) PROVE Stays
  BY <1>8 DEF Release
<1>9. ASSUME NEW s \in Session, NEW t \in Tool, Read(s, t) PROVE Stays
  BY <1>9 DEF Read
<1>10. ASSUME NEW s \in Session, NEW t \in Tool, Install(s, t) PROVE Stays
  BY <1>10 DEF Install
<1>11. ASSUME NEW s \in Session, NEW t \in Tool, Restore(s, t) PROVE Stays
  BY <1>11 DEF Restore
<1>12. ASSUME NEW t \in Tool, NEW h \in Handler, Rebind(t, h) PROVE Stays
  BY <1>12 DEF Rebind
<1>13. CASE UNCHANGED claimVars
  BY <1>13 DEF claimVars
<1>14. Stays
  BY <1>1, <1>2, <1>3, <1>4, <1>5, <1>6, <1>7, <1>8, <1>9, <1>10, <1>11,
     <1>12, <1>13 DEF ClaimsNext, SessionStep
<1>15. ClaimsTypeOK'
  BY ClaimsTypeStep
<1> QED
  BY <1>14, <1>15

-------------------------------------------------------------------------------
\* A session that is treating a tool keeps the others away from it, so that
\* what a careful caller's session remembers stays what the caller bound.
LEMMA RememberedStep ==
    Exclusion /\ careful /\ Remembered /\ RestoredWhenFree /\ [ClaimsNext]_claimVars
        => Remembered' /\ RestoredWhenFree'
<1> SUFFICES ASSUME Exclusion, careful, Remembered, RestoredWhenFree,
                    [ClaimsNext]_claimVars
             PROVE  Remembered' /\ RestoredWhenFree'
  OBVIOUS
<1> careful' = careful
  BY CarefulIsRigid
<1> DEFINE Stays == Remembered' /\ RestoredWhenFree'
<1> USE OwnersAssumption
    DEF Exclusion, ClaimsTypeOK, ClaimsAreExact, TodoIsOwn, Active, Remembered,
        Faithful, RestoredWhenFree
<1>1. ASSUME NEW s \in Session, Build(s) PROVE Stays
  BY <1>1 DEF Build
<1>2. ASSUME NEW s \in Session, Built(s) PROVE Stays
  BY <1>2 DEF Built
<1>3. ASSUME NEW s \in Session, Claim(s) PROVE Stays
  BY <1>3 DEF Claim, Called, Contended
<1>4. ASSUME NEW s \in Session, Refuse(s) PROVE Stays
  BY <1>4 DEF Refuse, Called
<1>5. ASSUME NEW s \in Session, CallApplication(s) PROVE Stays
  BY <1>5 DEF CallApplication
<1>6. ASSUME NEW s \in Session, ApplicationEnds(s) PROVE Stays
  BY <1>6 DEF ApplicationEnds
<1>7. ASSUME NEW s \in Session, Restored(s) PROVE Stays
  BY <1>7 DEF Restored
<1>8. ASSUME NEW s \in Session, Release(s) PROVE Stays
  BY <1>8 DEF Release
<1>9. ASSUME NEW s \in Session, NEW t \in Tool, Read(s, t) PROVE Stays
  BY <1>9 DEF Read
<1>10. ASSUME NEW s \in Session, NEW t \in Tool, Install(s, t) PROVE Stays
  BY <1>10 DEF Install
<1>11. ASSUME NEW s \in Session, NEW t \in Tool, Restore(s, t) PROVE Stays
  BY <1>11 DEF Restore
<1>12. ASSUME NEW t \in Tool, NEW h \in Handler, Rebind(t, h) PROVE Stays
  BY <1>12 DEF Rebind, Remembers
<1>13. CASE UNCHANGED claimVars
  BY <1>13 DEF claimVars
<1> QED
  BY <1>1, <1>2, <1>3, <1>4, <1>5, <1>6, <1>7, <1>8, <1>9, <1>10, <1>11,
     <1>12, <1>13 DEF ClaimsNext, SessionStep

LEMMA InitRemembered == ClaimsInit => Remembered /\ RestoredWhenFree
  BY DEF ClaimsInit, Remembered, RestoredWhenFree

LEMMA ClaimsInvariance == ClaimsSpec => []ClaimsInvariant
<1>1. ClaimsInit => ClaimsInvariant
  BY InitExclusion, InitRemembered DEF ClaimsInvariant
<1>2. ClaimsInvariant /\ [ClaimsNext]_claimVars => ClaimsInvariant'
  BY ExclusionStep, RememberedStep, CarefulIsRigid DEF ClaimsInvariant
<1> QED
  BY <1>1, <1>2, PTL DEF ClaimsSpec

-------------------------------------------------------------------------------
\* The state of sessions, claims and handlers stays well typed.
THEOREM ClaimTypes == ClaimsSpec => []ClaimsTypeOK
<1>1. ClaimsInvariant => ClaimsTypeOK
  BY DEF ClaimsInvariant, Exclusion
<1> QED
  BY <1>1, ClaimsInvariance, PTL

\* _TOOL_CLAIMS names exactly the sessions inside execute, whatever the caller
\* does: no tool has two sessions, and no claim outlives its session.
THEOREM ClaimsStayExact == ClaimsSpec => []ClaimsAreExact
<1>1. ClaimsInvariant => ClaimsAreExact
  BY DEF ClaimsInvariant, Exclusion
<1> QED
  BY <1>1, ClaimsInvariance, PTL

\* During a session's callback its tools carry its own canaries, whatever other
\* sessions and the caller do.
THEOREM CanariesStay == ClaimsSpec => []CanariesHold
<1>1. ClaimsInvariant => CanariesHold
  BY DEF ClaimsInvariant, Exclusion, Installed, CanariesHold
<1> QED
  BY <1>1, ClaimsInvariance, PTL

\* A careful caller finds its own handler on every unclaimed tool.
THEOREM HandlersComeBack == ClaimsSpec => []RestoredIfCareful
<1>1. ClaimsInvariant => RestoredIfCareful
  BY DEF ClaimsInvariant, RestoredIfCareful
<1> QED
  BY <1>1, ClaimsInvariance, PTL
===============================================================================

-------------------------- MODULE PredicateRunProofs --------------------------
(***************************************************************************)
(* One call of run_predicate, for any number of trials, any K, any limit,   *)
(* chunk and pipe size and any children: no child outlives its trial, and   *)
(* the call implements the promise of Verdicts.                             *)
(***************************************************************************)
EXTENDS PredicateRun, TLAPS

\* The places of a trial, from the start of its child to its record.
Busy == {"poll", "cancel", "limit", "clock", "terminate", "kill", "wait",
         "join1", "join2", "collect"}

Reaped == {"join1", "join2", "collect"}

\* The locals of a trial that has not begun.
Fresh ==
    /\ child = "none"
    /\ ~killing
    /\ pipe = Nothing /\ held = Nothing /\ counts = Nothing
    /\ drain = [s \in Streams |-> "reading"]
    /\ ~output_limit
    /\ reason = "none"

\* Where the main thread is says what has become of the child.
PhasesAgree ==
    /\ pc = "start" => Fresh
    /\ pc \in Busy => child # "none" /\ entry = "runs"
    /\ pc # "returned" => Len(attempts) < Trials
    /\ pc \in Reaped => child \in Codes
    /\ pc = "returned" => child # "running"
    /\ pc # "returned" => report = "none"

\* Nobody kills, or waits for a child that may hang, without a reason, and
\* each reason has its cause.
ReasonsHaveCauses ==
    /\ cancelled => "cancelled" \in mishaps
    /\ deadline => "timeout" \in mishaps
    /\ reason = "cancelled" => "cancelled" \in mishaps
    /\ reason = "timeout" => "timeout" \in mishaps
    /\ reason = "output_limit" => output_limit
    /\ killing => reason # "none"
    /\ pc \in {"terminate", "kill"} => reason # "none"
    /\ pc = "wait" /\ child = "running" => reason # "none"

\* A child that is over has ended as it would, with everything written, or was
\* killed.
EndsAreTrue ==
    pc \in Busy /\ child \in Codes =>
        \/ child = "signal" /\ killing
        \/ child = plan[Trial].end /\ left = Nothing

\* Every unit of a stream is at one place, unless the thread has failed.
Units(s) == counts[s] + held[s] + pipe[s] + left[s]
UnitsAreKept ==
    pc \in Busy =>
        \A s \in Streams :
            /\ Units(s) <= plan[Trial].writes[s]
            /\ drain[s] # "failed" => Units(s) = plan[Trial].writes[s]

\* Why a drain thread has stopped.
DrainsAreTrue ==
    /\ \A s \in Streams : drain[s] = "eof" =>
          child \in Codes /\ held[s] = 0 /\ pipe[s] = 0
    /\ \A s \in Streams : drain[s] = "limit" => output_limit
    /\ output_limit => Total(counts) > OutputLimit

\* And when it has not.
LateIsKnown ==
    "late" \notin mishaps =>
        /\ \A s \in Streams : drain[s] # "failed"
        /\ pc = "join2" => drain[1] # "reading"
        /\ pc = "collect" => \A s \in Streams : drain[s] # "reading"

\* Types, in three parts that the provers take one at a time.
FlagsTyped ==
    /\ cancelled \in BOOLEAN /\ deadline \in BOOLEAN /\ killing \in BOOLEAN
    /\ output_limit \in BOOLEAN /\ retried \in BOOLEAN

UnitsTyped ==
    /\ left \in [Streams -> Nat]
    /\ pipe \in [Streams -> 0..PipeSize]
    /\ held \in [Streams -> 0..Chunk]
    /\ drain \in [Streams -> {"reading", "eof", "failed", "limit"}]
    /\ counts \in [Streams -> Nat]

Places == Busy \union {"start", "returned", "raised"}

CallTyped ==
    /\ plan \in Plans
    /\ entry \in Entries
    /\ pc \in Places
    /\ attempts \in Seq(Results)
    /\ report \in Results \union {"none"}
    /\ child \in Codes \union {"none", "running"}
    /\ reason \in Reasons
    /\ mishaps \subseteq Mishaps

Typed == FlagsTyped /\ UnitsTyped /\ CallTyped

\* What every step of the call preserves.
IInv ==
    /\ Typed
    /\ PhasesAgree
    /\ ReasonsHaveCauses
    /\ EndsAreTrue
    /\ UnitsAreKept
    /\ DrainsAreTrue
    /\ LateIsKnown

-----------------------------------------------------------------------------
(* The inductive invariant, one part at a time.                            *)

\* The flags stay flags.
LEMMA StepFlags ==
    ASSUME FlagsTyped, [Next]_vars
    PROVE  FlagsTyped'
<1> USE DEF vars, callVars, childVars, drainVars
<1>1. CASE ChildEnds
  BY <1>1 DEF ChildEnds, FlagsTyped
<1>2. ASSUME NEW s \in Streams, ChildWrites(s)
      PROVE  FlagsTyped'
  BY <1>2 DEF ChildWrites, FlagsTyped
<1>3. CASE ChildDies
  BY <1>3 DEF ChildDies, FlagsTyped
<1>4. CASE Cancel
  BY <1>4 DEF Cancel, FlagsTyped
<1>5. CASE DeadlinePasses
  BY <1>5 DEF DeadlinePasses, FlagsTyped
<1>6. ASSUME NEW s \in Streams, Gather(s)
      PROVE  FlagsTyped'
  BY <1>6 DEF Gather, FlagsTyped
<1>7. ASSUME NEW s \in Streams, CountChunk(s)
      PROVE  FlagsTyped'
  BY <1>7 DEF CountChunk, FlagsTyped, EndOfStream
<1>8. ASSUME NEW s \in Streams, DrainEnds(s)
      PROVE  FlagsTyped'
  BY <1>8 DEF DrainEnds, FlagsTyped, EndOfStream
<1>9. ASSUME NEW s \in Streams, DrainFails(s)
      PROVE  FlagsTyped'
  BY <1>9 DEF DrainFails, FlagsTyped
<1>10. CASE Start
  BY <1>10 DEF Start, FlagsTyped, KOfN
<1>11. CASE Poll
  BY <1>11 DEF Poll, FlagsTyped, Goto
<1>12. CASE TestCancel
  BY <1>12 DEF TestCancel, FlagsTyped, Test, Goto
<1>13. CASE TestLimit
  BY <1>13 DEF TestLimit, FlagsTyped, Test, Goto
<1>14. CASE TestClock
  BY <1>14 DEF TestClock, FlagsTyped, Test, Goto
<1>15. CASE TerminatePolls
  BY <1>15 DEF TerminatePolls, FlagsTyped, Goto
<1>16. CASE Kill
  BY <1>16 DEF Kill, FlagsTyped, Goto
<1>17. CASE WaitReturns
  BY <1>17 DEF WaitReturns, FlagsTyped, Goto
<1>18. CASE Collect
  BY <1>18 DEF Collect, FlagsTyped, FreshTrial, TrialResult, ExitProtocol, KOfN
<1>19. ASSUME NEW s \in Streams, JoinReturns(s)
      PROVE  FlagsTyped'
  BY <1>19 DEF JoinReturns, FlagsTyped, Goto, AfterJoin, JoinPlace
<1>20. CASE WaitTimesOut
  BY <1>20 DEF WaitTimesOut, FlagsTyped, Goto
<1>21. ASSUME NEW s \in Streams, JoinTimesOut(s)
      PROVE  FlagsTyped'
  BY <1>21 DEF JoinTimesOut, FlagsTyped, AfterJoin, JoinPlace
<1>22. CASE Finished
  BY <1>22 DEF Finished, FlagsTyped
<1>23. CASE UNCHANGED vars
  BY <1>23 DEF FlagsTyped
<1> QED
  BY <1>1, <1>2, <1>3, <1>4, <1>5, <1>6, <1>7, <1>8, <1>9, <1>10, <1>11, <1>12, <1>13, <1>14, <1>15, <1>16, <1>17, <1>18, <1>19, <1>20, <1>21, <1>22, <1>23
     DEF Next, ChildStep, DrainStep, MainStep, TimeOut

\* Units move by one or by the chunk.
LEMMA StepUnits ==
    ASSUME UnitsTyped, CallTyped, PhasesAgree, [Next]_vars
    PROVE  UnitsTyped'
<1> USE DEF vars, callVars, childVars, drainVars
<1>1. CASE ChildEnds
  BY <1>1, SizesAssumption, PlansAssumption DEF ChildEnds, UnitsTyped, CallTyped, PhasesAgree, Trial, Streams, Nothing, Scripts
<1>2. ASSUME NEW s \in Streams, ChildWrites(s)
      PROVE  UnitsTyped'
  BY SMTT(60), <1>2, SizesAssumption, PlansAssumption DEF ChildWrites, UnitsTyped, CallTyped, PhasesAgree, Trial, Streams, Nothing, Scripts
<1>3. CASE ChildDies
  BY <1>3, SizesAssumption, PlansAssumption DEF ChildDies, UnitsTyped, CallTyped, PhasesAgree, Trial, Streams, Nothing, Scripts
<1>4. CASE Cancel
  BY <1>4, SizesAssumption, PlansAssumption DEF Cancel, UnitsTyped, CallTyped, PhasesAgree, Trial, Streams, Nothing, Scripts
<1>5. CASE DeadlinePasses
  BY <1>5, SizesAssumption, PlansAssumption DEF DeadlinePasses, UnitsTyped, CallTyped, PhasesAgree, Trial, Streams, Nothing, Scripts
<1>6. ASSUME NEW s \in Streams, Gather(s)
      PROVE  UnitsTyped'
  BY SMTT(60), <1>6, SizesAssumption, PlansAssumption DEF Gather, UnitsTyped, CallTyped, PhasesAgree, Trial, Streams, Nothing, Scripts
<1>7. ASSUME NEW s \in Streams, CountChunk(s)
      PROVE  UnitsTyped'
  BY SMTT(60), <1>7, SizesAssumption, PlansAssumption DEF CountChunk, UnitsTyped, CallTyped, PhasesAgree, Trial, Streams, Nothing, Scripts, EndOfStream
<1>8. ASSUME NEW s \in Streams, DrainEnds(s)
      PROVE  UnitsTyped'
  BY <1>8, SizesAssumption, PlansAssumption DEF DrainEnds, UnitsTyped, CallTyped, PhasesAgree, Trial, Streams, Nothing, Scripts, EndOfStream
<1>9. ASSUME NEW s \in Streams, DrainFails(s)
      PROVE  UnitsTyped'
  BY SMTT(60), <1>9, SizesAssumption, PlansAssumption DEF DrainFails, UnitsTyped, CallTyped, PhasesAgree, Trial, Streams, Nothing, Scripts
<1>10. CASE Start
  <2>1. CASE entry = "runs"
    <3>1. Trial \in 1..Trials
      BY <1>10, TrialsAssumption DEF Start, CallTyped, PhasesAgree, Trial
    <3>2. plan[Trial].writes \in [Streams -> Nat]
      BY <3>1, PlansAssumption DEF CallTyped, Scripts
    <3> QED BY <1>10, <2>1, <3>2 DEF Start, UnitsTyped
  <2>2. CASE entry # "runs"
    BY <1>10, <2>2, EntriesAssumption DEF Start, UnitsTyped, CallTyped
  <2> QED BY <2>1, <2>2
<1>11. CASE Poll
  BY <1>11, SizesAssumption, PlansAssumption DEF Poll, UnitsTyped, CallTyped, PhasesAgree, Trial, Streams, Nothing, Scripts, Goto
<1>12. CASE TestCancel
  BY <1>12, SizesAssumption, PlansAssumption DEF TestCancel, UnitsTyped, CallTyped, PhasesAgree, Trial, Streams, Nothing, Scripts, Test, Goto
<1>13. CASE TestLimit
  BY <1>13, SizesAssumption, PlansAssumption DEF TestLimit, UnitsTyped, CallTyped, PhasesAgree, Trial, Streams, Nothing, Scripts, Test, Goto
<1>14. CASE TestClock
  BY <1>14, SizesAssumption, PlansAssumption DEF TestClock, UnitsTyped, CallTyped, PhasesAgree, Trial, Streams, Nothing, Scripts, Test, Goto
<1>15. CASE TerminatePolls
  BY <1>15, SizesAssumption, PlansAssumption DEF TerminatePolls, UnitsTyped, CallTyped, PhasesAgree, Trial, Streams, Nothing, Scripts, Goto
<1>16. CASE Kill
  BY <1>16, SizesAssumption, PlansAssumption DEF Kill, UnitsTyped, CallTyped, PhasesAgree, Trial, Streams, Nothing, Scripts, Goto
<1>17. CASE WaitReturns
  BY <1>17, SizesAssumption, PlansAssumption DEF WaitReturns, UnitsTyped, CallTyped, PhasesAgree, Trial, Streams, Nothing, Scripts, Goto
<1>18. CASE Collect
  BY SMTT(60), <1>18, SizesAssumption, PlansAssumption DEF Collect, UnitsTyped, CallTyped, PhasesAgree, Trial, Streams, Nothing, Scripts, FreshTrial, TrialResult, ExitProtocol, KOfN
<1>19. ASSUME NEW s \in Streams, JoinReturns(s)
      PROVE  UnitsTyped'
  BY <1>19, SizesAssumption, PlansAssumption DEF JoinReturns, UnitsTyped, CallTyped, PhasesAgree, Trial, Streams, Nothing, Scripts, Goto, AfterJoin, JoinPlace
<1>20. CASE WaitTimesOut
  BY <1>20, SizesAssumption, PlansAssumption DEF WaitTimesOut, UnitsTyped, CallTyped, PhasesAgree, Trial, Streams, Nothing, Scripts, Goto
<1>21. ASSUME NEW s \in Streams, JoinTimesOut(s)
      PROVE  UnitsTyped'
  BY <1>21, SizesAssumption, PlansAssumption DEF JoinTimesOut, UnitsTyped, CallTyped, PhasesAgree, Trial, Streams, Nothing, Scripts, AfterJoin, JoinPlace
<1>22. CASE Finished
  BY <1>22, SizesAssumption, PlansAssumption DEF Finished, UnitsTyped, CallTyped, PhasesAgree, Trial, Streams, Nothing, Scripts
<1>23. CASE UNCHANGED vars
  BY <1>23 DEF UnitsTyped, CallTyped, PhasesAgree, Trial, Streams, Nothing, Scripts
<1> QED
  BY <1>1, <1>2, <1>3, <1>4, <1>5, <1>6, <1>7, <1>8, <1>9, <1>10, <1>11, <1>12, <1>13, <1>14, <1>15, <1>16, <1>17, <1>18, <1>19, <1>20, <1>21, <1>22, <1>23
     DEF Next, ChildStep, DrainStep, MainStep, TimeOut

\* The main thread's own variables keep their types.
LEMMA StepCall ==
    ASSUME CallTyped, PhasesAgree, [Next]_vars
    PROVE  CallTyped'
<1> USE DEF vars, callVars, childVars, drainVars
<1>1. CASE ChildEnds
  BY <1>1, PlansAssumption, TrialsAssumption DEF ChildEnds, CallTyped, PhasesAgree, Fresh, Trial, Scripts, Codes, Results, Reasons, Mishaps, Places, Busy
<1>2. ASSUME NEW s \in Streams, ChildWrites(s)
      PROVE  CallTyped'
  BY <1>2, PlansAssumption, TrialsAssumption DEF ChildWrites, CallTyped, PhasesAgree, Fresh, Trial, Scripts, Codes, Results, Reasons, Mishaps, Places, Busy
<1>3. CASE ChildDies
  BY <1>3, PlansAssumption, TrialsAssumption DEF ChildDies, CallTyped, PhasesAgree, Fresh, Trial, Scripts, Codes, Results, Reasons, Mishaps, Places, Busy
<1>4. CASE Cancel
  BY <1>4, PlansAssumption, TrialsAssumption DEF Cancel, CallTyped, PhasesAgree, Fresh, Trial, Scripts, Codes, Results, Reasons, Mishaps, Places, Busy
<1>5. CASE DeadlinePasses
  BY <1>5, PlansAssumption, TrialsAssumption DEF DeadlinePasses, CallTyped, PhasesAgree, Fresh, Trial, Scripts, Codes, Results, Reasons, Mishaps, Places, Busy
<1>6. ASSUME NEW s \in Streams, Gather(s)
      PROVE  CallTyped'
  BY <1>6, PlansAssumption, TrialsAssumption DEF Gather, CallTyped, PhasesAgree, Fresh, Trial, Scripts, Codes, Results, Reasons, Mishaps, Places, Busy
<1>7. ASSUME NEW s \in Streams, CountChunk(s)
      PROVE  CallTyped'
  BY <1>7, PlansAssumption, TrialsAssumption DEF CountChunk, CallTyped, PhasesAgree, Fresh, Trial, Scripts, Codes, Results, Reasons, Mishaps, Places, Busy, EndOfStream
<1>8. ASSUME NEW s \in Streams, DrainEnds(s)
      PROVE  CallTyped'
  BY <1>8, PlansAssumption, TrialsAssumption DEF DrainEnds, CallTyped, PhasesAgree, Fresh, Trial, Scripts, Codes, Results, Reasons, Mishaps, Places, Busy, EndOfStream
<1>9. ASSUME NEW s \in Streams, DrainFails(s)
      PROVE  CallTyped'
  BY <1>9, PlansAssumption, TrialsAssumption DEF DrainFails, CallTyped, PhasesAgree, Fresh, Trial, Scripts, Codes, Results, Reasons, Mishaps, Places, Busy
<1>10. CASE Start
  <2>1. CASE entry = "runs"
    BY <1>10, <2>1 DEF Start, CallTyped, Places, Busy
  <2>2. CASE entry = "invalid"
    <3>1. attempts' \in Seq(Results) /\ report' \in Results \union {"none"}
      BY <1>10, <2>2 DEF Start, CallTyped, Results, KOfN
    <3> QED BY <1>10, <2>2, <3>1 DEF Start, CallTyped, Places
  <2>3. CASE entry = "raises"
    BY <1>10, <2>3 DEF Start, CallTyped, Places
  <2> QED BY <2>1, <2>2, <2>3, EntriesAssumption DEF CallTyped
<1>11. CASE Poll
  BY <1>11, PlansAssumption, TrialsAssumption DEF Poll, CallTyped, PhasesAgree, Fresh, Trial, Scripts, Codes, Results, Reasons, Mishaps, Places, Busy, Goto
<1>12. CASE TestCancel
  BY <1>12, PlansAssumption, TrialsAssumption DEF TestCancel, CallTyped, PhasesAgree, Fresh, Trial, Scripts, Codes, Results, Reasons, Mishaps, Places, Busy, Test, Goto
<1>13. CASE TestLimit
  BY <1>13, PlansAssumption, TrialsAssumption DEF TestLimit, CallTyped, PhasesAgree, Fresh, Trial, Scripts, Codes, Results, Reasons, Mishaps, Places, Busy, Test, Goto
<1>14. CASE TestClock
  BY <1>14, PlansAssumption, TrialsAssumption DEF TestClock, CallTyped, PhasesAgree, Fresh, Trial, Scripts, Codes, Results, Reasons, Mishaps, Places, Busy, Test, Goto
<1>15. CASE TerminatePolls
  BY <1>15, PlansAssumption, TrialsAssumption DEF TerminatePolls, CallTyped, PhasesAgree, Fresh, Trial, Scripts, Codes, Results, Reasons, Mishaps, Places, Busy, Goto
<1>16. CASE Kill
  BY <1>16, PlansAssumption, TrialsAssumption DEF Kill, CallTyped, PhasesAgree, Fresh, Trial, Scripts, Codes, Results, Reasons, Mishaps, Places, Busy, Goto
<1>17. CASE WaitReturns
  BY <1>17, PlansAssumption, TrialsAssumption DEF WaitReturns, CallTyped, PhasesAgree, Fresh, Trial, Scripts, Codes, Results, Reasons, Mishaps, Places, Busy, Goto
<1>18. CASE Collect
  BY <1>18, PlansAssumption, TrialsAssumption DEF Collect, CallTyped, PhasesAgree, Fresh, Trial, Scripts, Codes, Results, Reasons, Mishaps, Places, Busy, FreshTrial, TrialResult, ExitProtocol, KOfN
<1>19. ASSUME NEW s \in Streams, JoinReturns(s)
      PROVE  CallTyped'
  BY <1>19, PlansAssumption, TrialsAssumption DEF JoinReturns, CallTyped, PhasesAgree, Fresh, Trial, Scripts, Codes, Results, Reasons, Mishaps, Places, Busy, Goto, AfterJoin, JoinPlace
<1>20. CASE WaitTimesOut
  BY <1>20, PlansAssumption, TrialsAssumption DEF WaitTimesOut, CallTyped, PhasesAgree, Fresh, Trial, Scripts, Codes, Results, Reasons, Mishaps, Places, Busy, Goto
<1>21. ASSUME NEW s \in Streams, JoinTimesOut(s)
      PROVE  CallTyped'
  BY <1>21, PlansAssumption, TrialsAssumption DEF JoinTimesOut, CallTyped, PhasesAgree, Fresh, Trial, Scripts, Codes, Results, Reasons, Mishaps, Places, Busy, AfterJoin, JoinPlace
<1>22. CASE Finished
  BY <1>22, PlansAssumption, TrialsAssumption DEF Finished, CallTyped, PhasesAgree, Fresh, Trial, Scripts, Codes, Results, Reasons, Mishaps, Places, Busy
<1>23. CASE UNCHANGED vars
  BY <1>23 DEF CallTyped, PhasesAgree, Fresh, Trial, Scripts, Codes, Results, Reasons, Mishaps, Places, Busy
<1> QED
  BY <1>1, <1>2, <1>3, <1>4, <1>5, <1>6, <1>7, <1>8, <1>9, <1>10, <1>11, <1>12, <1>13, <1>14, <1>15, <1>16, <1>17, <1>18, <1>19, <1>20, <1>21, <1>22, <1>23
     DEF Next, ChildStep, DrainStep, MainStep, TimeOut

\* Each place keeps what it says of the child.
LEMMA StepPhases ==
    ASSUME CallTyped, PhasesAgree, [Next]_vars
    PROVE  PhasesAgree'
<1> USE DEF vars, callVars, childVars, drainVars
<1>1. CASE ChildEnds
  <2>1. pc # "start" /\ pc # "returned"
    BY <1>1 DEF ChildEnds, PhasesAgree, Fresh
  <2>2. child' \in Codes
    BY <1>1, <2>1, PlansAssumption, TrialsAssumption
       DEF ChildEnds, CallTyped, PhasesAgree, Trial, Scripts
  <2> QED BY <1>1, <2>1, <2>2 DEF ChildEnds, PhasesAgree, Codes
<1>2. ASSUME NEW s \in Streams, ChildWrites(s)
      PROVE  PhasesAgree'
  BY <1>2, PlansAssumption, TrialsAssumption DEF ChildWrites, CallTyped, PhasesAgree, Fresh, Trial, Scripts, Codes, Results, Reasons, Mishaps, Places, Busy, Reaped, Streams, Nothing, Over
<1>3. CASE ChildDies
  BY <1>3, PlansAssumption, TrialsAssumption DEF ChildDies, CallTyped, PhasesAgree, Fresh, Trial, Scripts, Codes, Results, Reasons, Mishaps, Places, Busy, Reaped, Streams, Nothing, Over
<1>4. CASE Cancel
  BY <1>4, PlansAssumption, TrialsAssumption DEF Cancel, CallTyped, PhasesAgree, Fresh, Trial, Scripts, Codes, Results, Reasons, Mishaps, Places, Busy, Reaped, Streams, Nothing, Over
<1>5. CASE DeadlinePasses
  BY <1>5, PlansAssumption, TrialsAssumption DEF DeadlinePasses, CallTyped, PhasesAgree, Fresh, Trial, Scripts, Codes, Results, Reasons, Mishaps, Places, Busy, Reaped, Streams, Nothing, Over
<1>6. ASSUME NEW s \in Streams, Gather(s)
      PROVE  PhasesAgree'
  BY <1>6, PlansAssumption, TrialsAssumption DEF Gather, CallTyped, PhasesAgree, Fresh, Trial, Scripts, Codes, Results, Reasons, Mishaps, Places, Busy, Reaped, Streams, Nothing, Over
<1>7. ASSUME NEW s \in Streams, CountChunk(s)
      PROVE  PhasesAgree'
  BY <1>7, PlansAssumption, TrialsAssumption DEF CountChunk, CallTyped, PhasesAgree, Fresh, Trial, Scripts, Codes, Results, Reasons, Mishaps, Places, Busy, Reaped, Streams, Nothing, Over, EndOfStream
<1>8. ASSUME NEW s \in Streams, DrainEnds(s)
      PROVE  PhasesAgree'
  BY <1>8, PlansAssumption, TrialsAssumption DEF DrainEnds, CallTyped, PhasesAgree, Fresh, Trial, Scripts, Codes, Results, Reasons, Mishaps, Places, Busy, Reaped, Streams, Nothing, Over, EndOfStream
<1>9. ASSUME NEW s \in Streams, DrainFails(s)
      PROVE  PhasesAgree'
  BY <1>9, PlansAssumption, TrialsAssumption DEF DrainFails, CallTyped, PhasesAgree, Fresh, Trial, Scripts, Codes, Results, Reasons, Mishaps, Places, Busy, Reaped, Streams, Nothing, Over
<1>10. CASE Start
  <2>1. CASE entry = "runs"
    BY <1>10, <2>1 DEF Start, PhasesAgree, Busy, Reaped
  <2>2. CASE entry = "invalid"
    <3>1. Fresh' /\ child' = "none"
      BY <1>10, <2>2 DEF Start, PhasesAgree, Fresh, Nothing
    <3>2. Len(attempts') = Len(attempts) + 1
      BY <1>10, <2>2 DEF Start, CallTyped
    <3>3. pc' = "start" => Len(attempts') < Trials
      BY <1>10, <2>2, <3>2, TrialsAssumption DEF Start, PhasesAgree, CallTyped, Trial
    <3>4. pc' # "returned" => report' = "none"
      BY <1>10, <2>2 DEF Start, PhasesAgree
    <3>5. pc' \in {"start", "returned"}
      BY <1>10, <2>2 DEF Start
    <3> QED BY <3>1, <3>3, <3>4, <3>5 DEF PhasesAgree, Busy, Reaped
  <2>3. CASE entry = "raises"
    BY <1>10, <2>3 DEF Start, PhasesAgree, Busy, Reaped
  <2> QED BY <2>1, <2>2, <2>3, EntriesAssumption DEF CallTyped
<1>11. CASE Poll
  BY <1>11, PlansAssumption, TrialsAssumption DEF Poll, CallTyped, PhasesAgree, Fresh, Trial, Scripts, Codes, Results, Reasons, Mishaps, Places, Busy, Reaped, Streams, Nothing, Over, Goto
<1>12. CASE TestCancel
  BY <1>12, PlansAssumption, TrialsAssumption DEF TestCancel, CallTyped, PhasesAgree, Fresh, Trial, Scripts, Codes, Results, Reasons, Mishaps, Places, Busy, Reaped, Streams, Nothing, Over, Test, Goto
<1>13. CASE TestLimit
  BY <1>13, PlansAssumption, TrialsAssumption DEF TestLimit, CallTyped, PhasesAgree, Fresh, Trial, Scripts, Codes, Results, Reasons, Mishaps, Places, Busy, Reaped, Streams, Nothing, Over, Test, Goto
<1>14. CASE TestClock
  BY <1>14, PlansAssumption, TrialsAssumption DEF TestClock, CallTyped, PhasesAgree, Fresh, Trial, Scripts, Codes, Results, Reasons, Mishaps, Places, Busy, Reaped, Streams, Nothing, Over, Test, Goto
<1>15. CASE TerminatePolls
  BY <1>15, PlansAssumption, TrialsAssumption DEF TerminatePolls, CallTyped, PhasesAgree, Fresh, Trial, Scripts, Codes, Results, Reasons, Mishaps, Places, Busy, Reaped, Streams, Nothing, Over, Goto
<1>16. CASE Kill
  BY <1>16, PlansAssumption, TrialsAssumption DEF Kill, CallTyped, PhasesAgree, Fresh, Trial, Scripts, Codes, Results, Reasons, Mishaps, Places, Busy, Reaped, Streams, Nothing, Over, Goto
<1>17. CASE WaitReturns
  BY <1>17, PlansAssumption, TrialsAssumption DEF WaitReturns, CallTyped, PhasesAgree, Fresh, Trial, Scripts, Codes, Results, Reasons, Mishaps, Places, Busy, Reaped, Streams, Nothing, Over, Goto
<1>18. CASE Collect
  BY SMTT(60), <1>18, PlansAssumption, TrialsAssumption DEF Collect, CallTyped, PhasesAgree, Fresh, Trial, Scripts, Codes, Results, Reasons, Mishaps, Places, Busy, Reaped, Streams, Nothing, Over, FreshTrial, TrialResult, ExitProtocol, KOfN
<1>19. ASSUME NEW s \in Streams, JoinReturns(s)
      PROVE  PhasesAgree'
  BY <1>19, PlansAssumption, TrialsAssumption DEF JoinReturns, CallTyped, PhasesAgree, Fresh, Trial, Scripts, Codes, Results, Reasons, Mishaps, Places, Busy, Reaped, Streams, Nothing, Over, Goto, AfterJoin, JoinPlace
<1>20. CASE WaitTimesOut
  BY <1>20, PlansAssumption, TrialsAssumption DEF WaitTimesOut, CallTyped, PhasesAgree, Fresh, Trial, Scripts, Codes, Results, Reasons, Mishaps, Places, Busy, Reaped, Streams, Nothing, Over, Goto
<1>21. ASSUME NEW s \in Streams, JoinTimesOut(s)
      PROVE  PhasesAgree'
  BY <1>21, PlansAssumption, TrialsAssumption DEF JoinTimesOut, CallTyped, PhasesAgree, Fresh, Trial, Scripts, Codes, Results, Reasons, Mishaps, Places, Busy, Reaped, Streams, Nothing, Over, AfterJoin, JoinPlace
<1>22. CASE Finished
  BY <1>22, PlansAssumption, TrialsAssumption DEF Finished, CallTyped, PhasesAgree, Fresh, Trial, Scripts, Codes, Results, Reasons, Mishaps, Places, Busy, Reaped, Streams, Nothing, Over
<1>23. CASE UNCHANGED vars
  BY <1>23 DEF CallTyped, PhasesAgree, Fresh, Trial, Scripts, Codes, Results, Reasons, Mishaps, Places, Busy, Reaped, Streams, Nothing, Over
<1> QED
  BY <1>1, <1>2, <1>3, <1>4, <1>5, <1>6, <1>7, <1>8, <1>9, <1>10, <1>11, <1>12, <1>13, <1>14, <1>15, <1>16, <1>17, <1>18, <1>19, <1>20, <1>21, <1>22, <1>23
     DEF Next, ChildStep, DrainStep, MainStep, TimeOut

\* A reason is given only by the test that saw its cause.
LEMMA StepReasons ==
    ASSUME CallTyped, PhasesAgree, ReasonsHaveCauses, [Next]_vars
    PROVE  ReasonsHaveCauses'
<1> USE DEF vars, callVars, childVars, drainVars
<1>1. CASE ChildEnds
  BY <1>1 DEF ChildEnds, ReasonsHaveCauses, PhasesAgree, CallTyped, Fresh
<1>2. ASSUME NEW s \in Streams, ChildWrites(s)
      PROVE  ReasonsHaveCauses'
  BY <1>2 DEF ChildWrites, ReasonsHaveCauses, PhasesAgree, CallTyped, Fresh
<1>3. CASE ChildDies
  BY <1>3 DEF ChildDies, ReasonsHaveCauses, PhasesAgree, CallTyped, Fresh
<1>4. CASE Cancel
  BY <1>4 DEF Cancel, ReasonsHaveCauses, PhasesAgree, CallTyped, Fresh
<1>5. CASE DeadlinePasses
  BY <1>5 DEF DeadlinePasses, ReasonsHaveCauses, PhasesAgree, CallTyped, Fresh
<1>6. ASSUME NEW s \in Streams, Gather(s)
      PROVE  ReasonsHaveCauses'
  BY <1>6 DEF Gather, ReasonsHaveCauses, PhasesAgree, CallTyped, Fresh
<1>7. ASSUME NEW s \in Streams, CountChunk(s)
      PROVE  ReasonsHaveCauses'
  BY <1>7 DEF CountChunk, ReasonsHaveCauses, PhasesAgree, CallTyped, Fresh, EndOfStream
<1>8. ASSUME NEW s \in Streams, DrainEnds(s)
      PROVE  ReasonsHaveCauses'
  BY <1>8 DEF DrainEnds, ReasonsHaveCauses, PhasesAgree, CallTyped, Fresh, EndOfStream
<1>9. ASSUME NEW s \in Streams, DrainFails(s)
      PROVE  ReasonsHaveCauses'
  BY <1>9 DEF DrainFails, ReasonsHaveCauses, PhasesAgree, CallTyped, Fresh
<1>10. CASE Start
  BY <1>10, EntriesAssumption DEF Start, ReasonsHaveCauses, PhasesAgree, CallTyped, Fresh
<1>11. CASE Poll
  BY <1>11 DEF Poll, ReasonsHaveCauses, PhasesAgree, CallTyped, Fresh, Goto
<1>12. CASE TestCancel
  BY <1>12 DEF TestCancel, ReasonsHaveCauses, PhasesAgree, CallTyped, Fresh, Test, Goto
<1>13. CASE TestLimit
  BY <1>13 DEF TestLimit, ReasonsHaveCauses, PhasesAgree, CallTyped, Fresh, Test, Goto
<1>14. CASE TestClock
  BY <1>14 DEF TestClock, ReasonsHaveCauses, PhasesAgree, CallTyped, Fresh, Test, Goto
<1>15. CASE TerminatePolls
  BY <1>15 DEF TerminatePolls, ReasonsHaveCauses, PhasesAgree, CallTyped, Fresh, Goto
<1>16. CASE Kill
  BY <1>16 DEF Kill, ReasonsHaveCauses, PhasesAgree, CallTyped, Fresh, Goto
<1>17. CASE WaitReturns
  BY <1>17 DEF WaitReturns, ReasonsHaveCauses, PhasesAgree, CallTyped, Fresh, Goto
<1>18. CASE Collect
  BY <1>18 DEF Collect, ReasonsHaveCauses, PhasesAgree, CallTyped, Fresh, FreshTrial
<1>19. ASSUME NEW s \in Streams, JoinReturns(s)
      PROVE  ReasonsHaveCauses'
  BY <1>19 DEF JoinReturns, ReasonsHaveCauses, PhasesAgree, CallTyped, Fresh, Goto, AfterJoin, JoinPlace
<1>20. CASE WaitTimesOut
  BY <1>20 DEF WaitTimesOut, ReasonsHaveCauses, PhasesAgree, CallTyped, Fresh, Goto
<1>21. ASSUME NEW s \in Streams, JoinTimesOut(s)
      PROVE  ReasonsHaveCauses'
  BY <1>21 DEF JoinTimesOut, ReasonsHaveCauses, PhasesAgree, CallTyped, Fresh, AfterJoin, JoinPlace
<1>22. CASE Finished
  BY <1>22 DEF Finished, ReasonsHaveCauses, PhasesAgree, CallTyped, Fresh
<1>23. CASE UNCHANGED vars
  BY <1>23 DEF ReasonsHaveCauses, PhasesAgree, CallTyped, Fresh
<1> QED
  BY <1>1, <1>2, <1>3, <1>4, <1>5, <1>6, <1>7, <1>8, <1>9, <1>10, <1>11, <1>12, <1>13, <1>14, <1>15, <1>16, <1>17, <1>18, <1>19, <1>20, <1>21, <1>22, <1>23
     DEF Next, ChildStep, DrainStep, MainStep, TimeOut

\* A child is over because it ended or because a kill was under way.
LEMMA StepEnds ==
    ASSUME UnitsTyped, CallTyped, PhasesAgree, EndsAreTrue, [Next]_vars
    PROVE  EndsAreTrue'
<1> USE DEF vars, callVars, childVars, drainVars
<1>1. CASE ChildEnds
  BY <1>1 DEF ChildEnds, EndsAreTrue, Trial, CallTyped, PhasesAgree, Fresh, Busy, Codes
<1>2. ASSUME NEW s \in Streams, ChildWrites(s)
      PROVE  EndsAreTrue'
  BY <1>2 DEF ChildWrites, EndsAreTrue, Trial, CallTyped, PhasesAgree, Fresh, Busy, Codes
<1>3. CASE ChildDies
  BY <1>3 DEF ChildDies, EndsAreTrue, Trial, CallTyped, PhasesAgree, Fresh, Busy, Codes
<1>4. CASE Cancel
  BY <1>4 DEF Cancel, EndsAreTrue, Trial, CallTyped, PhasesAgree, Fresh, Busy, Codes
<1>5. CASE DeadlinePasses
  BY <1>5 DEF DeadlinePasses, EndsAreTrue, Trial, CallTyped, PhasesAgree, Fresh, Busy, Codes
<1>6. ASSUME NEW s \in Streams, Gather(s)
      PROVE  EndsAreTrue'
  BY <1>6 DEF Gather, EndsAreTrue, Trial, CallTyped, PhasesAgree, Fresh, Busy, Codes
<1>7. ASSUME NEW s \in Streams, CountChunk(s)
      PROVE  EndsAreTrue'
  BY <1>7 DEF CountChunk, EndsAreTrue, Trial, CallTyped, PhasesAgree, Fresh, Busy, Codes, EndOfStream
<1>8. ASSUME NEW s \in Streams, DrainEnds(s)
      PROVE  EndsAreTrue'
  BY <1>8 DEF DrainEnds, EndsAreTrue, Trial, CallTyped, PhasesAgree, Fresh, Busy, Codes, EndOfStream
<1>9. ASSUME NEW s \in Streams, DrainFails(s)
      PROVE  EndsAreTrue'
  BY <1>9 DEF DrainFails, EndsAreTrue, Trial, CallTyped, PhasesAgree, Fresh, Busy, Codes
<1>10. CASE Start
  BY <1>10, EntriesAssumption
     DEF Start, EndsAreTrue, CallTyped, PhasesAgree, Fresh, Busy, Codes
<1>11. CASE Poll
  BY <1>11 DEF Poll, EndsAreTrue, Trial, CallTyped, PhasesAgree, Fresh, Busy, Codes, Goto
<1>12. CASE TestCancel
  BY <1>12 DEF TestCancel, EndsAreTrue, Trial, CallTyped, PhasesAgree, Fresh, Busy, Codes, Test, Goto
<1>13. CASE TestLimit
  BY <1>13 DEF TestLimit, EndsAreTrue, Trial, CallTyped, PhasesAgree, Fresh, Busy, Codes, Test, Goto
<1>14. CASE TestClock
  BY <1>14 DEF TestClock, EndsAreTrue, Trial, CallTyped, PhasesAgree, Fresh, Busy, Codes, Test, Goto
<1>15. CASE TerminatePolls
  BY <1>15 DEF TerminatePolls, EndsAreTrue, Trial, CallTyped, PhasesAgree, Fresh, Busy, Codes, Goto
<1>16. CASE Kill
  BY <1>16 DEF Kill, EndsAreTrue, Trial, CallTyped, PhasesAgree, Fresh, Busy, Codes, Goto
<1>17. CASE WaitReturns
  BY <1>17 DEF WaitReturns, EndsAreTrue, Trial, CallTyped, PhasesAgree, Fresh, Busy, Codes, Goto
<1>18. CASE Collect
  BY <1>18 DEF Collect, EndsAreTrue, Trial, CallTyped, PhasesAgree, Fresh, Busy, Codes, FreshTrial
<1>19. ASSUME NEW s \in Streams, JoinReturns(s)
      PROVE  EndsAreTrue'
  BY <1>19 DEF JoinReturns, EndsAreTrue, Trial, CallTyped, PhasesAgree, Fresh, Busy, Codes, Goto, AfterJoin, JoinPlace
<1>20. CASE WaitTimesOut
  BY <1>20 DEF WaitTimesOut, EndsAreTrue, Trial, CallTyped, PhasesAgree, Fresh, Busy, Codes, Goto
<1>21. ASSUME NEW s \in Streams, JoinTimesOut(s)
      PROVE  EndsAreTrue'
  BY <1>21 DEF JoinTimesOut, EndsAreTrue, Trial, CallTyped, PhasesAgree, Fresh, Busy, Codes, AfterJoin, JoinPlace
<1>22. CASE Finished
  BY <1>22 DEF Finished, EndsAreTrue, Trial, CallTyped, PhasesAgree, Fresh, Busy, Codes
<1>23. CASE UNCHANGED vars
  BY <1>23 DEF EndsAreTrue, Trial, CallTyped, PhasesAgree, Fresh, Busy, Codes
<1> QED
  BY <1>1, <1>2, <1>3, <1>4, <1>5, <1>6, <1>7, <1>8, <1>9, <1>10, <1>11, <1>12, <1>13, <1>14, <1>15, <1>16, <1>17, <1>18, <1>19, <1>20, <1>21, <1>22, <1>23
     DEF Next, ChildStep, DrainStep, MainStep, TimeOut

\* A unit moves from the child to the pipe, the thread and the count; only a
\* failing read loses any.
LEMMA StepUnitsKept ==
    ASSUME UnitsTyped, CallTyped, PhasesAgree, UnitsAreKept, [Next]_vars
    PROVE  UnitsAreKept'
<1> USE DEF vars, callVars, childVars, drainVars
<1>1. CASE ChildEnds
  BY <1>1 DEF ChildEnds, UnitsAreKept, Units, Trial, UnitsTyped, CallTyped, PhasesAgree, Busy, Streams
<1>2. ASSUME NEW s \in Streams, ChildWrites(s)
      PROVE  UnitsAreKept'
  <2>1. \A t \in Streams : Units(t)' = Units(t)
    <3> TAKE t \in Streams
    <3>1. CASE t = s
      BY <1>2, <3>1 DEF ChildWrites, Units, UnitsTyped
    <3>2. CASE t # s
      BY <1>2, <3>2 DEF ChildWrites, Units, UnitsTyped
    <3> QED BY <3>1, <3>2
  <2> QED BY <1>2, <2>1 DEF ChildWrites, UnitsAreKept, Trial, UnitsTyped
<1>3. CASE ChildDies
  BY <1>3 DEF ChildDies, UnitsAreKept, Units, Trial, UnitsTyped, CallTyped, PhasesAgree, Busy, Streams
<1>4. CASE Cancel
  BY <1>4 DEF Cancel, UnitsAreKept, Units, Trial, UnitsTyped, CallTyped, PhasesAgree, Busy, Streams
<1>5. CASE DeadlinePasses
  BY <1>5 DEF DeadlinePasses, UnitsAreKept, Units, Trial, UnitsTyped, CallTyped, PhasesAgree, Busy, Streams
<1>6. ASSUME NEW s \in Streams, Gather(s)
      PROVE  UnitsAreKept'
  <2>1. \A t \in Streams : Units(t)' = Units(t)
    <3> TAKE t \in Streams
    <3>1. CASE t = s
      BY <1>6, <3>1 DEF Gather, Units, UnitsTyped
    <3>2. CASE t # s
      BY <1>6, <3>2 DEF Gather, Units, UnitsTyped
    <3> QED BY <3>1, <3>2
  <2> QED BY <1>6, <2>1 DEF Gather, UnitsAreKept, Trial, UnitsTyped
<1>7. ASSUME NEW s \in Streams, CountChunk(s)
      PROVE  UnitsAreKept'
  <2>1. \A t \in Streams : Units(t)' = Units(t)
    <3> TAKE t \in Streams
    <3>1. CASE t = s
      BY <1>7, <3>1 DEF CountChunk, Units, UnitsTyped
    <3>2. CASE t # s
      BY <1>7, <3>2 DEF CountChunk, Units, UnitsTyped
    <3> QED BY <3>1, <3>2
  <2> QED BY <1>7, <2>1 DEF CountChunk, UnitsAreKept, Trial, UnitsTyped
<1>8. ASSUME NEW s \in Streams, DrainEnds(s)
      PROVE  UnitsAreKept'
  BY <1>8 DEF DrainEnds, UnitsAreKept, Units, Trial, UnitsTyped, CallTyped, PhasesAgree, Busy, Streams, EndOfStream
<1>9. ASSUME NEW s \in Streams, DrainFails(s)
      PROVE  UnitsAreKept'
  <2>1. \A t \in Streams \ {s} : Units(t)' = Units(t) /\ drain'[t] = drain[t]
    BY <1>9 DEF DrainFails, Units, UnitsTyped
  <2>2. Units(s)' <= Units(s) /\ drain'[s] = "failed" /\ Units(s)' \in Int /\ Units(s) \in Int
    BY <1>9 DEF DrainFails, Units, UnitsTyped
  <2>3. pc \in Busy => plan[Trial].writes[s] \in Nat
    <3>1. pc \in Busy => Trial \in 1..Trials
      BY TrialsAssumption DEF PhasesAgree, CallTyped, Trial, Busy
    <3>2. pc \in Busy => plan[Trial] \in Scripts
      BY <3>1, PlansAssumption DEF CallTyped
    <3> QED BY <3>2 DEF Scripts
  <2> QED BY <1>9, <2>1, <2>2, <2>3 DEF DrainFails, UnitsAreKept, Trial
<1>10. CASE Start
  <2>1. CASE entry = "runs"
    <3>1. Trial \in 1..Trials
      BY <1>10, TrialsAssumption DEF Start, CallTyped, PhasesAgree, Trial
    <3>2. plan[Trial].writes \in [Streams -> Nat]
      BY <3>1, PlansAssumption DEF CallTyped, Scripts
    <3>3. \A s \in Streams : Units(s)' = plan[Trial].writes[s]
      BY <1>10, <2>1, <3>2 DEF Start, Units, PhasesAgree, Fresh, Nothing
    <3> QED BY <1>10, <2>1, <3>2, <3>3 DEF Start, UnitsAreKept, Trial
  <2>2. CASE entry # "runs"
    BY <1>10, <2>2, EntriesAssumption DEF Start, CallTyped, UnitsAreKept, Busy
  <2> QED BY <2>1, <2>2
<1>11. CASE Poll
  BY <1>11 DEF Poll, UnitsAreKept, Units, Trial, UnitsTyped, CallTyped, PhasesAgree, Busy, Streams, Goto
<1>12. CASE TestCancel
  BY <1>12 DEF TestCancel, UnitsAreKept, Units, Trial, UnitsTyped, CallTyped, PhasesAgree, Busy, Streams, Test, Goto
<1>13. CASE TestLimit
  BY <1>13 DEF TestLimit, UnitsAreKept, Units, Trial, UnitsTyped, CallTyped, PhasesAgree, Busy, Streams, Test, Goto
<1>14. CASE TestClock
  BY <1>14 DEF TestClock, UnitsAreKept, Units, Trial, UnitsTyped, CallTyped, PhasesAgree, Busy, Streams, Test, Goto
<1>15. CASE TerminatePolls
  BY <1>15 DEF TerminatePolls, UnitsAreKept, Units, Trial, UnitsTyped, CallTyped, PhasesAgree, Busy, Streams, Goto
<1>16. CASE Kill
  BY <1>16 DEF Kill, UnitsAreKept, Units, Trial, UnitsTyped, CallTyped, PhasesAgree, Busy, Streams, Goto
<1>17. CASE WaitReturns
  BY <1>17 DEF WaitReturns, UnitsAreKept, Units, Trial, UnitsTyped, CallTyped, PhasesAgree, Busy, Streams, Goto
<1>18. CASE Collect
  BY <1>18 DEF Collect, UnitsAreKept, Units, Trial, UnitsTyped, CallTyped, PhasesAgree, Busy, Streams, FreshTrial
<1>19. ASSUME NEW s \in Streams, JoinReturns(s)
      PROVE  UnitsAreKept'
  BY <1>19 DEF JoinReturns, UnitsAreKept, Units, Trial, UnitsTyped, CallTyped, PhasesAgree, Busy, Streams, Goto, AfterJoin, JoinPlace
<1>20. CASE WaitTimesOut
  BY <1>20 DEF WaitTimesOut, UnitsAreKept, Units, Trial, UnitsTyped, CallTyped, PhasesAgree, Busy, Streams, Goto
<1>21. ASSUME NEW s \in Streams, JoinTimesOut(s)
      PROVE  UnitsAreKept'
  BY <1>21 DEF JoinTimesOut, UnitsAreKept, Units, Trial, UnitsTyped, CallTyped, PhasesAgree, Busy, Streams, AfterJoin, JoinPlace
<1>22. CASE Finished
  BY <1>22 DEF Finished, UnitsAreKept, Units, Trial, UnitsTyped, CallTyped, PhasesAgree, Busy, Streams
<1>23. CASE UNCHANGED vars
  BY <1>23 DEF UnitsAreKept, Units, Trial, UnitsTyped, CallTyped, PhasesAgree, Busy, Streams
<1> QED
  BY <1>1, <1>2, <1>3, <1>4, <1>5, <1>6, <1>7, <1>8, <1>9, <1>10, <1>11, <1>12, <1>13, <1>14, <1>15, <1>16, <1>17, <1>18, <1>19, <1>20, <1>21, <1>22, <1>23
     DEF Next, ChildStep, DrainStep, MainStep, TimeOut

\* A thread stops at the end of its stream or when the count passes the limit.
LEMMA StepDrains ==
    ASSUME UnitsTyped, CallTyped, PhasesAgree, DrainsAreTrue, [Next]_vars
    PROVE  DrainsAreTrue'
<1> USE DEF vars, callVars, childVars, drainVars
<1>1. CASE ChildEnds
  BY <1>1 DEF ChildEnds, DrainsAreTrue, UnitsTyped, CallTyped, PhasesAgree, Fresh, Total, Streams, Codes
<1>2. ASSUME NEW s \in Streams, ChildWrites(s)
      PROVE  DrainsAreTrue'
  BY <1>2 DEF ChildWrites, DrainsAreTrue, UnitsTyped, CallTyped, PhasesAgree, Fresh, Total, Streams, Codes
<1>3. CASE ChildDies
  BY <1>3 DEF ChildDies, DrainsAreTrue, UnitsTyped, CallTyped, PhasesAgree, Fresh, Total, Streams, Codes
<1>4. CASE Cancel
  BY <1>4 DEF Cancel, DrainsAreTrue, UnitsTyped, CallTyped, PhasesAgree, Fresh, Total, Streams, Codes
<1>5. CASE DeadlinePasses
  BY <1>5 DEF DeadlinePasses, DrainsAreTrue, UnitsTyped, CallTyped, PhasesAgree, Fresh, Total, Streams, Codes
<1>6. ASSUME NEW s \in Streams, Gather(s)
      PROVE  DrainsAreTrue'
  BY <1>6 DEF Gather, DrainsAreTrue, UnitsTyped, CallTyped, PhasesAgree, Fresh, Total, Streams, Codes
<1>7. ASSUME NEW s \in Streams, CountChunk(s)
      PROVE  DrainsAreTrue'
  <2> DEFINE counted == [counts EXCEPT ![s] = counts[s] + held[s]]
  <2>1. counted \in [Streams -> Nat] /\ Total(counts) <= Total(counted)
    BY <1>7 DEF UnitsTyped, Total, Streams
  <2>2. Total(counts) \in Int /\ Total(counted) \in Int
    BY <2>1 DEF UnitsTyped, Total, Streams
  <2>3. output_limit' => Total(counts') > OutputLimit
    <3>1. counts' = counted
      BY <1>7 DEF CountChunk
    <3>2. output_limit' => output_limit \/ Total(counted) > OutputLimit
      BY <1>7 DEF CountChunk
    <3>3. output_limit => Total(counts) > OutputLimit
      BY DEF DrainsAreTrue
    <3> HIDE DEF counted
    <3> QED BY <2>1, <2>2, <3>1, <3>2, <3>3, SizesAssumption
  <2>4. \A t \in Streams : drain'[t] = "limit" => output_limit'
    BY <1>7 DEF CountChunk, DrainsAreTrue, UnitsTyped
  <2>5. \A t \in Streams : drain'[t] = "eof" =>
            child' \in Codes /\ held'[t] = 0 /\ pipe'[t] = 0
    BY <1>7 DEF CountChunk, DrainsAreTrue, UnitsTyped
  <2> QED BY <2>3, <2>4, <2>5 DEF DrainsAreTrue
<1>8. ASSUME NEW s \in Streams, DrainEnds(s)
      PROVE  DrainsAreTrue'
  BY <1>8 DEF DrainEnds, DrainsAreTrue, UnitsTyped, CallTyped, PhasesAgree, Fresh, Total, Streams, Codes, EndOfStream
<1>9. ASSUME NEW s \in Streams, DrainFails(s)
      PROVE  DrainsAreTrue'
  BY <1>9 DEF DrainFails, DrainsAreTrue, UnitsTyped, CallTyped, PhasesAgree, Fresh, Total, Streams, Codes
<1>10. CASE Start
  BY <1>10 DEF Start, DrainsAreTrue, UnitsTyped, CallTyped, PhasesAgree, Fresh, Total, Streams, Codes
<1>11. CASE Poll
  BY <1>11 DEF Poll, DrainsAreTrue, UnitsTyped, CallTyped, PhasesAgree, Fresh, Total, Streams, Codes, Goto
<1>12. CASE TestCancel
  BY <1>12 DEF TestCancel, DrainsAreTrue, UnitsTyped, CallTyped, PhasesAgree, Fresh, Total, Streams, Codes, Test, Goto
<1>13. CASE TestLimit
  BY <1>13 DEF TestLimit, DrainsAreTrue, UnitsTyped, CallTyped, PhasesAgree, Fresh, Total, Streams, Codes, Test, Goto
<1>14. CASE TestClock
  BY <1>14 DEF TestClock, DrainsAreTrue, UnitsTyped, CallTyped, PhasesAgree, Fresh, Total, Streams, Codes, Test, Goto
<1>15. CASE TerminatePolls
  BY <1>15 DEF TerminatePolls, DrainsAreTrue, UnitsTyped, CallTyped, PhasesAgree, Fresh, Total, Streams, Codes, Goto
<1>16. CASE Kill
  BY <1>16 DEF Kill, DrainsAreTrue, UnitsTyped, CallTyped, PhasesAgree, Fresh, Total, Streams, Codes, Goto
<1>17. CASE WaitReturns
  BY <1>17 DEF WaitReturns, DrainsAreTrue, UnitsTyped, CallTyped, PhasesAgree, Fresh, Total, Streams, Codes, Goto
<1>18. CASE Collect
  BY <1>18 DEF Collect, DrainsAreTrue, UnitsTyped, CallTyped, PhasesAgree, Fresh, Total, Streams, Codes, FreshTrial
<1>19. ASSUME NEW s \in Streams, JoinReturns(s)
      PROVE  DrainsAreTrue'
  BY <1>19 DEF JoinReturns, DrainsAreTrue, UnitsTyped, CallTyped, PhasesAgree, Fresh, Total, Streams, Codes, Goto, AfterJoin, JoinPlace
<1>20. CASE WaitTimesOut
  BY <1>20 DEF WaitTimesOut, DrainsAreTrue, UnitsTyped, CallTyped, PhasesAgree, Fresh, Total, Streams, Codes, Goto
<1>21. ASSUME NEW s \in Streams, JoinTimesOut(s)
      PROVE  DrainsAreTrue'
  BY <1>21 DEF JoinTimesOut, DrainsAreTrue, UnitsTyped, CallTyped, PhasesAgree, Fresh, Total, Streams, Codes, AfterJoin, JoinPlace
<1>22. CASE Finished
  BY <1>22 DEF Finished, DrainsAreTrue, UnitsTyped, CallTyped, PhasesAgree, Fresh, Total, Streams, Codes
<1>23. CASE UNCHANGED vars
  BY <1>23 DEF DrainsAreTrue, UnitsTyped, CallTyped, PhasesAgree, Fresh, Total, Streams, Codes
<1> QED
  BY <1>1, <1>2, <1>3, <1>4, <1>5, <1>6, <1>7, <1>8, <1>9, <1>10, <1>11, <1>12, <1>13, <1>14, <1>15, <1>16, <1>17, <1>18, <1>19, <1>20, <1>21, <1>22, <1>23
     DEF Next, ChildStep, DrainStep, MainStep, TimeOut

\* Whoever passes a join without the thread's end leaves a mark.
LEMMA StepLate ==
    ASSUME UnitsTyped, CallTyped, PhasesAgree, LateIsKnown, [Next]_vars
    PROVE  LateIsKnown'
<1> USE DEF vars, callVars, childVars, drainVars
<1>1. CASE ChildEnds
  BY <1>1 DEF ChildEnds, LateIsKnown, UnitsTyped, CallTyped, PhasesAgree, Fresh, Streams
<1>2. ASSUME NEW s \in Streams, ChildWrites(s)
      PROVE  LateIsKnown'
  BY <1>2 DEF ChildWrites, LateIsKnown, UnitsTyped, CallTyped, PhasesAgree, Fresh, Streams
<1>3. CASE ChildDies
  BY <1>3 DEF ChildDies, LateIsKnown, UnitsTyped, CallTyped, PhasesAgree, Fresh, Streams
<1>4. CASE Cancel
  BY <1>4 DEF Cancel, LateIsKnown, UnitsTyped, CallTyped, PhasesAgree, Fresh, Streams
<1>5. CASE DeadlinePasses
  BY <1>5 DEF DeadlinePasses, LateIsKnown, UnitsTyped, CallTyped, PhasesAgree, Fresh, Streams
<1>6. ASSUME NEW s \in Streams, Gather(s)
      PROVE  LateIsKnown'
  BY <1>6 DEF Gather, LateIsKnown, UnitsTyped, CallTyped, PhasesAgree, Fresh, Streams
<1>7. ASSUME NEW s \in Streams, CountChunk(s)
      PROVE  LateIsKnown'
  BY <1>7 DEF CountChunk, LateIsKnown, UnitsTyped, CallTyped, PhasesAgree, Fresh, Streams, EndOfStream
<1>8. ASSUME NEW s \in Streams, DrainEnds(s)
      PROVE  LateIsKnown'
  BY <1>8 DEF DrainEnds, LateIsKnown, UnitsTyped, CallTyped, PhasesAgree, Fresh, Streams, EndOfStream
<1>9. ASSUME NEW s \in Streams, DrainFails(s)
      PROVE  LateIsKnown'
  BY <1>9 DEF DrainFails, LateIsKnown, UnitsTyped, CallTyped, PhasesAgree, Fresh, Streams
<1>10. CASE Start
  BY <1>10, EntriesAssumption DEF Start, LateIsKnown, CallTyped, PhasesAgree, Fresh, Streams
<1>11. CASE Poll
  BY <1>11 DEF Poll, LateIsKnown, UnitsTyped, CallTyped, PhasesAgree, Fresh, Streams, Goto
<1>12. CASE TestCancel
  BY <1>12 DEF TestCancel, LateIsKnown, UnitsTyped, CallTyped, PhasesAgree, Fresh, Streams, Test, Goto
<1>13. CASE TestLimit
  BY <1>13 DEF TestLimit, LateIsKnown, UnitsTyped, CallTyped, PhasesAgree, Fresh, Streams, Test, Goto
<1>14. CASE TestClock
  BY <1>14 DEF TestClock, LateIsKnown, UnitsTyped, CallTyped, PhasesAgree, Fresh, Streams, Test, Goto
<1>15. CASE TerminatePolls
  BY <1>15 DEF TerminatePolls, LateIsKnown, UnitsTyped, CallTyped, PhasesAgree, Fresh, Streams, Goto
<1>16. CASE Kill
  BY <1>16 DEF Kill, LateIsKnown, UnitsTyped, CallTyped, PhasesAgree, Fresh, Streams, Goto
<1>17. CASE WaitReturns
  BY <1>17 DEF WaitReturns, LateIsKnown, UnitsTyped, CallTyped, PhasesAgree, Fresh, Streams, Goto
<1>18. CASE Collect
  BY <1>18 DEF Collect, LateIsKnown, UnitsTyped, CallTyped, PhasesAgree, Fresh, Streams, FreshTrial
<1>19. ASSUME NEW s \in Streams, JoinReturns(s)
      PROVE  LateIsKnown'
  BY <1>19 DEF JoinReturns, LateIsKnown, UnitsTyped, CallTyped, PhasesAgree, Fresh, Streams, Goto, AfterJoin, JoinPlace
<1>20. CASE WaitTimesOut
  BY <1>20 DEF WaitTimesOut, LateIsKnown, UnitsTyped, CallTyped, PhasesAgree, Fresh, Streams, Goto
<1>21. ASSUME NEW s \in Streams, JoinTimesOut(s)
      PROVE  LateIsKnown'
  BY <1>21 DEF JoinTimesOut, LateIsKnown, UnitsTyped, CallTyped, PhasesAgree, Fresh, Streams, AfterJoin, JoinPlace
<1>22. CASE Finished
  BY <1>22 DEF Finished, LateIsKnown, UnitsTyped, CallTyped, PhasesAgree, Fresh, Streams
<1>23. CASE UNCHANGED vars
  BY <1>23 DEF LateIsKnown, UnitsTyped, CallTyped, PhasesAgree, Fresh, Streams
<1> QED
  BY <1>1, <1>2, <1>3, <1>4, <1>5, <1>6, <1>7, <1>8, <1>9, <1>10, <1>11, <1>12, <1>13, <1>14, <1>15, <1>16, <1>17, <1>18, <1>19, <1>20, <1>21, <1>22, <1>23
     DEF Next, ChildStep, DrainStep, MainStep, TimeOut

LEMMA InitHolds == Init => IInv
<1> SUFFICES ASSUME Init
             PROVE  IInv
  OBVIOUS
<1>1. FlagsTyped
  BY DEF Init, FlagsTyped
<1>2. UnitsTyped
  BY SizesAssumption DEF Init, UnitsTyped, Nothing
<1>3. CallTyped
  BY DEF Init, CallTyped, Places, Reasons
<1>4. PhasesAgree
  BY TrialsAssumption DEF Init, PhasesAgree, Fresh, Busy, Reaped
<1>5. ReasonsHaveCauses /\ EndsAreTrue /\ UnitsAreKept
  BY DEF Init, ReasonsHaveCauses, EndsAreTrue, UnitsAreKept, Busy
<1>6. DrainsAreTrue /\ LateIsKnown
  BY DEF Init, DrainsAreTrue, LateIsKnown
<1> QED BY <1>1, <1>2, <1>3, <1>4, <1>5, <1>6 DEF IInv, Typed

LEMMA StepHolds ==
    ASSUME IInv, [Next]_vars
    PROVE  IInv'
<1>1. Typed'
  BY StepFlags, StepUnits, StepCall DEF IInv, Typed
<1>2. PhasesAgree' /\ ReasonsHaveCauses' /\ EndsAreTrue'
  BY StepPhases, StepReasons, StepEnds DEF IInv, Typed
<1>3. UnitsAreKept' /\ DrainsAreTrue' /\ LateIsKnown'
  BY StepUnitsKept, StepDrains, StepLate DEF IInv, Typed
<1> QED BY <1>1, <1>2, <1>3 DEF IInv

\* For any number of trials, limits, sizes and children the invariant holds.
THEOREM CallInvariant == Spec => []IInv
<1> QED BY InitHolds, StepHolds, PTL DEF Spec

\* Every variable of the call keeps its type: in particular no pipe and no
\* drain thread ever holds more than its size.
THEOREM TypeCorrect == Spec => []TypeOK
<1>1. IInv => TypeOK
  BY DEF IInv, Typed, FlagsTyped, UnitsTyped, CallTyped, Places, Busy, TypeOK
<1> QED BY <1>1, CallInvariant, PTL

\* No child outlives its trial: whatever races what, the main thread goes past
\* the second wait of _run_bounded_process only with a return code in hand, so
\* that no child is at work when a workspace is deleted (predicate.py:409-424).
THEOREM ChildrenAreReaped == Spec => []NoChildIsLeft
<1>1. IInv => NoChildIsLeft
  BY DEF IInv, PhasesAgree, Reaped, Fresh, Codes, NoChildIsLeft
<1> QED BY <1>1, CallInvariant, PTL

-----------------------------------------------------------------------------
(* The call implements the promise.                                        *)

\* What Collect records is what Verdicts allows of this trial.
LEMMA CollectRecords ==
    ASSUME IInv, Collect
    PROVE  \E r \in Promise!Recordable(Len(attempts) + 1,
                       mishaps \intersect {"cancelled", "timeout"} # {},
                       "late" \in mishaps) :
              attempts' = Append(attempts, r)
<1> DEFINE why == IF output_limit /\ reason = "none" THEN "output_limit" ELSE reason
           r == TrialResult(why, child, Total(counts))
           said == ExitProtocol(plan[Trial].end)
<1>1. attempts' = Append(attempts, r)
  BY DEF Collect
<1>2. /\ Trial \in 1..Trials
      /\ child \in Codes
      /\ entry = "runs"
      /\ pc = "collect" /\ pc \in Busy
  BY TrialsAssumption DEF Collect, IInv, PhasesAgree, Reaped, Busy, Typed, CallTyped, Trial
<1>3. plan[Trial].writes \in [Streams -> Nat]
  BY <1>2, PlansAssumption DEF IInv, Typed, CallTyped, Scripts
<1>4. /\ Total(counts) \in Int /\ Total(plan[Trial].writes) \in Int
      /\ Total(counts) <= Total(plan[Trial].writes)
  BY <1>2, <1>3 DEF IInv, UnitsAreKept, Units, Typed, UnitsTyped, Total, Streams
<1>5. (output_limit \/ Total(counts) > OutputLimit) => Overflows(Trial)
  BY <1>4, SizesAssumption DEF IInv, DrainsAreTrue, Overflows
<1>6. why # "none" =>
        Overflows(Trial) \/ mishaps \intersect {"cancelled", "timeout"} # {}
  <2>1. reason \in {"cancelled", "timeout", "output_limit", "none"}
    BY DEF IInv, Typed, CallTyped, Reasons
  <2> QED BY <1>5, <2>1 DEF IInv, ReasonsHaveCauses
<1>7. why = "none" => child = plan[Trial].end /\ left = Nothing /\ ~output_limit
  BY <1>2 DEF IInv, ReasonsHaveCauses, EndsAreTrue
<1>8. why = "none" /\ "late" \notin mishaps => ~Overflows(Trial) \/ Total(counts) > OutputLimit
  <2> SUFFICES ASSUME why = "none", "late" \notin mishaps
               PROVE  Total(counts) = Total(plan[Trial].writes)
    BY <1>4 DEF Overflows
  <2>1. \A s \in Streams : drain[s] = "eof"
    BY <1>2, <1>7 DEF IInv, LateIsKnown, DrainsAreTrue, Typed, UnitsTyped
  <2>2. \A s \in Streams : held[s] = 0 /\ pipe[s] = 0 /\ left[s] = 0
    BY <1>7, <2>1 DEF IInv, DrainsAreTrue, Nothing
  <2>3. \A s \in Streams : counts[s] = plan[Trial].writes[s]
    BY <1>2, <2>1, <2>2 DEF IInv, UnitsAreKept, Units, Typed, UnitsTyped
  <2> QED BY <2>3 DEF Total, Streams
<1>9. r \in {IF Overflows(Trial) THEN "invalid" ELSE said}
        \union (IF mishaps \intersect {"cancelled", "timeout"} # {} THEN {"invalid"} ELSE {})
        \union (IF "late" \in mishaps THEN {said} ELSE {})
  <2>1. CASE why # "none" \/ Total(counts) > OutputLimit
    BY <1>5, <1>6, <2>1 DEF TrialResult
  <2>2. CASE why = "none" /\ ~(Total(counts) > OutputLimit)
    <3>1. r = said
      BY <1>7, <2>2 DEF TrialResult
    <3> HIDE DEF r, said
    <3> QED BY <1>8, <2>2, <3>1
  <2> QED BY <2>1, <2>2
<1> QED
  BY <1>1, <1>2, <1>9 DEF Promise!Recordable, Trial

\* The runner's K-of-N is that of the protocol.
LEMMA SameCount ==
    ASSUME NEW rs
    PROVE  KOfN(rs) = Promise!KOfN(rs)
<1>1. Cardinality({t \in DOMAIN rs : rs[t] = "reproduces"}) = Promise!Zeros(rs)
  BY DEF Promise!Zeros, Cardinality, Promise!Cardinality
<1> QED BY <1>1 DEF KOfN, Promise!KOfN

LEMMA InitImplements == Init => Promise!Init
<1> SUFFICES ASSUME Init PROVE Promise!Init
  OBVIOUS
<1>1. [t \in 1..Trials |-> IF entry = "runs" THEN ExitProtocol(plan[t].end) ELSE "invalid"]
        \in [1..Trials -> Promise!Results]
  BY DEF Promise!Results, ExitProtocol
<1> QED BY <1>1 DEF Init, Promise!Init

\* A step that records nothing only disturbs the call.
LEMMA QuietImplements ==
    ASSUME UNCHANGED <<plan, entry, attempts, report>>, mishaps \subseteq mishaps'
    PROVE  Promise!Disturb
<1> DEFINE stopped == mishaps \intersect {"cancelled", "timeout"} # {}
           unread == "late" \in mishaps
<1>1. stopped' = stopped \/ stopped' = TRUE
  <2>1. stopped => stopped'
    OBVIOUS
  <2> QED BY <2>1
<1>2. unread' = unread \/ unread' = TRUE
  <2>1. unread => unread'
    OBVIOUS
  <2> QED BY <2>1
<1>3. UNCHANGED <<[t \in 1..Trials |->
                     IF entry = "runs" THEN ExitProtocol(plan[t].end) ELSE "invalid"],
                  {t \in 1..Trials : entry = "runs" /\ Overflows(t)},
                  attempts, report>>
  BY DEF Overflows
<1> QED BY <1>1, <1>2, <1>3 DEF Promise!Disturb

\* A recorded trial that Verdicts allows, with the report after the last one.
LEMMA RecordImplements ==
    ASSUME Typed, Len(attempts) < Trials, UNCHANGED <<plan, entry, mishaps>>,
           NEW r \in Promise!Recordable(Len(attempts) + 1,
                       mishaps \intersect {"cancelled", "timeout"} # {},
                       "late" \in mishaps),
           attempts' = Append(attempts, r),
           report' = IF Trial = Trials THEN KOfN(attempts') ELSE report
    PROVE  Promise!Record
<1>1. UNCHANGED <<[t \in 1..Trials |->
                     IF entry = "runs" THEN ExitProtocol(plan[t].end) ELSE "invalid"],
                  {t \in 1..Trials : entry = "runs" /\ Overflows(t)},
                  mishaps \intersect {"cancelled", "timeout"} # {},
                  "late" \in mishaps>>
  BY DEF Overflows
<1>2. Len(attempts') = Trial
  BY DEF Typed, CallTyped, Trial
<1>3. report' \in {report} \union
         (IF Len(attempts') = Trials THEN {Promise!KOfN(attempts')} ELSE {})
  <2>1. KOfN(attempts') = Promise!KOfN(attempts')
    BY SameCount
  <2> QED BY <1>2, <2>1
<1> QED BY <1>1, <1>3 DEF Promise!Record

LEMMA StepImplements ==
    ASSUME IInv, [Next]_vars
    PROVE  [Promise!Next]_(Promise!vars)
<1> USE DEF IInv
<1> DEFINE Quiet == UNCHANGED <<plan, entry, attempts, report>> /\ mishaps \subseteq mishaps'
<1>1. CASE Quiet
  BY <1>1, QuietImplements DEF Promise!Next
<1>2. CASE Collect
  <2>1. Len(attempts) < Trials /\ UNCHANGED <<plan, entry, mishaps>>
    BY <1>2 DEF Collect, IInv, PhasesAgree, callVars
  <2>2. report' = IF Trial = Trials THEN KOfN(attempts') ELSE report
    BY <1>2 DEF Collect
  <2>3. Promise!Record
    BY <1>2, <2>1, <2>2, CollectRecords, RecordImplements
  <2> QED BY <2>3 DEF Promise!Next
<1>3. CASE Start
  <2>1. CASE entry = "invalid"
    <3>1. /\ attempts' = Append(attempts, "invalid")
          /\ report' = IF Trial = Trials THEN KOfN(attempts') ELSE report
          /\ UNCHANGED <<plan, entry, mishaps>>
      BY <1>3, <2>1 DEF Start, callVars
    <3>2. Len(attempts) < Trials /\ Len(attempts) + 1 \in 1..Trials
      BY <1>3, TrialsAssumption DEF Start, IInv, PhasesAgree, Typed, CallTyped
    <3>3. "invalid" \in Promise!Recordable(Len(attempts) + 1,
                       mishaps \intersect {"cancelled", "timeout"} # {},
                       "late" \in mishaps)
      BY <2>1, <3>2 DEF Promise!Recordable
    <3>4. Promise!Record
      BY <3>1, <3>2, <3>3, RecordImplements
    <3> QED BY <3>4 DEF Promise!Next
  <2>2. CASE entry # "invalid"
    <3>1. Quiet
      BY <1>3, <2>2, EntriesAssumption DEF Start, callVars, Typed, CallTyped
    <3> QED BY <1>1, <3>1
  <2> QED BY <2>1, <2>2
<1>4. (\E s \in Streams : DrainStep(s) \/ DrainFails(s)) => Quiet
  BY DEF DrainStep, Gather, CountChunk, DrainEnds, DrainFails, callVars
<1>5. ChildStep \/ ChildDies \/ Cancel \/ DeadlinePasses => Quiet
  BY DEF ChildStep, ChildEnds, ChildWrites, ChildDies, Cancel, DeadlinePasses, callVars
<1>6. MainStep => Start \/ Collect \/ Quiet
  BY DEF MainStep, Poll, TestCancel, TestLimit, TestClock, Test, TerminatePolls, Kill,
         WaitReturns, JoinReturns, Goto, callVars
<1>7. TimeOut => Quiet
  BY DEF TimeOut, WaitTimesOut, JoinTimesOut, Goto, callVars
<1>8. Finished \/ UNCHANGED vars => Quiet
  BY DEF Finished, vars
<1> HIDE DEF Quiet
<1> QED BY <1>1, <1>2, <1>3, <1>4, <1>5, <1>6, <1>7, <1>8 DEF Next

\* run_predicate keeps the promise of the predicate protocol, for any number of
\* trials, any K, any limit and sizes, and however the child's end, the kill,
\* the cancellation, the output, the deadline and the drain threads race
\* (predicate.py:302-598).
THEOREM CallImplementsVerdicts == Spec => ImplementsVerdicts
<1>1. Init => Promise!Init
  BY InitImplements
<1>2. IInv /\ [Next]_vars => [Promise!Next]_(Promise!vars)
  BY StepImplements
<1> QED BY <1>1, <1>2, CallInvariant, PTL DEF Spec, ImplementsVerdicts, Promise!Spec

-----------------------------------------------------------------------------
(* And with it everything that is proved of the promise.                   *)

Sound == INSTANCE VerdictsProofs WITH
    verdicts <- [t \in 1..Trials |->
                    IF entry = "runs" THEN ExitProtocol(plan[t].end) ELSE "invalid"],
    floods <- {t \in 1..Trials : entry = "runs" /\ Overflows(t)},
    stopped <- mishaps \intersect {"cancelled", "timeout"} # {},
    unread <- "late" \in mishaps,
    results <- attempts,
    answer <- report

\* A report other than "invalid" counts the zeros of children that all ended by
\* themselves with 0 or 1, and with no thread lost none of them wrote too much;
\* without a cancellation or a deadline "invalid" has its cause in a child
\* (predicate.py:530-598).
THEOREM ReportsAreSound ==
    Spec => [](Sound!AnswerIsSound /\ Sound!AnswerIsExact)
<1>1. Promise!Init => Sound!Init
  BY DEF Promise!Init, Sound!Init, Promise!Results, Sound!Results
<1>2. [Promise!Next]_(Promise!vars) => [Sound!Next]_(Sound!vars)
  <2>1. \A rs : Promise!KOfN(rs) = Sound!KOfN(rs)
    <3> TAKE rs
    <3>1. Promise!Zeros(rs) = Sound!Zeros(rs)
      BY DEF Promise!Zeros, Sound!Zeros, Promise!Cardinality, Sound!Cardinality
    <3> QED BY <3>1 DEF Promise!KOfN, Sound!KOfN
  <2>2. Promise!Disturb => Sound!Disturb
    BY DEF Promise!Disturb, Sound!Disturb
  <2>3. Promise!Record => Sound!Record
    BY <2>1 DEF Promise!Record, Sound!Record, Promise!Recordable, Sound!Recordable
  <2>4. Promise!Answer => Sound!Answer
    BY <2>1 DEF Promise!Answer, Sound!Answer
  <2>5. UNCHANGED Promise!vars => UNCHANGED Sound!vars
    BY DEF Promise!vars, Sound!vars
  <2> QED BY <2>2, <2>3, <2>4, <2>5 DEF Promise!Next, Sound!Next
<1>3. Sound!Spec => []Sound!AnswerIsSound /\ []Sound!AnswerIsExact
  BY TrialsAssumption, Sound!AnswersAreSound, Sound!AnswersAreExact
<1> QED
  BY <1>1, <1>2, <1>3, CallImplementsVerdicts, PTL
     DEF ImplementsVerdicts, Promise!Spec, Sound!Spec
===============================================================================

------------------------------- MODULE Verdicts -------------------------------
(***************************************************************************)
(* What a run of the declared predicate promises, with nothing of how it   *)
(* is run (docs/PRODUCT_CONTRACT.md, "Predicate protocol"): each trial is   *)
(* recorded once, in order, and the recorded trials decide the answer.      *)
(* A trial that is disturbed may be recorded as invalid; one whose output   *)
(* was not read to its end may escape the output limit; nothing else can    *)
(* happen to it.  PredicateRun (predicate.py) and Reproducer (the exported  *)
(* reproduce.py) implement it, so that the two agree on a capsule.          *)
(***************************************************************************)
EXTENDS Integers, Sequences, FiniteSets

CONSTANTS Trials, Required     \* N and K

VARIABLES
    verdicts,  \* what each trial's child says when nothing disturbs it (rigid)
    floods,    \* the trials whose child writes more than the limit (rigid)
    stopped,   \* a cancellation or a deadline has struck
    unread,    \* a drain thread has failed or has been given up on
    results,   \* the recorded trials
    answer     \* "none" until the run answers

vars == <<verdicts, floods, stopped, unread, results, answer>>

Results == {"reproduces", "absent", "invalid"}

Zeros(rs) == Cardinality({t \in DOMAIN rs : rs[t] = "reproduces"})

\* One invalid trial spoils the run; otherwise Required zeros are needed.
KOfN(rs) ==
    IF \E t \in DOMAIN rs : rs[t] = "invalid" THEN "invalid"
    ELSE IF Zeros(rs) >= Required THEN "reproduces" ELSE "absent"

\* What may be recorded of trial t.
Recordable(t, isStopped, isUnread) ==
    {IF t \in floods THEN "invalid" ELSE verdicts[t]}
        \union (IF isStopped THEN {"invalid"} ELSE {})
        \union (IF isUnread THEN {verdicts[t]} ELSE {})

Init ==
    /\ verdicts \in [1..Trials -> Results]
    /\ floods \subseteq 1..Trials
    /\ stopped = FALSE
    /\ unread = FALSE
    /\ results = <<>>
    /\ answer = "none"

Disturb ==
    /\ stopped' \in {stopped, TRUE}
    /\ unread' \in {unread, TRUE}
    /\ UNCHANGED <<verdicts, floods, results, answer>>

\* The last trial may be recorded and answered in one step.
Record ==
    /\ Len(results) < Trials
    /\ \E r \in Recordable(Len(results) + 1, stopped, unread) :
          results' = Append(results, r)
    /\ answer' \in {answer} \union
          (IF Len(results') = Trials THEN {KOfN(results')} ELSE {})
    /\ UNCHANGED <<verdicts, floods, stopped, unread>>

Answer ==
    /\ Len(results) = Trials
    /\ answer = "none"
    /\ answer' = KOfN(results)
    /\ UNCHANGED <<verdicts, floods, stopped, unread, results>>

Next == Disturb \/ Record \/ Answer

Spec == Init /\ [][Next]_vars

-----------------------------------------------------------------------------
\* What a user may conclude: an answer other than "invalid" counts the zeros
\* of children that all ended with 0 or 1, and when every stream was read to
\* its end, none of them wrote too much.
AnswerIsSound ==
    answer \in {"reproduces", "absent"} =>
        /\ \A t \in 1..Trials : verdicts[t] # "invalid"
        /\ answer = IF Zeros(verdicts) >= Required THEN "reproduces" ELSE "absent"
        /\ ~unread => floods = {}

\* And a run nothing disturbed does not answer "invalid" for nothing.
AnswerIsExact ==
    answer = "invalid" /\ ~stopped =>
        floods # {} \/ \E t \in 1..Trials : verdicts[t] = "invalid"
===============================================================================

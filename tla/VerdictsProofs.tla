---------------------------- MODULE VerdictsProofs ----------------------------
(***************************************************************************)
(* What the two runners promise by implementing Verdicts, for any number   *)
(* of trials and any K.                                                     *)
(***************************************************************************)
EXTENDS Verdicts, TLAPS

\* A trial is recorded as what its child says, or as invalid for a reason.
Recorded(t) ==
    /\ \/ results[t] = verdicts[t]
       \/ results[t] = "invalid" /\ (stopped \/ t \in floods)
    /\ t \in floods /\ ~unread => results[t] = "invalid"

RecordsAreSound ==
    /\ verdicts \in [1..Trials -> Results]
    /\ floods \subseteq 1..Trials
    /\ stopped \in BOOLEAN /\ unread \in BOOLEAN
    /\ results \in Seq(Results)
    /\ Len(results) <= Trials
    /\ \A t \in 1..Len(results) : Recorded(t)

\* The answer is K-of-N of all trials, for good.
AnswerIsCounted ==
    answer # "none" => Len(results) = Trials /\ answer = KOfN(results)

IInv == RecordsAreSound /\ AnswerIsCounted

-----------------------------------------------------------------------------
LEMMA InitHolds ==
    ASSUME Trials \in Nat, Init
    PROVE  IInv
<1>1. results \in Seq(Results) /\ Len(results) = 0
  BY DEF Init
<1>2. stopped \in BOOLEAN /\ unread \in BOOLEAN
  BY DEF Init
<1>3. \A t \in 1..Len(results) : Recorded(t)
  BY <1>1
<1>4. RecordsAreSound
  BY <1>1, <1>2, <1>3 DEF Init, RecordsAreSound
<1> QED BY <1>4 DEF Init, IInv, AnswerIsCounted

\* A disturbance only adds reasons; it takes none away.
LEMMA DisturbKeeps ==
    ASSUME Trials \in Nat, IInv, Disturb
    PROVE  IInv'
<1>1. /\ stopped' \in BOOLEAN /\ unread' \in BOOLEAN
      /\ stopped => stopped'
      /\ ~unread' => ~unread
  <2>1. stopped \in BOOLEAN /\ unread \in BOOLEAN
    BY DEF IInv, RecordsAreSound
  <2>2. stopped' = stopped \/ stopped' = TRUE
    BY DEF Disturb
  <2>3. unread' = unread \/ unread' = TRUE
    BY DEF Disturb
  <2> QED BY <2>1, <2>2, <2>3
<1>2. UNCHANGED <<verdicts, floods, results, answer>>
  BY DEF Disturb
<1>3. \A t \in 1..Len(results) : Recorded(t)'
  <2> TAKE t \in 1..Len(results)
  <2>1. Recorded(t)
    BY DEF IInv, RecordsAreSound
  <2> QED BY <1>1, <1>2, <2>1, Zenon DEF Recorded
<1>4. RecordsAreSound'
  BY <1>1, <1>2, <1>3 DEF IInv, RecordsAreSound
<1>5. AnswerIsCounted'
  BY <1>2 DEF IInv, AnswerIsCounted, KOfN, Zeros
<1> QED BY <1>4, <1>5 DEF IInv

LEMMA RecordKeeps ==
    ASSUME Trials \in Nat, IInv, Record
    PROVE  IInv'
<1>1. PICK n \in 1..Trials : n = Len(results) + 1
  BY DEF Record, IInv, RecordsAreSound
<1>2. PICK r \in Recordable(n, stopped, unread) : results' = Append(results, r)
  BY <1>1 DEF Record
<1>3. r \in Results
  BY DEF Recordable, IInv, RecordsAreSound, Results
<1>4. /\ results' \in Seq(Results)
      /\ Len(results') = n
      /\ results'[n] = r
      /\ \A t \in 1..Len(results) : results'[t] = results[t]
  BY <1>1, <1>2, <1>3 DEF IInv, RecordsAreSound
<1>5. \A t \in 1..Len(results) : Recorded(t)'
  BY <1>4 DEF IInv, RecordsAreSound, Recorded, Record
<1>6. Recorded(n)'
  <2>1. UNCHANGED <<verdicts, floods, stopped, unread>>
    BY DEF Record
  <2>2. CASE r = IF n \in floods THEN "invalid" ELSE verdicts[n]
    BY <1>4, <2>1, <2>2 DEF Recorded
  <2>3. CASE stopped /\ r = "invalid"
    BY <1>4, <2>1, <2>3 DEF Recorded
  <2>4. CASE unread /\ r = verdicts[n]
    BY <1>4, <2>1, <2>4 DEF Recorded
  <2> QED BY <2>2, <2>3, <2>4 DEF Recordable
<1>7. RecordsAreSound'
  <2>1. \A t \in 1..Len(results)' : Recorded(t)'
    <3> TAKE t \in 1..Len(results)'
    <3>1. t \in 1..Len(results) \/ t = n
      BY <1>1, <1>4
    <3> QED BY <1>5, <1>6, <3>1
  <2> QED BY <1>4, <2>1 DEF Record, IInv, RecordsAreSound
<1>8. answer = "none"
  BY DEF Record, IInv, AnswerIsCounted, RecordsAreSound
<1>9. AnswerIsCounted'
  BY <1>8 DEF Record, AnswerIsCounted
<1> QED BY <1>7, <1>9 DEF IInv

\* All trials are recorded with nothing or their K-of-N as the answer.
THEOREM AnswersAreCounted ==
    ASSUME Trials \in Nat
    PROVE  Spec => []IInv
<1>1. Init => IInv
  BY InitHolds
<1>2. IInv /\ [Next]_vars => IInv'
  <2> SUFFICES ASSUME IInv, [Next]_vars
               PROVE  IInv'
    OBVIOUS
  <2>1. CASE Disturb
    BY <2>1, DisturbKeeps
  <2>2. CASE Record
    BY <2>2, RecordKeeps
  <2>3. CASE Answer
    <3>1. RecordsAreSound'
      BY <2>3 DEF Answer, IInv, RecordsAreSound, Recorded
    <3>2. AnswerIsCounted'
      BY <2>3 DEF Answer, AnswerIsCounted, KOfN, Zeros
    <3> QED BY <3>1, <3>2 DEF IInv
  <2>4. CASE UNCHANGED vars
    BY <2>4 DEF vars, IInv, RecordsAreSound, Recorded, AnswerIsCounted, KOfN, Zeros
  <2> QED BY <2>1, <2>2, <2>3, <2>4 DEF Next
<1> QED BY <1>1, <1>2, PTL DEF Spec

-----------------------------------------------------------------------------
\* For any K and N, "reproduces" and "absent" count the zeros of children that
\* all ended with 0 or 1, and without a lost thread none of them wrote too much
\* (run_predicate; load_and_run of reproduce.py).
THEOREM AnswersAreSound ==
    ASSUME Trials \in Nat
    PROVE  Spec => []AnswerIsSound
<1>1. IInv => AnswerIsSound
  <2> SUFFICES ASSUME IInv, answer \in {"reproduces", "absent"}
               PROVE  /\ \A t \in 1..Trials : verdicts[t] # "invalid"
                      /\ answer = IF Zeros(verdicts) >= Required THEN "reproduces" ELSE "absent"
                      /\ ~unread => floods = {}
    BY DEF AnswerIsSound
  <2>1. /\ Len(results) = Trials
        /\ answer = KOfN(results)
    BY DEF IInv, AnswerIsCounted
  <2>2. /\ DOMAIN results = 1..Trials
        /\ DOMAIN verdicts = 1..Trials
    BY <2>1 DEF IInv, RecordsAreSound
  <2>3. \A t \in 1..Trials : results[t] # "invalid"
    BY <2>1, <2>2 DEF KOfN
  <2>4. \A t \in 1..Trials : results[t] = verdicts[t]
    BY <2>1, <2>3 DEF IInv, RecordsAreSound, Recorded
  <2>5. {t \in DOMAIN results : results[t] = "reproduces"}
          = {t \in DOMAIN verdicts : verdicts[t] = "reproduces"}
    BY <2>2, <2>4
  <2>6. Zeros(results) = Zeros(verdicts)
    BY <2>5 DEF Zeros
  <2>7. answer = IF Zeros(verdicts) >= Required THEN "reproduces" ELSE "absent"
    BY <2>1, <2>2, <2>3, <2>6 DEF KOfN
  <2>8. ~unread => floods = {}
    BY <2>1, <2>3 DEF IInv, RecordsAreSound, Recorded
  <2> QED BY <2>3, <2>4, <2>7, <2>8
<1> QED BY <1>1, AnswersAreCounted, PTL

\* Without a cancellation or a deadline "invalid" has a cause in a child: one
\* that ended with another status or wrote more than the limit.
THEOREM AnswersAreExact ==
    ASSUME Trials \in Nat
    PROVE  Spec => []AnswerIsExact
<1>1. IInv => AnswerIsExact
  <2> SUFFICES ASSUME IInv, answer = "invalid", ~stopped
               PROVE  floods # {} \/ \E t \in 1..Trials : verdicts[t] = "invalid"
    BY DEF AnswerIsExact
  <2>1. PICK t \in DOMAIN results : results[t] = "invalid"
    BY DEF IInv, AnswerIsCounted, KOfN
  <2>2. t \in 1..Len(results) /\ t \in 1..Trials
    BY DEF IInv, RecordsAreSound
  <2> QED BY <2>1, <2>2 DEF IInv, RecordsAreSound, Recorded
<1> QED BY <1>1, AnswersAreCounted, PTL
===============================================================================

----------------------------- MODULE ReducerProofs -----------------------------
(***************************************************************************)
(* What Reducer promises, for any capsules, predicates and time-outs: the  *)
(* failure is held, searches end 1-minimal, levels exhausted, the verifier *)
(* is right; and with a monotone predicate one pass over the levels is     *)
(* enough.                                                                 *)
(***************************************************************************)
EXTENDS Reducer, SequenceTheorems, FiniteSetTheorems, WellFoundedInduction, TLAPS

-------------------------------------------------------------------------------
(* The failure is never lost.                                                *)

\* The capsule validates, was asked about, and reproduced within its time.
Held(c) ==
    /\ Valid(c)
    /\ c \in DOMAIN answered
    /\ c \notin timedOut
    /\ answered[c] = "reproduces"

CurrentIsHeld ==
    /\ phase = "initial" => current = Source
    /\ phase \notin {"initial", "raised"} => Held(current) /\ phase # "lost"

IsSearch(s) ==
    /\ s = [units |-> s.units, kept |-> s.kept, granularity |-> s.granularity,
            part |-> s.part, start |-> s.start, index |-> s.index, phase |-> s.phase]
    /\ s.phase \in {"initial", "scan", "linear", "done", "raised"}

\* What a search has kept so far, built into the capsule the level started from,
\* is held: it is the candidate the predicate was last pleased with.
KeptIsHeld ==
    /\ search.phase = "initial" => search.kept = search.units
    /\ search.phase \in {"scan", "linear", "done"} =>
           Held(Build(current, Name, Head(todo), search.units, search.kept))

SearchStands ==
    \/ search = NoSearch
    \/ /\ IsSearch(search)
       /\ phase \in {"levels", "raised"}
       /\ phase = "levels" => InBulk /\ KeptIsHeld

HoldingInv == timedOut \subseteq DOMAIN answered /\ CurrentIsHeld /\ SearchStands

-------------------------------------------------------------------------------
(* The predicate's answers stay.                                             *)

\* No answer is lost or changed, and none is given up for want of time later.
Remains ==
    /\ \A c \in DOMAIN answered : c \in DOMAIN answered' /\ answered'[c] = answered[c]
    /\ \A c \in timedOut' : c \in timedOut \/ c \notin DOMAIN answered
    /\ timedOut \subseteq timedOut'

LEMMA RunRemains ==
    ASSUME NEW c, Run(c), timedOut' = timedOut
    PROVE  Remains /\ c \in DOMAIN answered' /\ DOMAIN answered' = DOMAIN answered \union {c}
<1>1. CASE c \in DOMAIN answered
  BY <1>1 DEF Run, Remains
<1>2. CASE c \notin DOMAIN answered
  BY <1>2 DEF Run, Remains
<1> QED
  BY <1>1, <1>2

LEMMA EvaluateRemains ==
    ASSUME NEW c, NEW r, Evaluate(c, r), timedOut \subseteq DOMAIN answered
    PROVE  Remains /\ timedOut' \subseteq DOMAIN answered'
<1>1. CASE UNCHANGED asked
  BY <1>1 DEF asked, Remains
<1>2. CASE ~UNCHANGED asked
  <2>1. Valid(c) /\ c \notin DOMAIN answered /\ Run(c)
    BY <1>2 DEF Evaluate
  <2>2. timedOut' = timedOut \/ timedOut' = timedOut \union {c}
    BY <1>2 DEF Evaluate
  <2>3. DOMAIN answered' = DOMAIN answered \union {c}
        /\ \A d \in DOMAIN answered : answered'[d] = answered[d]
    BY <2>1 DEF Run
  <2>4. QED
    BY <2>1, <2>2, <2>3 DEF Remains
<1> QED
  BY <1>1, <1>2

LEMMA HeldRemains ==
    ASSUME NEW c, Held(c), Remains
    PROVE  c \in DOMAIN answered' /\ c \notin timedOut' /\ answered'[c] = "reproduces"
  BY DEF Held, Remains

\* A candidate that reproduces is held from then on.
LEMMA EvaluateHolds ==
    ASSUME NEW c, Evaluate(c, "reproduces"), timedOut \subseteq DOMAIN answered
    PROVE  /\ Valid(c)
           /\ c \in DOMAIN answered' /\ c \notin timedOut' /\ answered'[c] = "reproduces"
<1>1. Valid(c)
  BY DEF Evaluate
<1>2. CASE c \in DOMAIN answered
  BY <1>1, <1>2 DEF Evaluate, Cached, asked
<1>3. CASE c \notin DOMAIN answered
  <2>1. Run(c) /\ answered'[c] = "reproduces" /\ timedOut' = timedOut
    BY <1>1, <1>3 DEF Evaluate
  <2>2. QED
    BY <1>1, <1>3, <2>1 DEF Run
<1> QED
  BY <1>2, <1>3

-------------------------------------------------------------------------------
(* What a search does with an answer.                                        *)

\* A loop head changes the phase and the counters only.
LEMMA HeadKeeps ==
    ASSUME NEW s, IsSearch(s)
    PROVE  /\ IsSearch(AtScan(s)) /\ AtScan(s).units = s.units /\ AtScan(s).kept = s.kept
           /\ AtScan(s).phase \in {"scan", "linear"}
           /\ IsSearch(AtLinear(s)) /\ AtLinear(s).units = s.units /\ AtLinear(s).kept = s.kept
           /\ AtLinear(s).phase \in {"linear", "done"}
<1>1. PICK p : p = (IF Len(s.kept) >= 2 THEN "scan" ELSE "linear")
  OBVIOUS
<1>2. PICK q : q = (IF s.index < Len(s.kept) THEN "linear" ELSE "done")
  OBVIOUS
<1>3. AtScan(s) = [s EXCEPT !.phase = p, !.part = 0, !.start = 0] /\ p \in {"scan", "linear"}
  BY <1>1 DEF AtScan
<1>4. AtLinear(s) = [s EXCEPT !.phase = q] /\ q \in {"linear", "done"}
  BY <1>2 DEF AtLinear
<1> QED
  BY <1>3, <1>4 DEF IsSearch

LEMMA BegunSearch ==
    ASSUME NEW s, IsSearch(s), NEW reproduced \in BOOLEAN
    PROVE  /\ IsSearch(Begun(s, reproduced))
           /\ Begun(s, reproduced).units = s.units
           /\ Begun(s, reproduced).kept = s.kept
           /\ Begun(s, reproduced).phase \in
                  IF reproduced THEN {"scan", "linear", "done"} ELSE {"raised"}
<1>1. CASE ~reproduced
  BY <1>1 DEF Begun, IsSearch
<1>2. CASE reproduced
  BY <1>2, HeadKeeps DEF Begun
<1> QED
  BY <1>1, <1>2

LEMMA ScannedSearch ==
    ASSUME NEW s, IsSearch(s), s.phase = "scan", NEW reproduced \in BOOLEAN
    PROVE  /\ IsSearch(Scanned(s, reproduced))
           /\ Scanned(s, reproduced).units = s.units
           /\ Scanned(s, reproduced).kept = IF reproduced THEN SearchCandidate(s) ELSE s.kept
           /\ Scanned(s, reproduced).phase \in {"scan", "linear", "done"}
<1> DEFINE length == Len(s.kept)
           shorter == [s EXCEPT !.kept = SearchCandidate(s), !.granularity = Larger(2, @ - 1)]
           moved == [s EXCEPT !.part = @ + 1, !.start = SearchEnd(s)]
           ended == [s EXCEPT !.phase = "linear"]
           finer == [s EXCEPT !.granularity = Smaller(length, @ * 2)]
           after == CASE reproduced -> AtScan(shorter)
                      [] ~reproduced /\ s.part + 1 < SearchParts(s) -> moved
                      [] OTHER -> IF s.granularity >= length THEN ended ELSE AtScan(finer)
           Good(t) == /\ IsSearch(t) /\ t.units = s.units /\ t.phase \in {"scan", "linear"}
                      /\ t.kept = IF reproduced THEN SearchCandidate(s) ELSE s.kept
<1>1. Scanned(s, reproduced) = IF after.phase = "linear" THEN AtLinear(after) ELSE after
  BY DEF Scanned
<1>2. IsSearch(shorter) /\ shorter.units = s.units /\ shorter.kept = SearchCandidate(s)
  <2>1. PICK k, g : shorter = [s EXCEPT !.kept = k, !.granularity = g] /\ k = SearchCandidate(s)
    OBVIOUS
  <2> HIDE DEF shorter
  <2>2. QED
    BY <2>1 DEF IsSearch
<1>3. IsSearch(moved) /\ moved.units = s.units /\ moved.kept = s.kept /\ moved.phase = "scan"
  <2>1. PICK n, b : moved = [s EXCEPT !.part = n, !.start = b]
    OBVIOUS
  <2> HIDE DEF moved
  <2>2. QED
    BY <2>1 DEF IsSearch
<1>4. IsSearch(ended) /\ ended.units = s.units /\ ended.kept = s.kept /\ ended.phase = "linear"
  BY DEF IsSearch
<1>5. IsSearch(finer) /\ finer.units = s.units /\ finer.kept = s.kept
  BY DEF IsSearch
<1>6. Good(after)
  <2>1. CASE reproduced
    <3>1. after = AtScan(shorter)
      BY <2>1
    <3>2. QED
      BY <2>1, <3>1, <1>2, HeadKeeps
  <2>2. CASE ~reproduced /\ s.part + 1 < SearchParts(s)
    <3>1. after = moved
      BY <2>2
    <3>2. QED
      BY <2>2, <3>1, <1>3
  <2>3. CASE ~reproduced /\ ~(s.part + 1 < SearchParts(s))
    <3>1. after = IF s.granularity >= length THEN ended ELSE AtScan(finer)
      BY <2>3
    <3>2. Good(ended)
      BY <2>3, <1>4
    <3>3. Good(AtScan(finer))
      BY <2>3, <1>5, HeadKeeps
    <3>4. QED
      BY <3>1, <3>2, <3>3
  <2>4. QED
    BY <2>1, <2>2, <2>3
<1> HIDE DEF after
<1>7. QED
  BY <1>1, <1>6, HeadKeeps

LEMMA TriedSearch ==
    ASSUME NEW s, IsSearch(s), s.phase = "linear", NEW reproduced \in BOOLEAN
    PROVE  /\ IsSearch(LinearlyTried(s, reproduced))
           /\ LinearlyTried(s, reproduced).units = s.units
           /\ LinearlyTried(s, reproduced).kept = IF reproduced THEN SearchCandidate(s) ELSE s.kept
           /\ LinearlyTried(s, reproduced).phase \in {"linear", "done"}
<1> DEFINE shorter == [s EXCEPT !.kept = SearchCandidate(s)]
           further == [s EXCEPT !.index = @ + 1]
<1>1. IsSearch(shorter) /\ shorter.units = s.units /\ shorter.kept = SearchCandidate(s)
  BY DEF IsSearch
<1>2. IsSearch(further) /\ further.units = s.units /\ further.kept = s.kept
  BY DEF IsSearch
<1>3. LinearlyTried(s, reproduced) = AtLinear(IF reproduced THEN shorter ELSE further)
  BY DEF LinearlyTried
<1> HIDE DEF shorter, further
<1> QED
  BY <1>1, <1>2, <1>3, HeadKeeps

LEMMA AdvanceSearch ==
    ASSUME NEW s, IsSearch(s), s.phase \in {"initial", "scan", "linear"},
           NEW reproduced \in BOOLEAN,
           s.phase = "initial" => s.kept = s.units
    PROVE  /\ IsSearch(Advance(s, reproduced))
           /\ Advance(s, reproduced).units = s.units
           /\ Advance(s, reproduced).phase # "initial"
           /\ reproduced => Advance(s, reproduced).kept = SearchCandidate(s)
           /\ ~reproduced => Advance(s, reproduced).kept = s.kept
                             /\ (s.phase = "initial" => Advance(s, reproduced).phase = "raised")
           /\ s.phase # "initial" => Advance(s, reproduced).phase # "raised"
<1>1. CASE s.phase = "initial"
  <2>1. Advance(s, reproduced) = Begun(s, reproduced)
    BY <1>1 DEF Advance
  <2>2. SearchCandidate(s) = s.kept
    BY <1>1 DEF SearchCandidate
  <2>3. QED
    BY <1>1, <2>1, <2>2, BegunSearch
<1>2. CASE s.phase = "scan"
  BY <1>2, ScannedSearch DEF Advance
<1>3. CASE s.phase = "linear"
  BY <1>3, TriedSearch DEF Advance
<1> QED
  BY <1>1, <1>2, <1>3

-------------------------------------------------------------------------------
LEMMA InitHolding == Init => HoldingInv
  BY DEF Init, HoldingInv, CurrentIsHeld, SearchStands

\* Steps that ask nothing and change no capsule.
LEMMA QuietStep ==
    ASSUME HoldingInv, UNCHANGED <<answered, timedOut, current>>,
           phase \notin {"initial", "raised", "lost"}, phase' \notin {"initial", "lost"}
    PROVE  (timedOut \subseteq DOMAIN answered)' /\ CurrentIsHeld'
  BY DEF HoldingInv, CurrentIsHeld, Held

\* Steps that ask, with the capsule as it is.
LEMMA AskingStep ==
    ASSUME HoldingInv, Remains, timedOut' \subseteq DOMAIN answered', current' = current,
           phase \notin {"initial", "raised", "lost"}, phase' \notin {"initial", "lost"}
    PROVE  (timedOut \subseteq DOMAIN answered)' /\ CurrentIsHeld'
  BY HeldRemains DEF HoldingInv, CurrentIsHeld, Held

LEMMA HoldingStep == HoldingInv /\ [Next]_vars => HoldingInv'
<1> SUFFICES ASSUME HoldingInv, [Next]_vars PROVE HoldingInv'
  OBVIOUS
<1>0. timedOut \subseteq DOMAIN answered
  BY DEF HoldingInv
<1>00. given' = given
  BY DEF Next, vars
<1>1. CASE CheckSource
  <2>1. PICK r \in Verdicts :
            Evaluate(Source, r) /\ phase' = IF r = "reproduces" THEN "levels" ELSE "raised"
    BY <1>1 DEF CheckSource
  <2>2. phase = "initial" /\ current' = Source /\ search' = search /\ search = NoSearch
    BY <1>1 DEF CheckSource, HoldingInv, CurrentIsHeld, SearchStands
  <2>3. CASE r = "reproduces"
    <3>1. Held(Source)'
      BY <1>0, <1>00, <2>1, <2>3, EvaluateHolds DEF Held, Source
    <3>2. QED
      BY <1>0, <1>00, <2>1, <2>2, <2>3, <3>1, EvaluateRemains
      DEF HoldingInv, CurrentIsHeld, SearchStands, Source
  <2>4. CASE r # "reproduces"
    BY <1>0, <2>1, <2>2, <2>4, EvaluateRemains DEF HoldingInv, CurrentIsHeld, SearchStands
  <2>5. QED
    BY <2>3, <2>4
<1>2. CASE NextLevel
  <2>1. search' = search /\ search = NoSearch
    BY <1>2 DEF NextLevel, HoldingInv, SearchStands, InBulk
  <2>2. /\ UNCHANGED <<answered, timedOut, current>>
        /\ phase \notin {"initial", "raised", "lost"} /\ phase' \notin {"initial", "lost"}
    BY <1>2 DEF NextLevel, asked
  <2>3. QED
    BY <2>1, <2>2, QuietStep DEF HoldingInv, SearchStands
<1>3. CASE AcceptPath
  <2> DEFINE candidate == DeletePath(current, Name, Head(todo))
  <2>1. /\ Evaluate(candidate, "reproduces") /\ current' = candidate
        /\ phase = "levels" /\ phase' = phase /\ search' = search /\ search = NoSearch
    BY <1>3 DEF AcceptPath, InJson, HoldingInv, SearchStands, InBulk
  <2> HIDE DEF candidate
  <2>2. Held(current)'
    BY <1>0, <2>1, EvaluateHolds DEF Held
  <2>3. QED
    BY <1>0, <2>1, <2>2, EvaluateRemains DEF HoldingInv, CurrentIsHeld, SearchStands
<1>4. CASE RejectPath
  <2> DEFINE candidate == DeletePath(current, Name, Head(todo))
  <2>1. PICK r : Evaluate(candidate, r)
    BY <1>4 DEF RejectPath
  <2>2. /\ current' = current /\ phase = "levels" /\ phase' = phase
        /\ search' = search /\ search = NoSearch
    BY <1>4 DEF RejectPath, InJson, HoldingInv, SearchStands, InBulk
  <2> HIDE DEF candidate
  <2>3. Remains /\ timedOut' \subseteq DOMAIN answered'
    BY <1>0, <2>1, EvaluateRemains
  <2>4. QED
    BY <2>2, <2>3, AskingStep DEF HoldingInv, SearchStands
<1>5. CASE BeginSearch
  <2>1. /\ UNCHANGED <<answered, timedOut, current>>
        /\ phase = "levels" /\ phase' = phase /\ level' = level /\ search = NoSearch
    BY <1>5 DEF BeginSearch, asked, InBulk
  <2>2. SearchStands'
    <3>1. CASE search' = search
      BY <2>1, <3>1 DEF SearchStands
    <3>2. CASE search' # search
      <4>1. PICK units : search' = SearchOver(units) /\ todo' = todo
        BY <1>5, <3>2 DEF BeginSearch
      <4>2. IsSearch(search') /\ search'.phase = "initial" /\ search'.kept = search'.units
        BY <4>1 DEF SearchOver, IsSearch
      <4>3. InBulk'
        BY <1>5, <2>1, <4>1 DEF BeginSearch, InBulk, Name
      <4>4. QED
        BY <2>1, <4>2, <4>3 DEF SearchStands, KeptIsHeld, IsSearch
    <3>3. QED
      BY <3>1, <3>2
  <2>3. QED
    BY <2>1, <2>2, QuietStep DEF HoldingInv
<1>6. CASE SearchStep
  <2> DEFINE built(kept) == Build(current, Name, Head(todo), search.units, kept)
             candidate == built(SearchCandidate(search))
  <2>1. PICK r : Evaluate(candidate, r) /\ search' = Advance(search, r = "reproduces")
    BY <1>6 DEF SearchStep
  <2>2. /\ UNCHANGED <<phase, level, todo, current>> /\ phase = "levels"
        /\ search.phase \in {"initial", "scan", "linear"} /\ InBulk
    BY <1>6 DEF SearchStep, Searching, InBulk
  <2>3. IsSearch(search) /\ KeptIsHeld
    BY <2>2 DEF HoldingInv, SearchStands, NoSearch
  <2>4. Remains /\ timedOut' \subseteq DOMAIN answered'
    BY <1>0, <2>1, EvaluateRemains
  <2>5. PICK reproduced \in BOOLEAN : reproduced <=> r = "reproduces"
    OBVIOUS
  <2>6. search' = Advance(search, reproduced)
    BY <2>1, <2>5
  <2>7. /\ IsSearch(search') /\ search'.units = search.units /\ search'.phase # "initial"
        /\ reproduced => search'.kept = SearchCandidate(search)
        /\ ~reproduced => search'.kept = search.kept
                          /\ (search.phase = "initial" => search'.phase = "raised")
    BY <2>2, <2>3, <2>6, AdvanceSearch DEF KeptIsHeld
  <2>8. CASE reproduced
    <3>1. Valid(candidate) /\ candidate \in DOMAIN answered' /\ candidate \notin timedOut'
          /\ answered'[candidate] = "reproduces"
      BY <1>0, <2>1, <2>5, <2>8, EvaluateHolds
    <3>2. candidate = Build(current, Name, Head(todo), search.units, search.kept)'
      BY <2>2, <2>7, <2>8 DEF Name
    <3>3. Held(Build(current, Name, Head(todo), search.units, search.kept))'
      BY <3>1, <3>2 DEF Held
    <3>4. QED
      BY <3>3, <2>2, <2>7, <2>4, AskingStep DEF HoldingInv, SearchStands, KeptIsHeld, InBulk, Name
  <2>9. CASE ~reproduced
    <3>1. search'.phase \in {"scan", "linear", "done"} => search.phase \in {"scan", "linear"}
      BY <2>2, <2>7, <2>9
    <3>2. search'.phase \in {"scan", "linear", "done"} => Held(built(search.kept))
      BY <3>1, <2>3 DEF KeptIsHeld
    <3>3. built(search.kept) = Build(current, Name, Head(todo), search.units, search.kept)'
      BY <2>2, <2>7, <2>9 DEF Name
    <3>4. search'.phase \in {"scan", "linear", "done"} =>
              Held(Build(current, Name, Head(todo), search.units, search.kept))'
      BY <3>2, <3>3, <2>4, HeldRemains DEF Held
    <3>5. QED
      BY <3>4, <2>2, <2>7, <2>4, AskingStep DEF HoldingInv, SearchStands, KeptIsHeld, InBulk, Name
  <2>10. QED
    BY <2>8, <2>9
<1>7. CASE SearchRaises
  <2>1. /\ UNCHANGED <<answered, timedOut, current, search>>
        /\ phase = "levels" /\ phase' = "raised"
    BY <1>7 DEF SearchRaises, asked, InBulk
  <2>2. QED
    BY <2>1, QuietStep DEF HoldingInv, SearchStands
<1>8. CASE EndSearch
  <2>1. /\ search' = NoSearch /\ current' = Result /\ UNCHANGED <<phase, answered, timedOut>>
        /\ phase = "levels" /\ search.phase = "done"
    BY <1>8 DEF EndSearch, asked, InBulk
  <2>2. Held(Result)
    BY <2>1 DEF HoldingInv, SearchStands, KeptIsHeld, NoSearch, Result
  <2>3. QED
    BY <2>1, <2>2 DEF HoldingInv, CurrentIsHeld, SearchStands, Held
<1>9. CASE FinalEvaluation
  <2>1. PICK r : /\ Evaluate(current, r)
                 /\ phase' \in {"raised", IF r = "reproduces" THEN "verifying" ELSE "lost"}
    BY <1>9 DEF FinalEvaluation
  <2>2. phase = "final" /\ UNCHANGED <<search, current>> /\ search = NoSearch
    BY <1>9 DEF FinalEvaluation, HoldingInv, SearchStands
  <2>3. Held(current)
    BY <2>2 DEF HoldingInv, CurrentIsHeld
  <2>4. r = "reproduces"
    BY <2>1, <2>3 DEF Evaluate, Held, Cached
  <2>5. Remains /\ timedOut' \subseteq DOMAIN answered'
    BY <1>0, <2>1, EvaluateRemains
  <2>6. QED
    BY <2>1, <2>2, <2>4, <2>5, AskingStep DEF HoldingInv, SearchStands
<1>10. CASE VerifyDeletion
  <2> DEFINE candidate == Deleted(current, Head(todo))
  <2>1. /\ UNCHANGED <<phase, search, current>> /\ phase = "verifying"
        /\ UNCHANGED asked \/ (Run(candidate) /\ timedOut' = timedOut)
    BY <1>10 DEF VerifyDeletion
  <2>2. search = NoSearch
    BY <2>1 DEF HoldingInv, SearchStands
  <2> HIDE DEF candidate
  <2>3. Remains /\ timedOut' \subseteq DOMAIN answered'
    BY <1>0, <2>1, RunRemains DEF Remains, asked
  <2>4. QED
    BY <2>1, <2>2, <2>3, AskingStep DEF HoldingInv, SearchStands
<1>11. CASE VerificationFails \/ AcceptResult
  <2>1. /\ UNCHANGED <<answered, timedOut, current, search>>
        /\ phase = "verifying" /\ phase' \in {"accepted", "refused", "raised"}
    BY <1>11 DEF VerificationFails, AcceptResult, asked
  <2>2. search = NoSearch
    BY <2>1 DEF HoldingInv, SearchStands
  <2>3. QED
    BY <2>1, <2>2, QuietStep DEF HoldingInv, SearchStands
<1>12. CASE UNCHANGED vars
  BY <1>12 DEF vars, asked, HoldingInv, CurrentIsHeld, SearchStands, Held, InBulk, Name,
     KeptIsHeld, Source
<1> QED
  BY <1>1, <1>2, <1>3, <1>4, <1>5, <1>6, <1>7, <1>8, <1>9, <1>10, <1>11, <1>12
  DEF Next, Step

\* Whatever the reducer holds is valid, was tested as it is, and reproduces; the
\* reduction never loses the failure (hierarchy.py:481, 623-627: "minimization
\* lost the target failure").
THEOREM FailureIsHeld == Spec => []HoldsTheFailure
<1>1. HoldingInv => HoldsTheFailure
  BY DEF HoldingInv, CurrentIsHeld, Held, HoldsTheFailure, Cached
<1> QED
  BY <1>1, InitHolding, HoldingStep, PTL DEF Spec

-------------------------------------------------------------------------------
(* Sequences: what their operators return.                                   *)

LEMMA ListOf ==
    ASSUME NEW S, NEW s \in Seq(S)
    PROVE  IsList(s) /\ Range(s) \subseteq S /\ DOMAIN s = 1..Len(s) /\ Len(s) \in Nat
<1>1. Len(s) \in Nat /\ DOMAIN s = 1..Len(s) /\ \A i \in 1..Len(s) : s[i] \in S
  BY LenProperties, ElementOfSeq
<1>2. Range(s) \subseteq S
  BY <1>1 DEF Range
<1>3. s \in Seq(Range(s))
  BY SeqOfRange
<1> QED
  BY <1>1, <1>2, <1>3 DEF IsList

LEMMA ListIs ==
    ASSUME NEW s, IsList(s)
    PROVE  /\ Len(s) \in Nat /\ DOMAIN s = 1..Len(s)
           /\ \A i \in 1..Len(s) : s[i] \in Range(s)
           /\ \A x \in Range(s) : \E i \in 1..Len(s) : x = s[i]
<1>1. Len(s) \in Nat /\ DOMAIN s = 1..Len(s)
  BY LenProperties DEF IsList
<1> QED
  BY <1>1 DEF Range

LEMMA ListFrom ==
    ASSUME NEW n \in Nat, NEW s, DOMAIN s = 1..n, s = [i \in 1..n |-> s[i]]
    PROVE  IsList(s) /\ Len(s) = n
<1> DEFINE R == Range(s)
<1>1. \A i \in 1..n : s[i] \in R
  BY DEF Range
<1> HIDE DEF R
<1>2. s \in [1..n -> R]
  BY <1>1
<1>3. s \in Seq(R)
  BY <1>2
<1> QED
  BY <1>3, LenProperties DEF IsList, R

LEMMA EmptyList == IsList(<<>>) /\ Range(<<>>) = {}
  BY DEF IsList, Range

LEMMA TailOfList ==
    ASSUME NEW s, IsList(s), s # <<>>
    PROVE  /\ Head(s) \in Range(s) /\ IsList(Tail(s))
           /\ Range(Tail(s)) \subseteq Range(s)
           /\ \A x \in Range(s) : x = Head(s) \/ x \in Range(Tail(s))
<1> DEFINE R == Range(s)
<1>1. s \in Seq(R)
  BY DEF IsList
<1>2. ASSUME NEW x \in R PROVE x = Head(s) \/ x \in Range(Tail(s))
  <2>1. PICK i \in 1..Len(s) : x = s[i]
    BY ListIs
  <2>2. CASE i = 1
    BY <1>1, <2>1, <2>2
  <2>3. CASE i # 1
    <3>1. Len(s) \in Nat /\ Tail(s) \in Seq(R) /\ Len(Tail(s)) = Len(s) - 1
          /\ \A j \in 1..Len(Tail(s)) : Tail(s)[j] = s[j + 1]
      BY <1>1, HeadTailProperties, LenProperties
    <3>2. i - 1 \in 1..Len(Tail(s)) /\ Tail(s)[i - 1] = x
      BY <2>1, <2>3, <3>1
    <3>3. QED
      BY <3>1, <3>2, LenProperties DEF Range
  <2>4. QED
    BY <2>2, <2>3
<1> HIDE DEF R
<1>3. Head(s) \in R /\ Tail(s) \in Seq(R)
  BY <1>1, HeadTailProperties
<1>4. IsList(Tail(s)) /\ Range(Tail(s)) \subseteq R
  BY <1>3, ListOf
<1> QED
  BY <1>2, <1>3, <1>4 DEF R

LEMMA ConcatOfLists ==
    ASSUME NEW s, NEW t, IsList(s), IsList(t)
    PROVE  IsList(s \o t) /\ Range(s \o t) = Range(s) \union Range(t)
<1> DEFINE R == Range(s) \union Range(t)
<1>1. s \in Seq(R) /\ t \in Seq(R)
  BY SeqMonotonic DEF IsList
<1>2. s \o t \in Seq(R)
  BY <1>1, ConcatProperties
<1>3. Range(s \o t) = R
  BY <1>1, RangeConcatenation
<1> QED
  BY <1>2, <1>3 DEF IsList

\* Deleting the items at start+1 .. end leaves some of the others.
LEMMA WithoutOfList ==
    ASSUME NEW s, IsList(s), NEW a \in Nat, NEW b \in Nat, a <= Len(s)
    PROVE  IsList(Without(s, a, b)) /\ Range(Without(s, a, b)) \subseteq Range(s)
<1> DEFINE R == Range(s)
<1>1. s \in Seq(R) /\ Len(s) \in Nat /\ \A i \in 1..Len(s) : s[i] \in R
  BY ListIs DEF IsList
<1> HIDE DEF R
<1>2. SubSeq(s, 1, a) \in Seq(R)
  BY <1>1, SubSeqProperties
<1>3. SubSeq(s, b + 1, Len(s)) \in Seq(R)
  BY <1>1, SubSeqProperties
<1>4. Without(s, a, b) \in Seq(R)
  BY <1>2, <1>3, ConcatProperties DEF Without
<1> QED
  BY <1>4, ListOf DEF R

LEMMA RemoveAtOfList ==
    ASSUME NEW s, IsList(s), NEW i \in DOMAIN s
    PROVE  IsList(RemoveAt(s, i)) /\ Range(RemoveAt(s, i)) \subseteq Range(s)
<1>1. Len(s) \in Nat /\ i \in 1..Len(s)
  BY ListIs
<1>2. RemoveAt(s, i) = Without(s, i - 1, i)
  BY <1>1 DEF RemoveAt, Without
<1> QED
  BY <1>1, <1>2, WithoutOfList

\* A finite set in some order.
LEMMA SetInOrder ==
    ASSUME NEW S, IsFiniteSet(S)
    PROVE  IsList(SetToSeq(S)) /\ Range(SetToSeq(S)) \subseteq S
<1> DEFINE n == Cardinality(S)
           f == SetToSeq(S)
<1>1. n \in Nat /\ ExistsBijection(1..n, S)
  BY FS_CardinalityType
<1>2. \E g \in [1..n -> S] : IsInjective(g)
  BY <1>1 DEF ExistsBijection, Bijection, Injection, IsInjective
<1>3. f \in [1..n -> S]
  BY <1>2 DEF SetToSeq
<1> HIDE DEF n, f
<1>4. f \in Seq(S)
  BY <1>1, <1>3
<1> QED
  BY <1>4, ListOf DEF f

LEMMA ListIsFinite ==
    ASSUME NEW s, IsList(s)
    PROVE  IsFiniteSet(Range(s))
<1>1. /\ Len(s) \in Nat /\ DOMAIN s = 1..Len(s)
      /\ \A i \in 1..Len(s) : s[i] \in Range(s)
      /\ \A x \in Range(s) : \E i \in 1..Len(s) : s[i] = x
  BY ListIs
<1>2. s \in Seq(Range(s))
  BY DEF IsList
<1>3. s \in [1..Len(s) -> Range(s)]
  BY <1>1, <1>2
<1>4. s \in Surjection(1..Len(s), Range(s))
  BY <1>1, <1>3 DEF Surjection
<1> QED
  BY <1>1, <1>4, FS_Interval, FS_Surjection

-------------------------------------------------------------------------------
(* The recursive functions on sequences.                                     *)

\* Every set of numbers with a member has a least one.
LEMMA LeastNumber ==
    ASSUME NEW T \in SUBSET Nat, T # {}
    PROVE  \E x \in T : \A y \in T : x <= y
<1> DEFINE Less == {pair \in Nat \X Nat : pair[1] < pair[2]}
<1>1. IsWellFoundedOn(Less, Nat)
  BY NatLessThanWellFounded DEF OpToRel
<1>2. PICK x \in T : \A y \in T : ~(<<y, x>> \in Less)
  BY <1>1, WFMin
<1>3. ASSUME NEW y \in T PROVE x <= y
  <2>1. <<y, x>> \in Nat \X Nat
    OBVIOUS
  <2>2. ~(y < x)
    BY <2>1, <1>2
  <2>3. QED
    BY <2>2
<1>4. QED
  BY <1>3

\* What holds of zero, and of the successor of each number it holds of, holds
\* of every number.
LEMMA Counting ==
    ASSUME NEW T, 0 \in T, \A n \in Nat : n \in T => n + 1 \in T
    PROVE  Nat \subseteq T
<1>1. SUFFICES ASSUME ~(Nat \subseteq T) PROVE FALSE
  OBVIOUS
<1>2. PICK x \in Nat \ T : \A y \in Nat \ T : x <= y
  BY <1>1, LeastNumber
<1>3. x # 0 /\ x - 1 \in Nat /\ x - 1 \in T
  BY <1>2
<1>4. QED
  BY <1>2, <1>3

\* A function that starts as `base' and goes on by `step'.
Goes(f, n, base, step) ==
    f[0] = base /\ \A i \in 1..n : f[i] = step[<<f[i - 1], i>>]

LEMMA Recursion ==
    ASSUME NEW T, NEW base \in T, NEW step \in [T \X Nat -> T], NEW n \in Nat
    PROVE  \E f \in [0..n -> T] : Goes(f, n, base, step)
<1> DEFINE Reached == {m \in Nat : \E f \in [0..m -> T] : Goes(f, m, base, step)}
<1>1. 0 \in Reached
  <2>1. [i \in 0..0 |-> base] \in [0..0 -> T] /\ Goes([i \in 0..0 |-> base], 0, base, step)
    BY DEF Goes
  <2>2. QED
    BY <2>1
<1>2. ASSUME NEW m \in Nat, m \in Reached PROVE m + 1 \in Reached
  <2>1. PICK f \in [0..m -> T] : Goes(f, m, base, step)
    BY <1>2
  <2>2. PICK last \in T : last = step[<<f[m], m + 1>>]
    OBVIOUS
  <2> DEFINE g == [i \in 0..(m + 1) |-> IF i <= m THEN f[i] ELSE last]
  <2>3. g \in [0..(m + 1) -> T] /\ g[m + 1] = last /\ \A i \in 0..m : g[i] = f[i]
    OBVIOUS
  <2> HIDE DEF g
  <2>4. g[0] = base
    BY <2>1, <2>3 DEF Goes
  <2>5. ASSUME NEW i \in 1..(m + 1) PROVE g[i] = step[<<g[i - 1], i>>]
    <3>1. CASE i = m + 1
      BY SMTT(60), <2>2, <2>3, <3>1
    <3>2. CASE i <= m
      BY <2>1, <2>3, <3>2 DEF Goes
    <3>3. QED
      BY <3>1, <3>2
  <2>6. QED
    BY SMTT(60), <2>3, <2>4, <2>5 DEF Goes
<1>3. n \in Reached
  BY <1>1, <1>2, Counting
<1> QED
  BY <1>3

\* The items at the places in `T', picked one after the other.
Picks(s, T, f) ==
    f = [n \in 0..Len(s) |->
            IF n = 0 THEN <<>> ELSE IF n \in T THEN Append(f[n - 1], s[n]) ELSE f[n - 1]]

LEMMA PicksExist ==
    ASSUME NEW s, IsList(s), NEW T
    PROVE  \E f : Picks(s, T, f)
<1> DEFINE R == Range(s)
           n == Len(s)
           S == Seq(R)
           more(t, i) == IF i \in 1..n /\ i \in T THEN Append(t, s[i]) ELSE t
           step == [p \in S \X Nat |-> more(p[1], p[2])]
<1>1. n \in Nat /\ \A i \in 1..n : s[i] \in R
  BY ListIs
<1> HIDE DEF R, n
<1>2. ASSUME NEW t \in S, NEW i \in Nat PROVE more(t, i) \in S
  BY <1>1
<1>3. step \in [S \X Nat -> S] /\ <<>> \in S
  BY <1>2
<1>4. \A t \in S, i \in Nat : step[<<t, i>>] = more(t, i)
  OBVIOUS
<1> HIDE DEF S, step, more
<1>5. PICK f \in [0..n -> S] : Goes(f, n, <<>>, step)
  BY <1>1, <1>3, Recursion
<1>6. ASSUME NEW i \in 0..n
      PROVE  f[i] = IF i = 0 THEN <<>> ELSE IF i \in T THEN Append(f[i - 1], s[i]) ELSE f[i - 1]
  <2>1. CASE i = 0
    BY <1>5, <2>1 DEF Goes
  <2>2. CASE i # 0
    <3>1. i \in 1..n /\ i - 1 \in 0..n /\ i \in Nat
      BY <1>1, <2>2
    <3>2. f[i] = more(f[i - 1], i)
      BY <1>4, <1>5, <3>1 DEF Goes
    <3>3. QED
      BY <2>2, <3>1, <3>2 DEF more
  <2>3. QED
    BY <2>1, <2>2
<1> QED
  BY <1>5, <1>6 DEF Picks, n

LEMMA PicksNext ==
    ASSUME NEW s, IsList(s), NEW T, NEW f, Picks(s, T, f)
    PROVE  /\ f[0] = <<>>
           /\ \A i \in Nat : i + 1 <= Len(s) =>
                  f[i + 1] = IF i + 1 \in T THEN Append(f[i], s[i + 1]) ELSE f[i]
<1> DEFINE n == Len(s)
<1>1. n \in Nat
  BY ListIs
<1>2. f = [i \in 0..n |-> IF i = 0 THEN <<>>
                          ELSE IF i \in T THEN Append(f[i - 1], s[i]) ELSE f[i - 1]]
  BY DEF Picks
<1> HIDE DEF n
<1>3. f[0] = <<>>
  BY <1>1, <1>2
<1>4. ASSUME NEW i \in Nat, i + 1 <= n
      PROVE  f[i + 1] = IF i + 1 \in T THEN Append(f[i], s[i + 1]) ELSE f[i]
  <2>1. i + 1 \in 0..n /\ i + 1 # 0 /\ (i + 1) - 1 = i
    BY <1>1, <1>4
  <2>2. QED
    BY <1>2, <2>1
<1> QED
  BY <1>3, <1>4 DEF n

\* What is picked from the first places depends on them alone.
LEMMA PicksAgree ==
    ASSUME NEW s, NEW t, IsList(s), IsList(t), NEW T, NEW U, NEW f, NEW g,
           Picks(s, T, f), Picks(t, U, g), NEW n \in Nat, n <= Len(s), n <= Len(t),
           \A i \in 1..n : s[i] = t[i] /\ (i \in T <=> i \in U)
    PROVE  f[n] = g[n]
<1> DEFINE Same == {k \in Nat : k <= n => f[k] = g[k]}
<1>0. Len(s) \in Nat /\ Len(t) \in Nat
  BY ListIs
<1>1. 0 \in Same
  BY PicksNext
<1>2. ASSUME NEW k \in Nat, k \in Same PROVE k + 1 \in Same
  <2>1. SUFFICES ASSUME k + 1 <= n PROVE f[k + 1] = g[k + 1]
    OBVIOUS
  <2>2. k + 1 \in 1..n /\ k + 1 <= Len(s) /\ k + 1 <= Len(t) /\ f[k] = g[k]
    BY <1>0, <1>2, <2>1
  <2>3. f[k + 1] = IF k + 1 \in T THEN Append(f[k], s[k + 1]) ELSE f[k]
    BY <2>2, PicksNext
  <2>4. g[k + 1] = IF k + 1 \in U THEN Append(g[k], t[k + 1]) ELSE g[k]
    BY <2>2, PicksNext
  <2>5. QED
    BY <2>2, <2>3, <2>4
<1>3. n \in Same
  BY <1>1, <1>2, Counting
<1> QED
  BY <1>3

Distinct(s) == \A i, j \in 1..Len(s) : s[i] = s[j] => i = j

LEMMA AppendToList ==
    ASSUME NEW s, IsList(s), NEW x
    PROVE  /\ IsList(Append(s, x)) /\ Len(Append(s, x)) = Len(s) + 1
           /\ Range(Append(s, x)) = Range(s) \union {x}
           /\ \A i \in 1..Len(s) : Append(s, x)[i] = s[i]
           /\ Append(s, x)[Len(s) + 1] = x
           /\ Distinct(s) /\ x \notin Range(s) => Distinct(Append(s, x))
<1> DEFINE R == Range(s)
           S == R \union {x}
           t == Append(s, x)
           n == Len(s)
<1>1. s \in Seq(R) /\ n \in Nat /\ \A i \in 1..n : s[i] \in R
  BY ListIs DEF IsList
<1>2. \A y \in R : \E i \in 1..n : y = s[i]
  BY ListIs
<1> HIDE DEF R
<1>3. s \in Seq(S) /\ x \in S
  BY <1>1
<1>4. /\ t \in Seq(S) /\ Len(t) = n + 1
      /\ \A i \in 1..n : t[i] = s[i]
      /\ t[n + 1] = x
  BY <1>1, <1>3, AppendProperties
<1> HIDE DEF t, n, S
<1>5. DOMAIN t = 1..(n + 1) /\ IsList(t)
  BY <1>4, ListOf
<1>6. Range(t) = S
  <2>1. ASSUME NEW y \in Range(t) PROVE y \in S
    BY <1>4, ListOf, <2>1
  <2>2. ASSUME NEW y \in S PROVE y \in Range(t)
    <3>1. CASE y = x
      <4>1. n + 1 \in DOMAIN t
        BY <1>1, <1>5
      <4>2. QED
        BY <1>4, <3>1, <4>1 DEF Range
    <3>2. CASE y \in R
      <4>1. PICK i \in 1..n : y = s[i]
        BY <1>2, <3>2
      <4>2. i \in DOMAIN t /\ t[i] = y
        BY <1>1, <1>4, <1>5, <4>1
      <4>3. QED
        BY <4>2 DEF Range
    <3>3. QED
      BY <2>2, <3>1, <3>2 DEF S
  <2>3. QED
    BY <2>1, <2>2
<1>7. ASSUME Distinct(s), x \notin R PROVE Distinct(t)
  <2> SUFFICES ASSUME NEW i \in 1..Len(t), NEW j \in 1..Len(t), t[i] = t[j] PROVE i = j
    BY DEF Distinct
  <2>1. (i \in 1..n \/ i = n + 1) /\ (j \in 1..n \/ j = n + 1)
    BY <1>1, <1>4
  <2>2. \A k \in 1..n : t[k] \in R
    BY <1>1, <1>4
  <2>3. CASE i \in 1..n /\ j \in 1..n
    BY <1>4, <1>7, <2>3 DEF Distinct, n
  <2>4. CASE ~(i \in 1..n /\ j \in 1..n)
    BY <1>4, <1>7, <2>1, <2>2, <2>4
  <2>5. QED
    BY <2>3, <2>4
<1> QED
  BY <1>4, <1>5, <1>6, <1>7 DEF t, n, R, S

LEMMA PicksOfList ==
    ASSUME NEW s, IsList(s), NEW T, NEW f, Picks(s, T, f), NEW n \in Nat, n <= Len(s)
    PROVE  /\ IsList(f[n]) /\ Range(f[n]) = {s[i] : i \in T \intersect (1..n)}
           /\ Distinct(s) => Distinct(f[n])
<1> DEFINE Of(k) == {s[i] : i \in T \intersect (1..k)}
           Good == {k \in Nat : k <= n => /\ IsList(f[k]) /\ Range(f[k]) = Of(k)
                                          /\ Distinct(s) => Distinct(f[k])}
<1>0. Len(s) \in Nat
  BY ListIs
<1>1. 0 \in Good
  <2>1. f[0] = <<>> /\ Of(0) = {}
    BY PicksNext
  <2>2. IsList(<<>>) /\ Range(<<>>) = {} /\ Distinct(<<>>)
    BY EmptyList DEF Distinct
  <2>3. QED
    BY <2>1, <2>2
<1>2. ASSUME NEW k \in Nat, k \in Good PROVE k + 1 \in Good
  <2>1. SUFFICES ASSUME k + 1 <= n
                 PROVE  /\ IsList(f[k + 1]) /\ Range(f[k + 1]) = Of(k + 1)
                        /\ Distinct(s) => Distinct(f[k + 1])
    OBVIOUS
  <2>2. /\ IsList(f[k]) /\ Range(f[k]) = Of(k)
        /\ Distinct(s) => Distinct(f[k])
        /\ k + 1 \in 1..Len(s) /\ k + 1 <= Len(s)
    BY <1>0, <1>2, <2>1
  <2>3. f[k + 1] = IF k + 1 \in T THEN Append(f[k], s[k + 1]) ELSE f[k]
    BY <2>2, PicksNext
  <2>4. \A i \in 1..(k + 1) : i = k + 1 \/ i \in 1..k
    OBVIOUS
  <2>5. 1..k \subseteq 1..(k + 1) /\ k + 1 \in 1..(k + 1)
    OBVIOUS
  <2>6. CASE k + 1 \in T
    <3>1. Of(k + 1) = Of(k) \union {s[k + 1]}
      BY <2>4, <2>5, <2>6
    <3>2. Distinct(s) => s[k + 1] \notin Of(k)
      <4>1. SUFFICES ASSUME Distinct(s), NEW i \in T \intersect (1..k), s[i] = s[k + 1] PROVE FALSE
        OBVIOUS
      <4>2. i \in 1..Len(s) /\ i # k + 1
        BY <1>0, <2>2
      <4>3. QED
        BY <2>2, <4>1, <4>2 DEF Distinct
    <3> HIDE DEF Of
    <3>3. PICK t, x : t = f[k] /\ x = s[k + 1]
      OBVIOUS
    <3>4. IsList(t) /\ Range(t) = Of(k) /\ (Distinct(s) => Distinct(t) /\ x \notin Range(t))
      BY <2>2, <3>2, <3>3
    <3>5. /\ IsList(Append(t, x)) /\ Range(Append(t, x)) = Of(k) \union {x}
          /\ Distinct(s) => Distinct(Append(t, x))
      BY <3>4, AppendToList
    <3>6. f[k + 1] = Append(t, x)
      BY <2>3, <2>6, <3>3
    <3>7. QED
      BY <3>1, <3>3, <3>5, <3>6
  <2>7. CASE k + 1 \notin T
    <3>1. Of(k + 1) = Of(k)
      <4>1. \A i \in T \intersect (1..(k + 1)) : i \in T \intersect (1..k)
        BY <2>4, <2>7
      <4>2. \A i \in T \intersect (1..k) : i \in T \intersect (1..(k + 1))
        BY <2>5
      <4>3. T \intersect (1..(k + 1)) = T \intersect (1..k)
        BY <4>1, <4>2
      <4>4. QED
        BY <4>3, ZenonT(30)
    <3> HIDE DEF Of
    <3>2. f[k + 1] = f[k]
      BY <2>3, <2>7, ZenonT(30)
    <3>3. QED
      BY <2>2, <3>1, <3>2
  <2>8. QED
    BY <2>6, <2>7
<1> HIDE DEF Of
<1>3. n \in Good
  BY <1>1, <1>2, Counting
<1> QED
  BY <1>3 DEF Of

LEMMA AmongIsPicked ==
    ASSUME NEW s, IsList(s), NEW set
    PROVE  \E f : Picks(s, {i \in 1..Len(s) : s[i] \in set}, f) /\ Among(s, set) = f[Len(s)]
<1> DEFINE T == {i \in 1..Len(s) : s[i] \in set}
           Chosen(f) == f = [n \in 0..Len(s) |->
                                IF n = 0 THEN <<>>
                                ELSE IF s[n] \in set THEN Append(f[n - 1], s[n]) ELSE f[n - 1]]
           g == CHOOSE f : Chosen(f)
<1>1. Len(s) \in Nat
  BY ListIs
<1>2. ASSUME NEW f PROVE Chosen(f) <=> Picks(s, T, f)
  <2>1. \A n \in 0..Len(s) : n # 0 => (n \in T <=> s[n] \in set)
    BY <1>1
  <2> HIDE DEF T
  <2>2. [n \in 0..Len(s) |->
            IF n = 0 THEN <<>> ELSE IF s[n] \in set THEN Append(f[n - 1], s[n]) ELSE f[n - 1]]
        = [n \in 0..Len(s) |->
            IF n = 0 THEN <<>> ELSE IF n \in T THEN Append(f[n - 1], s[n]) ELSE f[n - 1]]
    BY <2>1, SMTT(40)
  <2>3. QED
    BY <2>2, ZenonT(30) DEF Picks
<1>3. \E f : Picks(s, T, f)
  BY PicksExist
<1>4. Chosen(g)
  BY <1>2, <1>3
<1>5. Among(s, set) = g[Len(s)]
  BY DEF Among
<1> QED
  BY <1>2, <1>4, <1>5, ZenonT(30)

LEMMA AmongOfList ==
    ASSUME NEW s, IsList(s), NEW set
    PROVE  /\ IsList(Among(s, set)) /\ Range(Among(s, set)) = Range(s) \intersect set
           /\ Distinct(s) => Distinct(Among(s, set))
<1> DEFINE T == {i \in 1..Len(s) : s[i] \in set}
<1>1. Len(s) \in Nat /\ DOMAIN s = 1..Len(s)
  BY ListIs
<1>2. PICK f : Picks(s, T, f) /\ Among(s, set) = f[Len(s)]
  BY AmongIsPicked, ZenonT(30)
<1>3. {s[i] : i \in T \intersect (1..Len(s))} = Range(s) \intersect set
  BY <1>1 DEF Range
<1> HIDE DEF T
<1>4. /\ IsList(f[Len(s)]) /\ Range(f[Len(s)]) = {s[i] : i \in T \intersect (1..Len(s))}
      /\ Distinct(s) => Distinct(f[Len(s)])
  BY <1>1, <1>2, PicksOfList, SMTT(60)
<1> QED
  BY <1>2, <1>3, <1>4

LEMMA RemainingIsPicked ==
    ASSUME NEW s, IsList(s), NEW gone
    PROVE  \E f : Picks(s, {i \in 1..Len(s) : s[i].id \notin gone}, f)
                  /\ Remaining(s, gone) = f[Len(s)]
<1> DEFINE T == {i \in 1..Len(s) : s[i].id \notin gone}
           Left(f) == f = [n \in 0..Len(s) |->
                              IF n = 0 THEN <<>>
                              ELSE IF s[n].id \in gone THEN f[n - 1] ELSE Append(f[n - 1], s[n])]
           g == CHOOSE f : Left(f)
<1>1. Len(s) \in Nat
  BY ListIs
<1>2. ASSUME NEW f PROVE Left(f) <=> Picks(s, T, f)
  <2>1. \A n \in 0..Len(s) : n # 0 => (n \in T <=> s[n].id \notin gone)
    BY <1>1
  <2> HIDE DEF T
  <2>2. [n \in 0..Len(s) |->
            IF n = 0 THEN <<>> ELSE IF s[n].id \in gone THEN f[n - 1] ELSE Append(f[n - 1], s[n])]
        = [n \in 0..Len(s) |->
            IF n = 0 THEN <<>> ELSE IF n \in T THEN Append(f[n - 1], s[n]) ELSE f[n - 1]]
    BY <2>1
  <2>3. QED
    BY <2>2, ZenonT(30) DEF Picks
<1>3. \E f : Picks(s, T, f)
  BY PicksExist, ZenonT(30)
<1>4. Left(g)
  BY <1>2, <1>3, ZenonT(30)
<1>5. Remaining(s, gone) = g[Len(s)]
  BY DEF Remaining
<1> QED
  BY <1>2, <1>4, <1>5, ZenonT(30)

LEMMA RemainingOfList ==
    ASSUME NEW s, IsList(s), NEW gone
    PROVE  /\ IsList(Remaining(s, gone))
           /\ Range(Remaining(s, gone)) = {e \in Range(s) : e.id \notin gone}
<1> DEFINE T == {i \in 1..Len(s) : s[i].id \notin gone}
<1>1. Len(s) \in Nat /\ DOMAIN s = 1..Len(s)
  BY ListIs
<1>2. PICK f : Picks(s, T, f) /\ Remaining(s, gone) = f[Len(s)]
  BY RemainingIsPicked
<1>3. {s[i] : i \in T \intersect (1..Len(s))} = {e \in Range(s) : e.id \notin gone}
  BY <1>1 DEF Range
<1> HIDE DEF T
<1>4. IsList(f[Len(s)]) /\ Range(f[Len(s)]) = {s[i] : i \in T \intersect (1..Len(s))}
  BY <1>1, <1>2, PicksOfList, SMTT(60)
<1> QED
  BY <1>2, <1>3, <1>4

LEMMA RemainingOfEmpty ==
    ASSUME NEW gone
    PROVE  Remaining(<<>>, gone) = <<>>
<1>1. PICK f : Picks(<<>>, {i \in 1..Len(<<>>) : <<>>[i].id \notin gone}, f)
               /\ Remaining(<<>>, gone) = f[Len(<<>>)]
  BY EmptyList, RemainingIsPicked
<1>2. f[0] = <<>>
  BY <1>1, EmptyList, PicksNext
<1>3. Len(<<>>) = 0
  OBVIOUS
<1> QED
  BY <1>1, <1>2, <1>3

LEMMA RemainingOfAppend ==
    ASSUME NEW s, IsList(s), NEW e, NEW gone
    PROVE  Remaining(Append(s, e), gone) =
               IF e.id \in gone THEN Remaining(s, gone) ELSE Append(Remaining(s, gone), e)
<1> DEFINE t == Append(s, e)
           n == Len(s)
           T == {i \in 1..Len(s) : s[i].id \notin gone}
           U == {i \in 1..Len(t) : t[i].id \notin gone}
<1>1. /\ n \in Nat /\ IsList(t) /\ Len(t) = n + 1 /\ t[n + 1] = e
      /\ \A i \in 1..n : t[i] = s[i]
  BY ListIs, AppendToList
<1>2. PICK f : Picks(s, T, f) /\ Remaining(s, gone) = f[n]
  BY RemainingIsPicked
<1>3. PICK g : Picks(t, U, g) /\ Remaining(t, gone) = g[Len(t)]
  BY <1>1, RemainingIsPicked
<1> HIDE DEF t
<1>4. \A i \in 1..n : s[i] = t[i] /\ (i \in T <=> i \in U)
  BY <1>1
<1>5. n + 1 \in U <=> e.id \notin gone
  BY <1>1
<1> HIDE DEF n, T, U
<1>6. f[n] = g[n]
  BY <1>1, <1>2, <1>3, <1>4, PicksAgree DEF n
<1>7. g[n + 1] = IF n + 1 \in U THEN Append(g[n], t[n + 1]) ELSE g[n]
  BY <1>1, <1>3, PicksNext
<1> QED
  BY <1>1, <1>2, <1>3, <1>5, <1>6, <1>7 DEF t

\* The function of FlattenSeq.
Joined(seqs, f) ==
    f = [i \in 1..Len(seqs) |-> IF i = 1 THEN seqs[i] ELSE f[i - 1] \o seqs[i]]

LEMMA FlattenIsJoined ==
    ASSUME NEW S, NEW seqs \in Seq(Seq(S)), Len(seqs) # 0
    PROVE  \E f : Joined(seqs, f) /\ FlattenSeq(seqs) = f[Len(seqs)]
<1> DEFINE n == Len(seqs)
           T == Seq(S)
<1>1. n \in Nat /\ \A i \in 1..n : seqs[i] \in T
  OBVIOUS
<1>2. n # 0
  OBVIOUS
<1>3. \E f : Joined(seqs, f) /\ FlattenSeq(seqs) = f[n]
  <2>0. 1 \in 1..n /\ n - 1 \in Nat
    BY <1>1, <1>2
  <2> HIDE DEF n, T
  <2>1. \E f : Joined(seqs, f)
    <3> DEFINE more(t, i) == IF i + 1 \in 1..n THEN t \o seqs[i + 1] ELSE t
               step == [p \in T \X Nat |-> more(p[1], p[2])]
    <3>1. ASSUME NEW t \in T, NEW i \in Nat PROVE more(t, i) \in T
      BY <1>1 DEF T
    <3>2. step \in [T \X Nat -> T] /\ seqs[1] \in T
      BY <1>1, <2>0, <3>1
    <3>3. \A t \in T, i \in Nat : step[<<t, i>>] = more(t, i)
      OBVIOUS
    <3> HIDE DEF step, more
    <3>4. PICK g \in [0..(n - 1) -> T] : Goes(g, n - 1, seqs[1], step)
      BY <2>0, <3>2, Recursion
    <3> DEFINE f == [i \in 1..n |-> g[i - 1]]
    <3>5. ASSUME NEW i \in 1..n
          PROVE  f[i] = IF i = 1 THEN seqs[i] ELSE f[i - 1] \o seqs[i]
      <4>1. CASE i = 1
        BY <3>4, <4>1 DEF Goes
      <4>2. CASE i # 1
        <5>1. i - 1 \in 1..(n - 1) /\ i - 1 \in 1..n /\ (i - 1) + 1 = i /\ i - 1 \in Nat
              /\ (i - 1) - 1 \in 0..(n - 1)
          BY <1>1, <4>2
        <5>2. g[i - 1] = step[<<g[(i - 1) - 1], i - 1>>]
          BY <3>4, <5>1 DEF Goes
        <5>3. g[(i - 1) - 1] \in T
          BY <3>4, <5>1
        <5>4. g[i - 1] = more(g[(i - 1) - 1], i - 1)
          BY <3>3, <5>1, <5>2, <5>3
        <5>5. g[i - 1] = g[(i - 1) - 1] \o seqs[i]
          BY <5>1, <5>4 DEF more
        <5>6. f[i] = g[i - 1] /\ f[i - 1] = g[(i - 1) - 1]
          BY <5>1
        <5>7. QED
          BY <4>2, <5>5, <5>6
      <4>3. QED
        BY <4>1, <4>2
    <3>6. Joined(seqs, f)
      BY <3>5 DEF Joined, n
    <3>7. QED
      BY <3>6
  <2>2. PICK f : Joined(seqs, f) /\ FlattenSeq(seqs) = f[n]
    <3> DEFINE f == CHOOSE f : Joined(seqs, f)
    <3>1. Joined(seqs, f)
      BY <2>1
    <3>2. FlattenSeq(seqs) = f[n]
      BY <1>2 DEF FlattenSeq, Joined, n
    <3>3. QED
      BY <3>1, <3>2
  <2>3. QED
    BY <2>2
<1> QED
  BY <1>3

LEMMA FlattenOfLists ==
    ASSUME NEW S, NEW seqs \in Seq(Seq(S))
    PROVE  FlattenSeq(seqs) \in Seq(S)
<1> DEFINE n == Len(seqs)
           T == Seq(S)
<1>1. n \in Nat /\ \A i \in 1..n : seqs[i] \in T
  OBVIOUS
<1>2. CASE n = 0
  <2>1. seqs = <<>>
    BY <1>2
  <2>2. FlattenSeq(seqs) = seqs
    BY <1>2 DEF FlattenSeq
  <2>3. <<>> \in Seq(S)
    OBVIOUS
  <2>4. QED
    BY <2>1, <2>2, <2>3, Zenon
<1>3. CASE n # 0
  <2>0. 1 \in 1..n /\ n - 1 \in Nat
    BY <1>1, <1>3
  <2>1. PICK f : Joined(seqs, f) /\ FlattenSeq(seqs) = f[n]
    BY <1>3, FlattenIsJoined
  <2> HIDE DEF n, T
  <2> DEFINE Typed == {k \in Nat : k + 1 <= n => f[k + 1] \in T}
  <2>3. 0 \in Typed
    BY <1>1, <2>0, <2>1 DEF Joined, n
  <2>4. ASSUME NEW k \in Nat, k \in Typed PROVE k + 1 \in Typed
    <3>1. SUFFICES ASSUME (k + 1) + 1 <= n PROVE f[(k + 1) + 1] \in T
      OBVIOUS
    <3>2. f[k + 1] \in T /\ seqs[(k + 1) + 1] \in T
      BY <1>1, <2>4, <3>1
    <3>3. f[(k + 1) + 1] = f[k + 1] \o seqs[(k + 1) + 1]
      <4>1. (k + 1) + 1 \in 1..n /\ (k + 1) + 1 # 1 /\ ((k + 1) + 1) - 1 = k + 1
        BY <1>1, <3>1
      <4>2. QED
        BY <2>1, <4>1 DEF Joined, n
    <3>4. QED
      BY <3>2, <3>3 DEF T
  <2>5. n - 1 \in Typed
    BY <2>0, <2>3, <2>4, Counting
  <2>6. QED
    BY <1>1, <2>0, <2>1, <2>5 DEF T
<1> QED
  BY <1>2, <1>3

-------------------------------------------------------------------------------
(* The paths of a capsule.                                                   *)

UniqueIds(c) == \A e, f \in Range(c.events) : e.id = f.id => e = f

HasKey(c, p) ==
    /\ EventOf(c, p.id) \in Range(c.events)
    /\ p.key \in DOMAIN EventOf(c, p.id).payload

AtomsOf(c, p) == EventOf(c, p.id).payload[p.key].atoms

HasAtom(c, p) == HasKey(c, p) /\ p.at \in DOMAIN AtomsOf(c, p)

KeyPaths(c) ==
    UNION {{[id |-> e.id, key |-> k] : k \in DOMAIN e.payload} : e \in Range(c.events)}

\* validate_capsule refuses an id it has seen.
LEMMA ValidHasUniqueIds ==
    ASSUME NEW c, IsCapsule(c), Valid(c)
    PROVE  UniqueIds(c)
<1> DEFINE s == c.events
           R == Range(c.events)
<1>1. s \in Seq(R) /\ Len(s) \in Nat /\ DOMAIN s = 1..Len(s)
      /\ \A i \in 1..Len(s) : s[i] \in R
  BY ListIs DEF IsCapsule, IsList
<1>2. \A x \in R : \E i \in 1..Len(s) : x = s[i]
  BY ListIs DEF IsCapsule
<1>3. \A i \in 1..Len(s) : ValidEvent(s[i], SubSeq(s, 1, i - 1))
  BY <1>1 DEF Valid
<1> HIDE DEF s, R
<1>4. ASSUME NEW i \in 1..Len(s), NEW j \in 1..Len(s), i < j PROVE s[i].id # s[j].id
  <2> DEFINE earlier == SubSeq(s, 1, j - 1)
  <2>1. s[j].id \notin {p.id : p \in Range(earlier)}
    BY <1>3 DEF ValidEvent
  <2>2. /\ earlier \in Seq(R) /\ Len(earlier) = j - 1
        /\ \A k \in 1..(j - 1) : earlier[k] = s[k]
    <3>1. /\ SubSeq(s, 1, j - 1) \in Seq(R)
          /\ Len(SubSeq(s, 1, j - 1)) = IF 1 <= j - 1 THEN (j - 1) - 1 + 1 ELSE 0
          /\ \A k \in 1..((j - 1) - 1 + 1) : SubSeq(s, 1, j - 1)[k] = s[1 + k - 1]
      BY <1>1, SubSeqProperties
    <3>2. QED
      BY <1>1, <1>4, <3>1
  <2> HIDE DEF earlier
  <2>3. s[i] \in Range(earlier)
    <3>1. i \in DOMAIN earlier /\ earlier[i] = s[i]
      BY <1>1, <1>4, <2>2, LenProperties
    <3>2. QED
      BY <3>1 DEF Range
  <2>4. QED
    BY <2>1, <2>3
<1>5. ASSUME NEW e \in R, NEW f \in R, e.id = f.id PROVE e = f
  <2>1. PICK i \in 1..Len(s), j \in 1..Len(s) : e = s[i] /\ f = s[j]
    BY <1>2
  <2>2. i = j
    BY <1>1, <1>4, <1>5, <2>1
  <2>3. QED
    BY <2>1, <2>2
<1> QED
  BY <1>5 DEF UniqueIds, R

LEMMA EventOfId ==
    ASSUME NEW c, UniqueIds(c), NEW e \in Range(c.events)
    PROVE  EventOf(c, e.id) = e
  BY DEF EventOf, UniqueIds

LEMMA KeyPathHasKey ==
    ASSUME NEW c, UniqueIds(c), NEW p \in KeyPaths(c)
    PROVE  HasKey(c, p)
<1>1. PICK e \in Range(c.events) : \E k \in DOMAIN e.payload : p = [id |-> e.id, key |-> k]
  BY DEF KeyPaths
<1>2. EventOf(c, p.id) = e
  BY <1>1, EventOfId
<1> QED
  BY <1>1, <1>2 DEF HasKey

LEMMA KeyPathsOfEvents ==
    ASSUME NEW c, IsCapsule(c), NEW types
    PROVE  FlattenSeq([i \in DOMAIN c.events |-> KeysOf(c.events[i], types)]) \in Seq(KeyPaths(c))
<1> DEFINE n == Len(c.events)
           P == KeyPaths(c)
<1>1. n \in Nat /\ DOMAIN c.events = 1..n /\ \A i \in 1..n : c.events[i] \in Range(c.events)
  BY ListIs DEF IsCapsule
<1>2. ASSUME NEW e \in Range(c.events) PROVE KeysOf(e, types) \in Seq(P)
  <2> DEFINE K == {k \in DOMAIN e.payload : e.payload[k].type \in types}
             keys == SetToSeq(K)
  <2>1. IsFiniteSet(K)
    BY FS_Subset DEF IsCapsule, IsEvent, IsPayload
  <2>2. IsList(keys) /\ Range(keys) \subseteq K
    BY <2>1, SetInOrder
  <2>3. KeysOf(e, types) = [i \in DOMAIN keys |-> [id |-> e.id, key |-> keys[i]]]
    BY DEF KeysOf
  <2>4. \A k \in K : [id |-> e.id, key |-> k] \in P
    BY DEF KeyPaths
  <2> HIDE DEF K, keys, P
  <2>5. Len(keys) \in Nat /\ DOMAIN keys = 1..Len(keys) /\ \A i \in 1..Len(keys) : keys[i] \in K
    BY <2>2, ListIs
  <2>6. QED
    BY <2>3, <2>4, <2>5
<1> HIDE DEF n, P
<1>3. \A i \in 1..n : KeysOf(c.events[i], types) \in Seq(P)
  BY <1>1, <1>2
<1>4. [i \in DOMAIN c.events |-> KeysOf(c.events[i], types)] \in Seq(Seq(P))
  BY <1>1, <1>3
<1> QED
  BY <1>4, FlattenOfLists DEF P

AtomPathsOf(c) ==
    UNION {{[id |-> p.id, key |-> p.key, at |-> i] : i \in DOMAIN AtomsOf(c, p)} : p \in KeyPaths(c)}

LEMMA AtomsAreListed ==
    ASSUME NEW c, IsCapsule(c), NEW p, HasKey(c, p)
    PROVE  IsList(AtomsOf(c, p)) /\ IsPayload(EventOf(c, p.id).payload)
  BY DEF HasKey, AtomsOf, IsCapsule, IsEvent, IsPayload

LEMMA AtomPathsList ==
    ASSUME NEW c, IsCapsule(c), UniqueIds(c), NEW p \in KeyPaths(c)
    PROVE  AtomPaths(c, p) \in Seq(AtomPathsOf(c))
<1> DEFINE atoms == AtomsOf(c, p)
           P == AtomPathsOf(c)
<1>1. IsList(atoms)
  BY KeyPathHasKey, AtomsAreListed
<1>2. AtomPaths(c, p) = [i \in DOMAIN atoms |-> [id |-> p.id, key |-> p.key, at |-> i]]
  BY DEF AtomPaths, AtomsOf
<1>3. \A i \in DOMAIN atoms : [id |-> p.id, key |-> p.key, at |-> i] \in P
  BY DEF AtomPathsOf
<1> HIDE DEF atoms, P
<1>4. Len(atoms) \in Nat /\ DOMAIN atoms = 1..Len(atoms)
  BY <1>1, ListIs
<1> QED
  BY <1>2, <1>3, <1>4 DEF P

LEMMA AtomPathHasAtom ==
    ASSUME NEW c, UniqueIds(c), NEW a \in AtomPathsOf(c)
    PROVE  HasAtom(c, a)
<1>1. PICK p \in KeyPaths(c) : \E i \in DOMAIN AtomsOf(c, p) : a = [id |-> p.id, key |-> p.key, at |-> i]
  BY DEF AtomPathsOf
<1>2. PICK i \in DOMAIN AtomsOf(c, p) : a = [id |-> p.id, key |-> p.key, at |-> i]
  BY <1>1
<1>3. HasKey(c, p) /\ a.id = p.id /\ a.key = p.key /\ a.at = i
  BY <1>2, KeyPathHasKey
<1> QED
  BY <1>3 DEF HasAtom, HasKey, AtomsOf

LEMMA FieldPathsList ==
    ASSUME NEW c, IsCapsule(c)
    PROVE  FieldPaths(c) \in Seq(KeyPaths(c))
  BY KeyPathsOfEvents DEF FieldPaths

LEMMA ItemPathsList ==
    ASSUME NEW c, IsCapsule(c), UniqueIds(c)
    PROVE  ItemPaths(c) \in Seq(AtomPathsOf(c))
<1> DEFINE lists == FlattenSeq([i \in DOMAIN c.events |-> KeysOf(c.events[i], {"list"})])
           P == AtomPathsOf(c)
           K == KeyPaths(c)
<1>1. lists \in Seq(K)
  BY KeyPathsOfEvents
<1>2. ItemPaths(c) = FlattenSeq([i \in DOMAIN lists |-> AtomPaths(c, lists[i])])
  BY DEF ItemPaths
<1>3. \A p \in K : AtomPaths(c, p) \in Seq(P)
  BY AtomPathsList
<1> HIDE DEF lists, P, K
<1>4. Len(lists) \in Nat /\ DOMAIN lists = 1..Len(lists) /\ \A i \in 1..Len(lists) : lists[i] \in K
  BY <1>1
<1>5. \A i \in 1..Len(lists) : AtomPaths(c, lists[i]) \in Seq(P)
  BY <1>3, <1>4
<1>6. [i \in DOMAIN lists |-> AtomPaths(c, lists[i])] \in Seq(Seq(P))
  BY <1>4, <1>5
<1> QED
  BY <1>2, <1>6, FlattenOfLists DEF P

LEMMA TextPathsList ==
    ASSUME NEW c, IsCapsule(c)
    PROVE  IsList(TextPaths(c)) /\ Range(TextPaths(c)) \subseteq KeyPaths(c)
<1> DEFINE texts == FlattenSeq([i \in DOMAIN c.events |-> KeysOf(c.events[i], {"text"})])
           full == {p \in Range(texts) : EventOf(c, p.id).payload[p.key].atoms # <<>>}
<1>1. IsList(texts) /\ Range(texts) \subseteq KeyPaths(c)
  BY KeyPathsOfEvents, ListOf
<1>2. TextPaths(c) = Among(texts, full)
  BY DEF TextPaths
<1> HIDE DEF texts, full
<1> QED
  BY <1>1, <1>2, AmongOfList

\* What a level tries is there.
Levels == Range(LevelOrder)

IsTarget(c, name, t) ==
    /\ name \in {"json_fields", "text_chunks"} => HasKey(c, t)
    /\ name = "json_items" => HasAtom(c, t)
    /\ name = "file_chunks" => t \in DOMAIN c.workspace

LEMMA LevelsAre ==
    /\ Levels = EventLevels \union JsonLevels \union {"text_chunks", "files", "file_chunks", "environment"}
    /\ Len(LevelOrder) = 10
    /\ \A n \in 1..10 : LevelOrder[n] \in Levels
<1>1. Len(LevelOrder) = 10
  BY DEF LevelOrder
<1>2. DOMAIN LevelOrder = 1..10
  BY DEF LevelOrder
<1>3. Range(LevelOrder) = {LevelOrder[1], LevelOrder[2], LevelOrder[3], LevelOrder[4], LevelOrder[5],
                           LevelOrder[6], LevelOrder[7], LevelOrder[8], LevelOrder[9], LevelOrder[10]}
  BY <1>2 DEF Range
<1>4. \A n \in 1..10 : LevelOrder[n] \in Levels
  BY <1>2 DEF Range, Levels
<1> QED
  BY <1>1, <1>3, <1>4 DEF Levels, LevelOrder, EventLevels, JsonLevels

LEMMA SingletonList ==
    ASSUME NEW x PROVE IsList(<<x>>)
  BY DEF IsList, Range

LEMMA TargetsList ==
    ASSUME NEW c, IsCapsule(c), UniqueIds(c), NEW name \in Levels
    PROVE  /\ IsList(Targets(c, name))
           /\ \A t \in Range(Targets(c, name)) : IsTarget(c, name, t)
<1>1. CASE name \in EventLevels \union {"files", "environment"}
  <2>1. Targets(c, name) = <<name>>
    BY <1>1 DEF Targets, EventLevels
  <2>2. IsList(<<name>>)
    BY SingletonList
  <2>3. QED
    BY <1>1, <2>1, <2>2 DEF IsTarget, EventLevels
<1>2. CASE name = "json_fields"
  <2>1. Targets(c, name) = FieldPaths(c)
    BY <1>2 DEF Targets, EventLevels
  <2>2. QED
    BY <1>2, <2>1, FieldPathsList, ListOf, KeyPathHasKey DEF IsTarget
<1>3. CASE name = "json_items"
  <2>1. Targets(c, name) = ItemPaths(c)
    BY <1>3 DEF Targets, EventLevels
  <2>2. QED
    BY <1>3, <2>1, ItemPathsList, ListOf, AtomPathHasAtom DEF IsTarget
<1>4. CASE name = "text_chunks"
  <2>1. Targets(c, name) = TextPaths(c)
    BY <1>4 DEF Targets, EventLevels
  <2>2. QED
    BY <1>4, <2>1, TextPathsList, KeyPathHasKey DEF IsTarget
<1>5. CASE name = "file_chunks"
  <2> DEFINE F == {f \in DOMAIN c.workspace : c.workspace[f] # <<>>}
  <2>1. Targets(c, name) = SetToSeq(F)
    BY <1>5 DEF Targets, EventLevels
  <2>2. IsFiniteSet(F)
    BY FS_Subset DEF IsCapsule
  <2>3. IsList(SetToSeq(F)) /\ Range(SetToSeq(F)) \subseteq F
    BY <2>2, SetInOrder
  <2>4. QED
    BY <1>5, <2>1, <2>3 DEF IsTarget
<1> QED
  BY <1>1, <1>2, <1>3, <1>4, <1>5, LevelsAre DEF JsonLevels
-------------------------------------------------------------------------------
(* A deletion leaves a capsule.                                              *)

LEMMA ResequencedEvents ==
    ASSUME NEW events, IsList(events), \A e \in Range(events) : IsEvent(e)
    PROVE  IsList(Resequence(events)) /\ \A e \in Range(Resequence(events)) : IsEvent(e)
<1> DEFINE n == Len(events)
           after == Resequence(events)
<1>1. n \in Nat /\ DOMAIN events = 1..n /\ \A i \in 1..n : events[i] \in Range(events)
  BY ListIs
<1> HIDE DEF n
<1>2. after = [i \in 1..n |-> [events[i] EXCEPT !.seq = i - 1]]
  BY <1>1 DEF Resequence
<1> HIDE DEF after
<1>3. IsList(after)
  BY <1>1, <1>2, ListFrom
<1>4. ASSUME NEW i \in 1..n PROVE IsEvent(after[i])
  <2>1. IsEvent(events[i]) /\ after[i] = [events[i] EXCEPT !.seq = i - 1]
    BY <1>1, <1>2
  <2>2. QED
    BY <2>1 DEF IsEvent
<1> QED
  BY <1>2, <1>3, <1>4 DEF Range, after

LEMMA EventsReplaced ==
    ASSUME NEW c, IsCapsule(c), NEW events, IsList(events), \A e \in Range(events) : IsEvent(e)
    PROVE  IsCapsule([c EXCEPT !.events = events])
<1> DEFINE d == [c EXCEPT !.events = events]
<1>1. /\ d = [events |-> events, workspace |-> c.workspace, environment |-> c.environment]
      /\ d.events = events /\ d.workspace = c.workspace /\ d.environment = c.environment
  BY DEF IsCapsule
<1> HIDE DEF d
<1> QED
  BY <1>1 DEF IsCapsule, d

LEMMA RemovedEvents ==
    ASSUME NEW c, IsCapsule(c), NEW requested
    PROVE  IsCapsule(RemoveEvents(c, requested))
<1>1. PICK gone : RemoveEvents(c, requested) =
                      [c EXCEPT !.events = Resequence(Remaining(c.events, gone))]
  BY DEF RemoveEvents
<1> DEFINE events == Remaining(c.events, gone)
<1>2. IsList(events) /\ \A e \in Range(events) : IsEvent(e)
  BY RemainingOfList DEF IsCapsule
<1> HIDE DEF events
<1>3. IsList(Resequence(events)) /\ \A e \in Range(Resequence(events)) : IsEvent(e)
  BY <1>2, ResequencedEvents
<1> QED
  BY <1>1, <1>3, EventsReplaced DEF events

LEMMA ReplacedPayload ==
    ASSUME NEW c, IsCapsule(c), NEW id, NEW payload, IsPayload(payload)
    PROVE  IsCapsule(ReplacePayload(c, id, payload))
<1> DEFINE n == Len(c.events)
           after == [i \in DOMAIN c.events |->
                        IF c.events[i].id = id THEN [c.events[i] EXCEPT !.payload = payload]
                                               ELSE c.events[i]]
<1>1. /\ n \in Nat /\ DOMAIN c.events = 1..n
      /\ \A i \in 1..n : c.events[i] \in Range(c.events) /\ IsEvent(c.events[i])
  BY ListIs DEF IsCapsule
<1>2. ReplacePayload(c, id, payload) = [c EXCEPT !.events = after]
  BY DEF ReplacePayload
<1> HIDE DEF n
<1>3. IsList(after)
  BY <1>1, ListFrom
<1>4. ASSUME NEW i \in 1..n PROVE IsEvent(after[i])
  <2>1. IsEvent(c.events[i])
    BY <1>1
  <2>2. IsEvent([c.events[i] EXCEPT !.payload = payload])
    BY <2>1 DEF IsEvent
  <2>3. QED
    BY <1>1, <2>1, <2>2
<1>5. \A e \in Range(after) : IsEvent(e)
  BY <1>1, <1>4 DEF Range
<1> HIDE DEF after
<1> QED
  BY <1>2, <1>3, <1>5, EventsReplaced

LEMMA DeletedField ==
    ASSUME NEW c, IsCapsule(c), NEW p, HasKey(c, p)
    PROVE  IsCapsule(DeleteField(c, p.id, p.key))
<1> DEFINE payload == EventOf(c, p.id).payload
           K == DOMAIN payload \ {p.key}
           left == Restrict(payload, K)
<1>1. IsPayload(payload)
  BY AtomsAreListed
<1>2. IsFiniteSet(K)
  BY <1>1, FS_Subset DEF IsPayload
<1>3. left = [k \in K |-> payload[k]]
  BY DEF Restrict
<1>4. DeleteField(c, p.id, p.key) = ReplacePayload(c, p.id, left)
  BY DEF DeleteField
<1>5. \A k \in K : k \in DOMAIN payload
  OBVIOUS
<1> HIDE DEF payload, K, left
<1>6. IsPayload(left)
  BY <1>1, <1>2, <1>3, <1>5 DEF IsPayload
<1> QED
  BY <1>4, <1>6, ReplacedPayload

LEMMA ReplacedAtoms ==
    ASSUME NEW c, IsCapsule(c), NEW p, HasKey(c, p), NEW atoms, IsList(atoms)
    PROVE  IsCapsule(ReplaceAtoms(c, p.id, p.key, atoms))
<1> DEFINE payload == EventOf(c, p.id).payload
           after == [payload EXCEPT ![p.key].atoms = atoms]
<1>1. IsPayload(payload) /\ p.key \in DOMAIN payload
  BY AtomsAreListed DEF HasKey
<1>2. ReplaceAtoms(c, p.id, p.key, atoms) = ReplacePayload(c, p.id, after)
  BY DEF ReplaceAtoms
<1> HIDE DEF payload
<1>3. DOMAIN after = DOMAIN payload
      /\ \A k \in DOMAIN payload : after[k] = IF k = p.key THEN [payload[k] EXCEPT !.atoms = atoms]
                                                           ELSE payload[k]
  BY <1>1
<1>4. after = [k \in DOMAIN after |-> after[k]]
  OBVIOUS
<1> HIDE DEF after
<1>5. ASSUME NEW k \in DOMAIN payload
      PROVE  /\ after[k] = [type |-> after[k].type, atoms |-> after[k].atoms]
             /\ IsList(after[k].atoms)
  <2>1. payload[k] = [type |-> payload[k].type, atoms |-> payload[k].atoms]
        /\ IsList(payload[k].atoms)
    BY <1>1 DEF IsPayload
  <2>2. QED
    BY <1>3, <2>1
<1>6. IsPayload(after)
  BY <1>1, <1>3, <1>4, <1>5 DEF IsPayload
<1> QED
  BY <1>2, <1>6, ReplacedPayload

\* A value put back leaves the capsule as it is.
LEMMA SameAtoms ==
    ASSUME NEW c, IsCapsule(c), UniqueIds(c), NEW p, HasKey(c, p)
    PROVE  ReplaceAtoms(c, p.id, p.key, AtomsOf(c, p)) = c
<1> DEFINE event == EventOf(c, p.id)
           payload == event.payload
           after == [payload EXCEPT ![p.key].atoms = payload[p.key].atoms]
           n == Len(c.events)
<1>1. event \in Range(c.events) /\ IsEvent(event) /\ p.key \in DOMAIN payload
  BY DEF HasKey, IsCapsule
<1>2. after = payload
  BY <1>1 DEF IsEvent, IsPayload
<1>3. ReplaceAtoms(c, p.id, p.key, AtomsOf(c, p)) = ReplacePayload(c, p.id, payload)
  BY <1>2 DEF ReplaceAtoms, AtomsOf
<1>4. /\ n \in Nat /\ DOMAIN c.events = 1..n
      /\ \A i \in 1..n : c.events[i] \in Range(c.events) /\ IsEvent(c.events[i])
      /\ c.events = [i \in 1..n |-> c.events[i]]
  BY ListIs DEF IsCapsule, IsList
<1>5. ASSUME NEW i \in 1..n, c.events[i].id = p.id
      PROVE  [c.events[i] EXCEPT !.payload = payload] = c.events[i]
  <2>1. EventOf(c, c.events[i].id) = c.events[i]
    BY <1>4, EventOfId
  <2>2. c.events[i] = event
    BY <1>5, <2>1
  <2>3. QED
    BY <1>1, <2>2 DEF IsEvent
<1> HIDE DEF event, payload, after, n
<1>6. c.events = [i \in DOMAIN c.events |->
                     IF c.events[i].id = p.id THEN [c.events[i] EXCEPT !.payload = payload]
                                              ELSE c.events[i]]
  BY <1>4, <1>5
<1>7. ReplacePayload(c, p.id, payload) = [c EXCEPT !.events = c.events]
  BY <1>6 DEF ReplacePayload
<1> QED
  BY <1>3, <1>7 DEF IsCapsule, payload, event

-------------------------------------------------------------------------------
(* What the levels try is what the capsule has, and leaves a capsule.        *)

LEMMA DeletedPath ==
    ASSUME NEW c, IsCapsule(c), NEW name \in JsonLevels, NEW p, IsTarget(c, name, p)
    PROVE  IsCapsule(DeletePath(c, name, p))
<1>1. CASE name = "json_fields"
  BY <1>1, DeletedField DEF DeletePath, IsTarget
<1>2. CASE name = "json_items"
  <2> DEFINE atoms == RemoveAt(AtomsOf(c, p), p.at)
  <2>1. HasKey(c, p) /\ p.at \in DOMAIN AtomsOf(c, p)
    BY <1>2 DEF IsTarget, HasAtom
  <2>2. IsList(atoms)
    BY <2>1, AtomsAreListed, RemoveAtOfList
  <2>3. DeletePath(c, name, p) = ReplaceAtoms(c, p.id, p.key, atoms)
    BY <1>2 DEF DeletePath, DeleteAtom, AtomsOf
  <2> HIDE DEF atoms
  <2>4. QED
    BY <2>1, <2>2, <2>3, ReplacedAtoms
<1> QED
  BY <1>1, <1>2 DEF JsonLevels

BulkLevels == Levels \ JsonLevels

LEMMA UnitsList ==
    ASSUME NEW c, IsCapsule(c), NEW name \in BulkLevels, NEW t, IsTarget(c, name, t)
    PROVE  /\ IsList(Units(c, name, t))
           /\ name = "files" => Range(Units(c, name, t)) \subseteq DOMAIN c.workspace
           /\ name = "text_chunks" => Units(c, name, t) = AtomsOf(c, t)
<1>1. CASE name \in EventLevels
  <2> DEFINE events == Among(c.events, {e \in Range(c.events) : IsLevelUnit(c, e, name)})
             units == EventUnits(c, name)
  <2>1. IsList(events)
    BY AmongOfList DEF IsCapsule
  <2>2. units = [i \in DOMAIN events |-> events[i].id]
    BY DEF EventUnits
  <2> HIDE DEF events, units
  <2>3. IsList(units)
    BY <2>1, <2>2, ListIs, ListFrom
  <2>4. QED
    BY <1>1, <2>3 DEF Units, units, EventLevels
<1>2. CASE name = "text_chunks"
  BY <1>2, AtomsAreListed DEF Units, IsTarget, AtomsOf, EventLevels
<1>3. CASE name = "files"
  BY <1>3, SetInOrder DEF Units, IsCapsule, EventLevels
<1>4. CASE name = "file_chunks"
  BY <1>4 DEF Units, IsCapsule, IsTarget, EventLevels
<1>5. CASE name = "environment"
  BY <1>5, SetInOrder DEF Units, IsCapsule, EventLevels
<1> QED
  BY <1>1, <1>2, <1>3, <1>4, <1>5, LevelsAre DEF BulkLevels

LEMMA WorkspaceReplaced ==
    ASSUME NEW c, IsCapsule(c), NEW workspace,
           workspace = [f \in DOMAIN workspace |-> workspace[f]], IsFiniteSet(DOMAIN workspace),
           \A f \in DOMAIN workspace : IsList(workspace[f])
    PROVE  IsCapsule([c EXCEPT !.workspace = workspace])
<1> DEFINE d == [c EXCEPT !.workspace = workspace]
<1>1. /\ d = [events |-> c.events, workspace |-> workspace, environment |-> c.environment]
      /\ d.events = c.events /\ d.workspace = workspace /\ d.environment = c.environment
  BY DEF IsCapsule
<1> HIDE DEF d
<1> QED
  BY <1>1 DEF IsCapsule, d

LEMMA FileReplaced ==
    ASSUME NEW c, IsCapsule(c), NEW f \in DOMAIN c.workspace, NEW chunks, IsList(chunks)
    PROVE  /\ IsCapsule([c EXCEPT !.workspace[f] = chunks])
           /\ DOMAIN [c EXCEPT !.workspace[f] = chunks].workspace = DOMAIN c.workspace
<1> DEFINE after == [c.workspace EXCEPT ![f] = chunks]
<1>1. [c EXCEPT !.workspace[f] = chunks] = [c EXCEPT !.workspace = after]
  OBVIOUS
<1>2. DOMAIN after = DOMAIN c.workspace
      /\ \A g \in DOMAIN c.workspace : after[g] = IF g = f THEN chunks ELSE c.workspace[g]
  OBVIOUS
<1>3. after = [g \in DOMAIN after |-> after[g]]
  OBVIOUS
<1> HIDE DEF after
<1>4. IsFiniteSet(DOMAIN after) /\ \A g \in DOMAIN after : IsList(after[g])
  BY <1>2 DEF IsCapsule
<1>5. IsCapsule([c EXCEPT !.workspace = after])
  BY <1>3, <1>4, WorkspaceReplaced
<1>6. [c EXCEPT !.workspace = after].workspace = after
  BY DEF IsCapsule
<1> QED
  BY <1>1, <1>2, <1>5, <1>6

LEMMA BuiltCapsule ==
    ASSUME NEW c, IsCapsule(c), NEW name \in BulkLevels, NEW t, IsTarget(c, name, t),
           NEW kept, IsList(kept), Range(kept) \subseteq Range(Units(c, name, t))
    PROVE  /\ IsCapsule(Build(c, name, t, Units(c, name, t), kept))
           /\ name = "file_chunks" =>
                  DOMAIN Build(c, name, t, Units(c, name, t), kept).workspace = DOMAIN c.workspace
<1> DEFINE units == Units(c, name, t)
           built == Build(c, name, t, units, kept)
<1>1. CASE name \in EventLevels
  <2> DEFINE gone == Range(units) \ Range(kept)
  <2>1. built = RemoveEvents(c, gone)
    BY <1>1 DEF Build, EventLevels
  <2>2. QED
    BY <1>1, <2>1, RemovedEvents DEF EventLevels
<1>2. CASE name = "text_chunks"
  <2>1. built = ReplaceAtoms(c, t.id, t.key, kept)
    BY <1>2 DEF Build, EventLevels
  <2>2. QED
    BY <1>2, <2>1, ReplacedAtoms DEF IsTarget
<1>3. CASE name = "files"
  <2> DEFINE after == Restrict(c.workspace, Range(kept))
  <2>1. built = [c EXCEPT !.workspace = after]
    BY <1>3 DEF Build, EventLevels
  <2>2. after = [f \in Range(kept) |-> c.workspace[f]]
    BY DEF Restrict
  <2>3. IsFiniteSet(Range(kept))
    BY ListIsFinite
  <2>4. \A f \in Range(kept) : IsList(c.workspace[f])
    BY <1>3, UnitsList DEF IsCapsule
  <2> HIDE DEF after
  <2>5. IsCapsule([c EXCEPT !.workspace = after])
    BY <2>2, <2>3, <2>4, WorkspaceReplaced
  <2>6. QED
    BY <1>3, <2>1, <2>5
<1>4. CASE name = "file_chunks"
  <2>1. built = [c EXCEPT !.workspace[t] = kept]
    BY <1>4 DEF Build, EventLevels
  <2>2. t \in DOMAIN c.workspace
    BY <1>4 DEF IsTarget
  <2>3. /\ IsCapsule([c EXCEPT !.workspace[t] = kept])
        /\ DOMAIN [c EXCEPT !.workspace[t] = kept].workspace = DOMAIN c.workspace
    BY <2>2, FileReplaced
  <2> HIDE DEF built
  <2>4. IsCapsule(built) /\ DOMAIN built.workspace = DOMAIN c.workspace
    BY <2>1, <2>3
  <2>5. QED
    BY <2>4 DEF built
<1>5. CASE name = "environment"
  <2>1. built = [c EXCEPT !.environment = Range(kept)]
    BY <1>5 DEF Build, EventLevels
  <2>2. IsFiniteSet(Range(kept))
    BY ListIsFinite
  <2>3. QED
    BY <1>5, <2>1, <2>2 DEF IsCapsule
<1> QED
  BY <1>1, <1>2, <1>3, <1>4, <1>5, LevelsAre DEF BulkLevels

LEMMA TextAfterList ==
    ASSUME NEW c, IsCapsule(c), UniqueIds(c), NEW p
    PROVE  /\ IsList(TextAfter(c, p))
           /\ \A t \in Range(TextAfter(c, p)) : IsTarget(c, "text_chunks", t)
<1>1. PICK some : TextAfter(c, p) = Among(TextPaths(c), some)
  BY DEF TextAfter
<1>2. IsList(TextAfter(c, p)) /\ Range(TextAfter(c, p)) \subseteq Range(TextPaths(c))
  BY <1>1, TextPathsList, AmongOfList
<1>3. \A t \in KeyPaths(c) : IsTarget(c, "text_chunks", t)
  BY KeyPathHasKey DEF IsTarget
<1> QED
  BY <1>2, <1>3, TextPathsList

-------------------------------------------------------------------------------
(* A search keeps some of its units.                                         *)

ScanStart(s) ==
    s.part * (Len(s.kept) \div SearchParts(s)) + Smaller(s.part, Len(s.kept) % SearchParts(s))

\* A search over `units', wherever its loop heads stand.
Within(s, units) ==
    /\ IsSearch(s)
    /\ s.units = units
    /\ IsList(s.kept) /\ Range(s.kept) \subseteq Range(units)
    /\ s.granularity \in Nat /\ s.granularity >= 2
    /\ s.index \in Nat
    /\ s.phase = "initial" => s.kept = units
    /\ s.phase = "scan" => /\ Len(s.kept) >= 2
                           /\ s.part \in Nat /\ s.part < SearchParts(s)
                           /\ s.start = ScanStart(s)

SearchesWithin(s, units) == Within(s, units) /\ (s.phase = "linear" => s.index < Len(s.kept))

LEMMA BegunWithin ==
    ASSUME NEW units, IsList(units)
    PROVE  SearchesWithin(SearchOver(units), units)
  BY DEF SearchesWithin, Within, SearchOver, IsSearch

\* The part that a scan is at lies within what is left (cf. DdminProofs).
LEMMA PartWithin ==
    ASSUME NEW s, NEW units, Within(s, units), s.phase = "scan"
    PROVE  /\ SearchParts(s) \in 2..Len(s.kept)
           /\ s.start \in Nat /\ s.start <= Len(s.kept)
           /\ SearchEnd(s) \in Nat
           /\ SearchEnd(s) = (s.part + 1) * (Len(s.kept) \div SearchParts(s))
                                 + Smaller(s.part + 1, Len(s.kept) % SearchParts(s))
<1> DEFINE L == Len(s.kept)
           P == SearchParts(s)
           q == L \div P
           r == L % P
           part == s.part
           start == s.start
           end == SearchEnd(s)
<1>1. L \in Nat /\ L >= 2 /\ s.granularity \in Nat /\ s.granularity >= 2 /\ part \in Nat
      /\ part < P /\ start = part * q + Smaller(part, r)
  BY ListIs DEF Within, ScanStart
<1>2. P \in 2..L
  BY <1>1 DEF SearchParts, Parts, Smaller
<1>4. end = start + Width(L, P, part)
  BY DEF SearchEnd
<1>5. Width(L, P, part) = q + (IF part < r THEN 1 ELSE 0)
  BY DEF Width
<1> HIDE DEF L, P, part, start, end
<1>3. q \in Nat /\ r \in Nat /\ r < P /\ L = P * q + r
  BY <1>1, <1>2, SMT
<1> HIDE DEF q, r
<1>6. (part + 1) * q = part * q + q
  BY <1>1, <1>3
<1>7. part * q \in Nat /\ P * q \in Nat /\ part * q <= P * q
  BY <1>1, <1>2, <1>3, SMT
<1>8. start \in Nat /\ start <= L
  BY <1>1, <1>2, <1>3, <1>7 DEF Smaller
<1>9. end \in Nat /\ end = (part + 1) * q + Smaller(part + 1, r)
  BY <1>1, <1>3, <1>4, <1>5, <1>6, <1>8 DEF Smaller
<1> QED
  BY <1>2, <1>8, <1>9 DEF L, P, q, r, part, start, end

LEMMA CandidateWithin ==
    ASSUME NEW s, NEW units, IsList(units), SearchesWithin(s, units),
           s.phase \in {"initial", "scan", "linear"}
    PROVE  IsList(SearchCandidate(s)) /\ Range(SearchCandidate(s)) \subseteq Range(units)
<1>1. IsList(s.kept) /\ Range(s.kept) \subseteq Range(units)
  BY DEF SearchesWithin, Within
<1>2. CASE s.phase = "initial"
  BY <1>2 DEF SearchCandidate, SearchesWithin, Within
<1>3. CASE s.phase = "scan"
  <2>1. SearchCandidate(s) = Without(s.kept, s.start, SearchEnd(s))
    BY <1>3 DEF SearchCandidate
  <2>2. s.start \in Nat /\ s.start <= Len(s.kept) /\ SearchEnd(s) \in Nat
    BY <1>3, PartWithin DEF SearchesWithin
  <2>3. QED
    BY <1>1, <2>1, <2>2, WithoutOfList
<1>4. CASE s.phase = "linear"
  <2>1. SearchCandidate(s) = Without(s.kept, (s.index + 1) - 1, s.index + 1)
    BY <1>4 DEF SearchCandidate, WithoutItem
  <2>2. s.index \in Nat /\ s.index < Len(s.kept) /\ Len(s.kept) \in Nat
    BY <1>1, <1>4, ListIs DEF SearchesWithin, Within
  <2>3. /\ (s.index + 1) - 1 \in Nat /\ s.index + 1 \in Nat
        /\ (s.index + 1) - 1 <= Len(s.kept)
    BY <2>2
  <2>4. QED
    BY <1>1, <2>1, <2>3, WithoutOfList
<1> QED
  BY <1>2, <1>3, <1>4

LEMMA HeadWithin ==
    ASSUME NEW s, NEW units, Within(s, units)
    PROVE  Within(AtScan(s), units) /\ SearchesWithin(AtLinear(s), units)
<1>1. PICK p : p = (IF Len(s.kept) >= 2 THEN "scan" ELSE "linear")
  OBVIOUS
<1>2. PICK q : q = (IF s.index < Len(s.kept) THEN "linear" ELSE "done")
  OBVIOUS
<1> DEFINE t == AtScan(s)
           u == AtLinear(s)
<1>3. t = [s EXCEPT !.phase = p, !.part = 0, !.start = 0]
  BY <1>1 DEF AtScan
<1>4. u = [s EXCEPT !.phase = q]
  BY <1>2 DEF AtLinear
<1>5. /\ t.units = s.units /\ t.kept = s.kept /\ t.granularity = s.granularity
      /\ t.index = s.index /\ t.phase = p /\ t.part = 0 /\ t.start = 0
  BY <1>3 DEF Within, IsSearch
<1>6. /\ u.units = s.units /\ u.kept = s.kept /\ u.granularity = s.granularity
      /\ u.index = s.index /\ u.phase = q
  BY <1>4 DEF Within, IsSearch
<1>7. IsSearch(t) /\ IsSearch(u)
  BY HeadKeeps DEF Within
<1> HIDE DEF t, u
<1>8. Within(t, units)
  <2>1. CASE Len(s.kept) >= 2
    <3> DEFINE P == SearchParts(t)
               L == Len(t.kept)
    <3>1. L \in Nat /\ L >= 2 /\ t.granularity \in Nat /\ t.granularity >= 2
      BY <2>1, <1>5, ListIs DEF Within
    <3>2. P \in 2..L
      BY <3>1 DEF SearchParts, Parts, Smaller
    <3>3. L \div P \in Nat /\ L % P \in Nat
      BY <3>1, <3>2, SMT
    <3> HIDE DEF P, L
    <3>4. 0 < P /\ 0 = 0 * (L \div P) + Smaller(0, L % P)
      BY <3>2, <3>3 DEF Smaller
    <3>5. t.part \in Nat /\ t.part < SearchParts(t) /\ t.start = ScanStart(t)
      BY <1>5, <3>4 DEF ScanStart, P, L
    <3>6. QED
      BY <1>1, <1>5, <1>7, <2>1, <3>5 DEF Within
  <2>2. CASE ~(Len(s.kept) >= 2)
    BY <1>1, <1>5, <1>7, <2>2 DEF Within
  <2>3. QED
    BY <2>1, <2>2
<1>9. SearchesWithin(u, units)
  BY <1>2, <1>6, <1>7 DEF SearchesWithin, Within
<1> QED
  BY <1>8, <1>9 DEF t, u

LEMMA ScannedWithin ==
    ASSUME NEW s, NEW units, IsList(units), SearchesWithin(s, units), s.phase = "scan",
           NEW reproduced \in BOOLEAN
    PROVE  SearchesWithin(Scanned(s, reproduced), units)
<1> DEFINE length == Len(s.kept)
           candidate == SearchCandidate(s)
           end == SearchEnd(s)
           shorter == [s EXCEPT !.kept = candidate, !.granularity = Larger(2, @ - 1)]
           moved == [s EXCEPT !.part = @ + 1, !.start = end]
           ended == [s EXCEPT !.phase = "linear"]
           finer == [s EXCEPT !.granularity = Smaller(length, @ * 2)]
           after == CASE reproduced -> AtScan(shorter)
                      [] ~reproduced /\ s.part + 1 < SearchParts(s) -> moved
                      [] OTHER -> IF s.granularity >= length THEN ended ELSE AtScan(finer)
<1>1. Scanned(s, reproduced) = IF after.phase = "linear" THEN AtLinear(after) ELSE after
  BY DEF Scanned
<1>2. /\ IsSearch(s) /\ Within(s, units) /\ length \in Nat /\ length >= 2
      /\ s.granularity \in Nat /\ s.granularity >= 2 /\ s.part \in Nat
  BY ListIs DEF SearchesWithin, Within
<1>3. IsList(candidate) /\ Range(candidate) \subseteq Range(units)
  BY CandidateWithin
<1>4. end \in Nat /\ end = (s.part + 1) * (length \div SearchParts(s))
                              + Smaller(s.part + 1, length % SearchParts(s))
  BY <1>2, PartWithin
<1> HIDE DEF candidate, end, length
\* What is left of the units is scanned anew, from no part.
<1>5. CASE reproduced
  <2>1. PICK g \in Nat : g = Larger(2, s.granularity - 1) /\ g >= 2
    BY <1>2 DEF Larger
  <2>2. shorter = [s EXCEPT !.kept = candidate, !.granularity = g]
    BY <2>1
  <2> DEFINE anew == [shorter EXCEPT !.phase = "linear"]
  <2> HIDE DEF shorter
  <2>3. /\ IsSearch(shorter) /\ shorter.units = units /\ shorter.kept = candidate
        /\ shorter.granularity = g /\ shorter.index = s.index
    BY <1>2, <2>2 DEF Within, IsSearch
  <2>4. Within(anew, units)
    BY <1>2, <1>3, <2>1, <2>3 DEF Within, IsSearch
  <2>5. AtScan(shorter) = AtScan(anew)
    BY <2>3 DEF AtScan, IsSearch
  <2>6. Within(AtScan(anew), units)
    BY <2>4, HeadWithin
  <2>7. after = AtScan(anew)
    BY <1>5, <2>5
  <2> HIDE DEF after, anew
  <2>8. Within(after, units)
    BY <2>6, <2>7
  <2>9. QED
    BY <1>1, <2>8, HeadWithin DEF SearchesWithin
<1>6. CASE ~reproduced /\ s.part + 1 < SearchParts(s)
  <2>1. /\ IsSearch(moved) /\ moved.part = s.part + 1 /\ moved.start = end
        /\ moved.phase = "scan" /\ moved.kept = s.kept /\ moved.units = s.units
        /\ moved.granularity = s.granularity /\ moved.index = s.index
    <3>1. PICK n : moved = [s EXCEPT !.part = n, !.start = end] /\ n = s.part + 1
      OBVIOUS
    <3> HIDE DEF moved
    <3>2. QED
      BY <1>2, <3>1 DEF IsSearch
  <2>2. after = moved
    BY <1>6
  <2> HIDE DEF after, moved
  <2>3. SearchParts(moved) = SearchParts(s) /\ moved.start = ScanStart(moved)
    BY <1>4, <2>1 DEF ScanStart, SearchParts, length
  <2>4. SearchesWithin(moved, units)
    BY <1>2, <1>6, <2>1, <2>3 DEF SearchesWithin, Within
  <2>5. QED
    BY <1>1, <2>1, <2>2, <2>4
<1>7. CASE ~reproduced /\ ~(s.part + 1 < SearchParts(s))
  <2>1. Within(ended, units)
    BY <1>2 DEF Within, IsSearch
  <2>2. Within(AtScan(finer), units)
    <3>1. PICK g \in Nat : g = Smaller(length, s.granularity * 2) /\ g >= 2
      BY <1>2 DEF Smaller
    <3>2. finer = [s EXCEPT !.granularity = g]
      BY <3>1
    <3> DEFINE anew == [finer EXCEPT !.phase = "linear"]
    <3> HIDE DEF finer
    <3>3. IsSearch(finer) /\ finer.units = units /\ finer.kept = s.kept
          /\ finer.granularity = g /\ finer.index = s.index
      BY <1>2, <3>2 DEF Within, IsSearch
    <3>4. Within(anew, units)
      BY <1>2, <3>1, <3>3 DEF Within, IsSearch
    <3>5. AtScan(finer) = AtScan(anew)
      BY <3>3 DEF AtScan, IsSearch
    <3>6. QED
      BY <3>4, <3>5, HeadWithin
  <2>4. after = IF s.granularity >= length THEN ended ELSE AtScan(finer)
    BY <1>7
  <2> HIDE DEF after, ended, finer
  <2>5. Within(after, units)
    BY <2>1, <2>2, <2>4
  <2>6. QED
    BY <1>1, <2>5, HeadWithin DEF SearchesWithin
<1> QED
  BY <1>5, <1>6, <1>7

LEMMA AdvanceWithin ==
    ASSUME NEW s, NEW units, IsList(units), SearchesWithin(s, units),
           s.phase \in {"initial", "scan", "linear"}, NEW reproduced \in BOOLEAN
    PROVE  SearchesWithin(Advance(s, reproduced), units)
<1>1. CASE s.phase = "initial"
  <2>1. Advance(s, reproduced) = Begun(s, reproduced)
    BY <1>1 DEF Advance
  <2>2. CASE ~reproduced
    BY <2>1, <2>2 DEF Begun, SearchesWithin, Within, IsSearch
  <2>3. CASE reproduced /\ Len(s.kept) >= 2
    <3>1. Advance(s, reproduced) = AtScan(s) /\ AtScan(s).phase = "scan"
      BY <2>1, <2>3 DEF Begun, AtScan, SearchesWithin, Within, IsSearch
    <3>2. Within(AtScan(s), units)
      BY HeadWithin DEF SearchesWithin
    <3>3. QED
      BY <3>1, <3>2 DEF SearchesWithin
  <2>4. CASE reproduced /\ ~(Len(s.kept) >= 2)
    BY <2>1, <2>4, HeadWithin DEF Begun, SearchesWithin
  <2>5. QED
    BY <2>2, <2>3, <2>4
<1>2. CASE s.phase = "scan"
  BY <1>2, ScannedWithin DEF Advance
<1>3. CASE s.phase = "linear"
  <2> DEFINE candidate == SearchCandidate(s)
             shorter == [s EXCEPT !.kept = candidate]
             further == [s EXCEPT !.index = @ + 1]
  <2>1. Advance(s, reproduced) = AtLinear(IF reproduced THEN shorter ELSE further)
    BY <1>3 DEF Advance, LinearlyTried
  <2>2. IsList(candidate) /\ Range(candidate) \subseteq Range(units)
    BY CandidateWithin
  <2> HIDE DEF candidate
  <2>3. Within(shorter, units)
    BY <1>3, <2>2 DEF SearchesWithin, Within, IsSearch
  <2>4. Within(further, units)
    BY <1>3 DEF SearchesWithin, Within, IsSearch
  <2> HIDE DEF shorter, further
  <2>5. QED
    BY <2>1, <2>3, <2>4, HeadWithin
<1> QED
  BY <1>1, <1>2, <1>3

-------------------------------------------------------------------------------
(* The levels.                                                               *)

\* What is left to try is there to be tried, and a JSON level has had every
\* path that is not left refused.
LevelStands ==
    /\ IsList(todo)
    /\ todo # <<>> => level \in 1..10
    /\ \A t \in Range(todo) : IsTarget(current, Name, t)
    /\ search # NoSearch => SearchesWithin(search, Units(current, Name, Head(todo)))
    /\ level > 0 /\ Name \in JsonLevels =>
           \A p \in Range(Targets(current, Name)) :
               p \in Range(todo) \/ Refused(DeletePath(current, Name, p))

LevelsInv ==
    /\ IsCapsule(current)
    /\ level \in 0..10
    /\ phase = "initial" => todo = <<>> /\ level = 0
    /\ phase = "levels" => LevelStands

LEMMA RefusedRemains ==
    ASSUME NEW c, Refused(c), Remains
    PROVE  Valid(c) => c \in DOMAIN answered' /\ (Cached(c) # "reproduces")'
  BY DEF Refused, Remains, Cached

LEMMA EvaluateRefuses ==
    ASSUME NEW c, NEW r, Evaluate(c, r), r # "reproduces", timedOut \subseteq DOMAIN answered
    PROVE  Valid(c) => c \in DOMAIN answered' /\ (Cached(c) # "reproduces")'
<1> SUFFICES ASSUME Valid(c) PROVE c \in DOMAIN answered' /\ (Cached(c) # "reproduces")'
  OBVIOUS
<1>1. CASE c \in DOMAIN answered
  BY <1>1 DEF Evaluate, Cached, asked
<1>2. CASE c \notin DOMAIN answered
  <2>1. Run(c) /\ \/ r = answered'[c] /\ timedOut' = timedOut
                  \/ timedOut' = timedOut \union {c}
    BY <1>2 DEF Evaluate
  <2>2. c \in DOMAIN answered' /\ c \notin timedOut
    BY <1>2, <2>1 DEF Run
  <2>3. QED
    BY <2>1, <2>2 DEF Cached
<1> QED
  BY <1>1, <1>2

LEMMA CurrentHasUniqueIds ==
    ASSUME HoldingInv, IsCapsule(current), phase \notin {"initial", "raised"}
    PROVE  UniqueIds(current)
  BY ValidHasUniqueIds DEF HoldingInv, CurrentIsHeld, Held

LEMMA LevelName ==
    ASSUME level \in 1..10
    PROVE  Name \in Levels /\ (Name \in JsonLevels \/ Name \in BulkLevels)
  BY LevelsAre DEF Name, BulkLevels

LEMMA InitLevels == Init => LevelsInv
<1> SUFFICES ASSUME Init PROVE LevelsInv
  OBVIOUS
<1>1. IsCapsule(Source)
  BY CasesAssumption DEF Init, Source
<1> QED
  BY <1>1 DEF Init, LevelsInv

LEMMA NextLevelStands ==
    ASSUME HoldingInv, LevelsInv, NextLevel PROVE LevelsInv'
<1>1. /\ phase = "levels" /\ todo = <<>> /\ IsCapsule(current) /\ level \in 0..10
      /\ current' = current /\ search' = search
  BY DEF NextLevel, LevelsInv
<1>2. CASE level < Len(LevelOrder)
  <2>1. level' = level + 1 /\ todo' = Targets(current, LevelOrder[level + 1]) /\ phase' = phase
    BY <1>2 DEF NextLevel
  <2>2. level' \in 1..10 /\ Name' = LevelOrder[level'] /\ Name' \in Levels
    BY <1>1, <1>2, <2>1, LevelsAre DEF Name
  <2>3. PICK name \in Levels : name = Name'
    BY <2>2
  <2>4. todo' = Targets(current, name)
    BY <2>1, <2>2, <2>3
  <2>5. IsList(todo') /\ \A t \in Range(todo') : IsTarget(current, name, t)
    BY <1>1, <2>4, TargetsList, CurrentHasUniqueIds
  <2>6. search' = NoSearch
    BY <1>1 DEF HoldingInv, SearchStands, InBulk
  <2>7. LevelStands'
    BY <1>1, <2>2, <2>3, <2>4, <2>5, <2>6 DEF LevelStands, NoSearch
  <2>8. QED
    BY <1>1, <2>1, <2>2, <2>7 DEF LevelsInv
<1>3. CASE ~(level < Len(LevelOrder))
  BY <1>1, <1>3 DEF NextLevel, LevelsInv
<1> QED
  BY <1>2, <1>3

LEMMA AcceptPathStands ==
    ASSUME HoldingInv, HoldingInv', LevelsInv, AcceptPath PROVE LevelsInv'
<1>1. /\ phase = "levels" /\ phase' = phase /\ level' = level /\ search' = search
      /\ todo # <<>> /\ Name \in JsonLevels
      /\ current' = DeletePath(current, Name, Head(todo)) /\ todo' = Targets(current', Name)
  BY DEF AcceptPath, InJson
<1>2. IsCapsule(current) /\ level \in 1..10 /\ IsTarget(current, Name, Head(todo))
  BY <1>1, TailOfList DEF LevelsInv, LevelStands
<1>3. IsCapsule(current')
  BY <1>1, <1>2, DeletedPath
<1>4. UniqueIds(current')
  <2>1. Valid(current')
    BY <1>1 DEF HoldingInv, CurrentIsHeld, Held
  <2>2. QED
    BY <1>3, <2>1, ValidHasUniqueIds
<1>5. IsList(todo') /\ \A t \in Range(todo') : IsTarget(current', Name, t)
  BY <1>1, <1>2, <1>3, <1>4, TargetsList, LevelName
<1>6. Name' = Name /\ search' = NoSearch
  BY <1>1 DEF Name, HoldingInv, SearchStands, InBulk
<1>7. LevelStands'
  BY <1>1, <1>2, <1>5, <1>6 DEF LevelStands, NoSearch
<1> QED
  BY <1>1, <1>2, <1>3, <1>7 DEF LevelsInv

LEMMA RejectPathStands ==
    ASSUME HoldingInv, LevelsInv, RejectPath PROVE LevelsInv'
<1>1. /\ phase = "levels" /\ phase' = phase /\ level' = level /\ search' = search
      /\ todo # <<>> /\ Name \in JsonLevels /\ current' = current /\ todo' = Tail(todo)
  BY DEF RejectPath, InJson
<1>2. PICK candidate : candidate = DeletePath(current, Name, Head(todo))
  OBVIOUS
<1>3. PICK r : Evaluate(candidate, r) /\ r # "reproduces"
  BY <1>2 DEF RejectPath
<1>4. timedOut \subseteq DOMAIN answered /\ LevelStands /\ level \in 1..10
  BY <1>1 DEF HoldingInv, LevelsInv, LevelStands
<1>5. IsList(todo') /\ Range(todo') \subseteq Range(todo)
      /\ \A t \in Range(todo) : t = Head(todo) \/ t \in Range(todo')
  BY <1>1, <1>4, TailOfList DEF LevelStands
<1>6. Remains /\ Refused(candidate)'
  BY <1>3, <1>4, EvaluateRemains, EvaluateRefuses DEF Refused
<1>7. Name' = Name /\ search' = NoSearch
  BY <1>1 DEF Name, HoldingInv, SearchStands, InBulk
<1>8. ASSUME NEW p \in Range(Targets(current, Name)), p \notin Range(todo')
      PROVE  Refused(DeletePath(current, Name, p))'
  <2>1. PICK c : c = DeletePath(current, Name, p)
    OBVIOUS
  <2>2. Refused(c)'
    <3>1. CASE p = Head(todo)
      BY <1>2, <1>6, <2>1, <3>1
    <3>2. CASE p # Head(todo)
      <4>1. Refused(c)
        BY <1>1, <1>4, <1>5, <1>8, <2>1, <3>2 DEF LevelStands
      <4>2. QED
        BY <1>6, <4>1, RefusedRemains DEF Refused
    <3>3. QED
      BY <3>1, <3>2
  <2>3. c = DeletePath(current, Name, p)'
    BY <1>1, <1>7, <2>1
  <2>4. QED
    BY <2>2, <2>3
<1>9. LevelStands'
  BY <1>1, <1>4, <1>5, <1>7, <1>8 DEF LevelStands, NoSearch
<1> QED
  BY <1>1, <1>4, <1>9 DEF LevelsInv

LEMMA BeginSearchStands ==
    ASSUME HoldingInv, LevelsInv, BeginSearch PROVE LevelsInv'
<1> DEFINE units == Units(current, Name, Head(todo))
<1>1. /\ phase = "levels" /\ phase' = phase /\ level' = level /\ todo # <<>>
      /\ Name \notin JsonLevels /\ search = NoSearch /\ current' = current
      /\ IF units = <<>> THEN todo' = Tail(todo) /\ search' = search
                         ELSE search' = SearchOver(units) /\ todo' = todo
  BY DEF BeginSearch, InBulk
<1>2. LevelStands /\ level \in 1..10 /\ IsCapsule(current)
  BY <1>1 DEF LevelsInv, LevelStands
<1>3. /\ IsTarget(current, Name, Head(todo)) /\ IsList(Tail(todo))
      /\ Range(Tail(todo)) \subseteq Range(todo)
  BY <1>1, <1>2, TailOfList DEF LevelStands
<1>4. Name' = Name
  BY <1>1 DEF Name
<1>5. CASE units = <<>>
  BY <1>1, <1>2, <1>3, <1>4, <1>5 DEF LevelsInv, LevelStands
<1>6. CASE units # <<>>
  <2>1. IsList(units)
    BY <1>1, <1>2, <1>3, LevelName, UnitsList
  <2>2. SearchesWithin(search', units)
    BY <1>1, <1>6, <2>1, BegunWithin
  <2>3. units = Units(current, Name, Head(todo))'
    BY <1>1, <1>4, <1>6
  <2> HIDE DEF units
  <2>4. LevelStands'
    BY <1>1, <1>2, <1>4, <1>6, <2>2, <2>3 DEF LevelStands
  <2>5. QED
    BY <1>1, <1>2, <2>4 DEF LevelsInv
<1> QED
  BY <1>5, <1>6

LEMMA SearchStepStands ==
    ASSUME HoldingInv, LevelsInv, SearchStep PROVE LevelsInv'
<1> DEFINE units == Units(current, Name, Head(todo))
<1>1. /\ phase = "levels" /\ phase' = phase /\ level' = level /\ todo' = todo /\ todo # <<>>
      /\ Name \notin JsonLevels /\ current' = current
      /\ search.phase \in {"initial", "scan", "linear"}
  BY DEF SearchStep, Searching, InBulk
<1>2. LevelStands /\ level \in 1..10 /\ IsCapsule(current)
  BY <1>1 DEF LevelsInv, LevelStands
<1>3. IsTarget(current, Name, Head(todo))
  BY <1>1, <1>2, TailOfList DEF LevelStands
<1>4. IsList(units)
  BY <1>1, <1>2, <1>3, LevelName, UnitsList
<1>5. SearchesWithin(search, units)
  BY <1>1, <1>2 DEF LevelStands, NoSearch
<1>6. PICK r : search' = Advance(search, r = "reproduces")
  BY DEF SearchStep
<1>7. PICK reproduced \in BOOLEAN : reproduced <=> r = "reproduces"
  OBVIOUS
<1>8. search' = Advance(search, reproduced)
  BY <1>6, <1>7
<1>9. SearchesWithin(search', units)
  <2> HIDE DEF units
  <2>1. SearchesWithin(Advance(search, reproduced), units)
    BY <1>1, <1>4, <1>5, AdvanceWithin
  <2>2. QED
    BY <1>8, <2>1
<1>10. Name' = Name
  BY <1>1 DEF Name
<1>11. units = Units(current, Name, Head(todo))'
  BY <1>1, <1>10
<1> HIDE DEF units
<1>12. LevelStands'
  BY <1>1, <1>2, <1>9, <1>10, <1>11 DEF LevelStands
<1> QED
  BY <1>1, <1>2, <1>12 DEF LevelsInv

LEMMA EndSearchStands ==
    ASSUME HoldingInv, HoldingInv', LevelsInv, EndSearch PROVE LevelsInv'
<1> DEFINE target == Head(todo)
           units == Units(current, Name, target)
<1>1. /\ phase = "levels" /\ phase' = phase /\ level' = level /\ todo # <<>>
      /\ Name \notin JsonLevels /\ search.phase = "done" /\ search' = NoSearch
      /\ current' = Result
      /\ todo' = IF Name = "text_chunks" /\ search.kept # search.units
                 THEN TextAfter(Result, target) ELSE Tail(todo)
  BY DEF EndSearch, InBulk
<1>2. LevelStands /\ level \in 1..10 /\ IsCapsule(current)
  BY <1>1 DEF LevelsInv, LevelStands
<1>3. /\ IsTarget(current, Name, target) /\ IsList(Tail(todo))
      /\ Range(Tail(todo)) \subseteq Range(todo)
  BY <1>1, <1>2, TailOfList DEF LevelStands
<1>4. SearchesWithin(search, units)
  BY <1>1, <1>2 DEF LevelStands, NoSearch
<1>5. /\ search.units = units /\ IsList(search.kept)
      /\ Range(search.kept) \subseteq Range(units)
  BY <1>4 DEF SearchesWithin, Within
<1>6. Name \in BulkLevels
  BY <1>1, <1>2, LevelName
<1>7. current' = Build(current, Name, target, units, search.kept)
  BY <1>1, <1>5 DEF Result
<1>8. IsCapsule(current') /\ (Name = "file_chunks" => DOMAIN current'.workspace = DOMAIN current.workspace)
  BY <1>2, <1>3, <1>5, <1>6, <1>7, BuiltCapsule
<1>9. UniqueIds(current) /\ UniqueIds(current')
  <2>1. Valid(current')
    BY <1>1 DEF HoldingInv, CurrentIsHeld, Held
  <2>2. QED
    BY <1>1, <1>2, <1>8, <2>1, ValidHasUniqueIds, CurrentHasUniqueIds
<1>10. Name' = Name
  BY <1>1 DEF Name
<1>11. IsList(todo') /\ \A t \in Range(todo') : IsTarget(current', Name, t)
  <2>1. CASE Name = "text_chunks" /\ search.kept # search.units
    <3>1. todo' = TextAfter(current', target)
      BY <1>1, <2>1
    <3>2. QED
      BY <1>8, <1>9, <2>1, <3>1, TextAfterList
  <2>2. CASE Name = "text_chunks" /\ search.kept = search.units
    <3>1. Units(current, Name, target) = AtomsOf(current, target) /\ HasKey(current, target)
      BY <1>2, <1>3, <1>6, <2>2, UnitsList DEF IsTarget
    <3>2. current' = ReplaceAtoms(current, target.id, target.key, AtomsOf(current, target))
      BY <1>5, <1>7, <2>2, <3>1 DEF Build, EventLevels
    <3>3. current' = current
      BY <1>2, <1>9, <3>1, <3>2, SameAtoms
    <3>4. QED
      BY <1>1, <1>2, <1>3, <2>2, <3>3 DEF LevelStands
  <2>3. CASE Name # "text_chunks"
    <3>1. todo' = Tail(todo)
      BY <1>1, <2>3
    <3>2. \A t \in Range(todo') : IsTarget(current, Name, t)
      BY <1>2, <1>3, <3>1 DEF LevelStands
    <3>3. QED
      BY <1>1, <1>3, <1>8, <2>3, <3>1, <3>2 DEF IsTarget, JsonLevels
  <2>4. QED
    BY <2>1, <2>2, <2>3
<1>12. LevelStands'
  BY <1>1, <1>2, <1>10, <1>11 DEF LevelStands
<1> QED
  BY <1>1, <1>2, <1>8, <1>12 DEF LevelsInv

LEMMA LevelsStep == HoldingInv /\ LevelsInv /\ [Next]_vars => LevelsInv'
<1> SUFFICES ASSUME HoldingInv, LevelsInv, [Next]_vars PROVE LevelsInv'
  OBVIOUS
<1>0. HoldingInv'
  BY HoldingStep
<1>1. CASE CheckSource
  <2>1. /\ phase = "initial" /\ todo = <<>> /\ level = 0 /\ search = NoSearch
        /\ UNCHANGED <<level, todo, search, current>> /\ phase' \in {"levels", "raised"}
    BY <1>1 DEF CheckSource, LevelsInv, HoldingInv, SearchStands
  <2>2. LevelStands'
    BY <2>1, EmptyList DEF LevelStands, NoSearch
  <2>3. QED
    BY <2>1, <2>2 DEF LevelsInv
<1>2. CASE FinalEvaluation \/ VerifyDeletion \/ VerificationFails \/ AcceptResult \/ SearchRaises
  <2>1. UNCHANGED <<level, current>> /\ phase' \notin {"initial", "levels"}
    BY <1>2 DEF FinalEvaluation, VerifyDeletion, VerificationFails, AcceptResult, SearchRaises
  <2>2. QED
    BY <2>1 DEF LevelsInv
<1>3. CASE UNCHANGED vars
  BY <1>3 DEF vars, asked, LevelsInv, LevelStands, Name, Refused, Cached
<1> QED
  BY <1>0, <1>1, <1>2, <1>3, NextLevelStands, AcceptPathStands, RejectPathStands,
     BeginSearchStands, SearchStepStands, EndSearchStands DEF Next, Step

-------------------------------------------------------------------------------
(* The verifier's units.                                                     *)

LEMMA TaggedList ==
    ASSUME NEW kind, NEW paths, IsList(paths)
    PROVE  IsList([i \in DOMAIN paths |-> [unit |-> kind, path |-> paths[i]]])
  BY ListIs, ListFrom

LEMMA AtomsOfTexts ==
    ASSUME NEW c, IsCapsule(c), UniqueIds(c)
    PROVE  IsList(FlattenSeq([i \in DOMAIN TextPaths(c) |-> AtomPaths(c, TextPaths(c)[i])]))
<1> DEFINE texts == TextPaths(c)
           P == AtomPathsOf(c)
           K == KeyPaths(c)
<1>1. IsList(texts) /\ Range(texts) \subseteq K
  BY TextPathsList
<1>2. \A p \in K : AtomPaths(c, p) \in Seq(P)
  BY AtomPathsList
<1> HIDE DEF texts, P, K
<1>3. Len(texts) \in Nat /\ DOMAIN texts = 1..Len(texts) /\ \A i \in 1..Len(texts) : texts[i] \in K
  BY <1>1, ListIs
<1>4. \A i \in 1..Len(texts) : AtomPaths(c, texts[i]) \in Seq(P)
  BY <1>2, <1>3
<1>5. [i \in DOMAIN texts |-> AtomPaths(c, texts[i])] \in Seq(Seq(P))
  BY <1>3, <1>4
<1> QED
  BY <1>5, FlattenOfLists, ListOf DEF texts

LEMMA ChunksOfFiles ==
    ASSUME NEW c, IsCapsule(c), NEW files, IsList(files), Range(files) \subseteq DOMAIN c.workspace
    PROVE  IsList(FlattenSeq([i \in DOMAIN files |->
                      [j \in DOMAIN c.workspace[files[i]] |-> [file |-> files[i], at |-> j]]]))
<1> DEFINE chunks(f) == [j \in DOMAIN c.workspace[f] |-> [file |-> f, at |-> j]]
           P == UNION {{[file |-> f, at |-> j] : j \in DOMAIN c.workspace[f]} : f \in DOMAIN c.workspace}
           all == [i \in DOMAIN files |-> chunks(files[i])]
<1>1. ASSUME NEW f \in DOMAIN c.workspace PROVE chunks(f) \in Seq(P)
  <2>1. Len(c.workspace[f]) \in Nat /\ DOMAIN c.workspace[f] = 1..Len(c.workspace[f])
    BY ListIs DEF IsCapsule
  <2>2. \A j \in DOMAIN c.workspace[f] : [file |-> f, at |-> j] \in P
    OBVIOUS
  <2> HIDE DEF P
  <2>3. QED
    BY <2>1, <2>2
<1>2. /\ Len(files) \in Nat /\ DOMAIN files = 1..Len(files)
      /\ \A i \in 1..Len(files) : files[i] \in DOMAIN c.workspace
  BY ListIs
<1> HIDE DEF P
<1>3. \A i \in 1..Len(files) : chunks(files[i]) \in Seq(P)
  BY <1>1, <1>2
<1> HIDE DEF chunks
<1>4. all \in Seq(Seq(P))
  BY <1>2, <1>3
<1>5. IsList(FlattenSeq(all))
  BY <1>4, FlattenOfLists, ListOf
<1> QED
  BY <1>5 DEF chunks

LEMMA VerifierUnitsList ==
    ASSUME NEW c, IsCapsule(c), UniqueIds(c)
    PROVE  IsList(VerifierUnits(c))
<1> DEFINE events == Among(c.events, {e \in Range(c.events) : e.kind # "run"})
           texts == TextPaths(c)
           files == SetToSeq(DOMAIN c.workspace)
           entries == SetToSeq(c.environment)
           atoms == FlattenSeq([i \in DOMAIN texts |-> AtomPaths(c, texts[i])])
           chunks == FlattenSeq([i \in DOMAIN files |->
                         [j \in DOMAIN c.workspace[files[i]] |-> [file |-> files[i], at |-> j]]])
           tagged(kind, paths) == [i \in DOMAIN paths |-> [unit |-> kind, path |-> paths[i]]]
<1>1. VerifierUnits(c) = tagged("event", events)
                         \o tagged("json_field", FieldPaths(c))
                         \o tagged("json_item", ItemPaths(c))
                         \o tagged("text_chunk", atoms)
                         \o tagged("file", files)
                         \o tagged("file_chunk", chunks)
                         \o tagged("environment", entries)
  BY DEF VerifierUnits
<1>2. IsList(events)
  BY AmongOfList DEF IsCapsule
<1>3. IsList(FieldPaths(c)) /\ IsList(ItemPaths(c))
  BY FieldPathsList, ItemPathsList, ListOf
<1>4. IsList(atoms)
  BY AtomsOfTexts
<1>5. IsList(files) /\ Range(files) \subseteq DOMAIN c.workspace /\ IsList(entries)
  BY SetInOrder DEF IsCapsule
<1>6. IsList(chunks)
  BY <1>5, ChunksOfFiles
<1> HIDE DEF events, texts, files, entries, atoms, chunks
<1>7. /\ IsList(tagged("event", events)) /\ IsList(tagged("json_field", FieldPaths(c)))
      /\ IsList(tagged("json_item", ItemPaths(c))) /\ IsList(tagged("text_chunk", atoms))
      /\ IsList(tagged("file", files)) /\ IsList(tagged("file_chunk", chunks))
      /\ IsList(tagged("environment", entries))
  BY <1>2, <1>3, <1>4, <1>5, <1>6, TaggedList
<1> HIDE DEF tagged
<1> QED
  BY <1>1, <1>7, ConcatOfLists

-------------------------------------------------------------------------------
(* The verdict.                                                              *)

\* A deletion that was tried: it does not validate, or has an answer, and what
\* reproduces was noticed or ran out of time.
Settled(u) ==
    Valid(Deleted(current, u)) =>
        /\ Deleted(current, u) \in DOMAIN answered
        /\ answered[Deleted(current, u)] = "reproduces" => u \in reproducing \union unheard

StillReproduces(u) ==
    /\ Valid(Deleted(current, u))
    /\ Deleted(current, u) \in DOMAIN answered
    /\ answered[Deleted(current, u)] = "reproduces"

VerifierStands ==
    /\ IsList(todo) /\ Range(todo) \subseteq Range(VerifierUnits(current))
    /\ \A u \in Range(VerifierUnits(current)) : u \in Range(todo) \/ Settled(u)
    /\ \A u \in reproducing : u \in Range(VerifierUnits(current)) /\ StillReproduces(u)

VerdictInv ==
    /\ given.predicate # "fickle" => unheard = {}
    /\ phase \in {"initial", "levels", "final"} => reproducing = {}
    /\ phase \in {"verifying", "accepted", "refused"} => VerifierStands
    /\ phase = "accepted" => todo = <<>> /\ reproducing = {}
    /\ phase = "refused" => reproducing # {}

LEMMA SettledRemains ==
    ASSUME NEW u, Remains, UNCHANGED current,
           reproducing \subseteq reproducing', unheard \subseteq unheard'
    PROVE  (Settled(u) => Settled(u)') /\ (StillReproduces(u) => StillReproduces(u)')
<1>1. PICK c : c = Deleted(current, u)
  OBVIOUS
<1>2. c = Deleted(current, u)'
  BY <1>1
<1>3. Settled(u)' <=> (Valid(c) => /\ c \in DOMAIN answered'
                                   /\ answered'[c] = "reproduces" => u \in reproducing' \union unheard')
  BY <1>2 DEF Settled
<1>4. StillReproduces(u)' <=> Valid(c) /\ c \in DOMAIN answered' /\ answered'[c] = "reproduces"
  BY <1>2 DEF StillReproduces
<1>5. Settled(u) => Settled(u)'
  BY <1>1, <1>3 DEF Settled, Remains
<1>6. StillReproduces(u) => StillReproduces(u)'
  BY <1>1, <1>4 DEF StillReproduces, Remains
<1> QED
  BY <1>5, <1>6

LEMMA VerifyDeletionStands ==
    ASSUME HoldingInv, VerdictInv, VerifyDeletion, UNCHANGED given PROVE VerdictInv'
<1>1. /\ phase = "verifying" /\ phase' = phase /\ current' = current
      /\ todo # <<>> /\ todo' = Tail(todo)
  BY DEF VerifyDeletion
<1>2. PICK u : u = Head(todo)
  OBVIOUS
<1>3. PICK c : c = Deleted(current, u)
  OBVIOUS
<1>4. \/ ~Valid(c) /\ UNCHANGED <<asked, reproducing>>
      \/ /\ Valid(c) /\ Run(c) /\ timedOut' = timedOut
         /\ \/ /\ reproducing' = reproducing \union
                                  (IF answered'[c] = "reproduces" THEN {u} ELSE {})
               /\ unheard' = unheard
            \/ MayTimeOut /\ unheard' = unheard \union {u} /\ reproducing' = reproducing
  BY <1>2, <1>3 DEF VerifyDeletion
<1>5. Remains
  BY <1>4, RunRemains DEF Remains, asked
<1>6. reproducing \subseteq reproducing' /\ unheard \subseteq unheard'
  BY <1>4 DEF asked
<1>7. c = Deleted(current, u)'
  BY <1>1, <1>3
<1>8. Settled(u)'
  <2>1. Valid(c) => /\ c \in DOMAIN answered'
                    /\ answered'[c] = "reproduces" => u \in reproducing' \union unheard'
    BY <1>4, RunRemains
  <2>2. QED
    BY <1>7, <2>1 DEF Settled
<1>9. \A v \in reproducing' : v \in reproducing \/ (v = u /\ StillReproduces(u)')
  <2> SUFFICES ASSUME NEW v \in reproducing', v \notin reproducing
               PROVE  v = u /\ StillReproduces(u)'
    OBVIOUS
  <2>1. Valid(c) /\ Run(c) /\ timedOut' = timedOut /\ answered'[c] = "reproduces" /\ v = u
    BY <1>4
  <2>2. c \in DOMAIN answered'
    BY <2>1, RunRemains
  <2>3. QED
    BY <1>7, <2>1, <2>2 DEF StillReproduces
<1>10. VerifierStands
  BY <1>1 DEF VerdictInv
<1>11. /\ u \in Range(todo) /\ IsList(todo') /\ Range(todo') \subseteq Range(todo)
       /\ \A v \in Range(todo) : v = u \/ v \in Range(todo')
  BY <1>1, <1>2, <1>10, TailOfList DEF VerifierStands
<1>12. VerifierStands'
  <2> DEFINE units == Range(VerifierUnits(current))
  <2>1. units' = units
    BY <1>1
  <2> HIDE DEF units
  <2>2. Range(todo') \subseteq units
    BY <1>10, <1>11 DEF VerifierStands, units
  <2>3. \A v \in units : v \in Range(todo') \/ Settled(v)'
    BY <1>1, <1>5, <1>6, <1>8, <1>10, <1>11, SettledRemains DEF VerifierStands, units
  <2>4. \A v \in reproducing' : v \in units /\ StillReproduces(v)'
    BY <1>1, <1>5, <1>6, <1>9, <1>10, <1>11, SettledRemains DEF VerifierStands, units
  <2>5. QED
    BY <1>11, <2>1, <2>2, <2>3, <2>4 DEF VerifierStands, units
<1>13. given.predicate # "fickle" => unheard' = {}
  BY <1>4 DEF VerdictInv, MayTimeOut, asked
<1> QED
  BY <1>1, <1>12, <1>13 DEF VerdictInv

LEMMA InitVerdict == Init => VerdictInv
  BY DEF Init, VerdictInv

LEMMA VerdictStep == HoldingInv /\ LevelsInv /\ VerdictInv /\ [Next]_vars => VerdictInv'
<1> SUFFICES ASSUME HoldingInv, LevelsInv, VerdictInv, [Next]_vars PROVE VerdictInv'
  OBVIOUS
<1>0. given' = given
  BY DEF Next, vars
<1>1. CASE CheckSource \/ NextLevel \/ AcceptPath \/ RejectPath \/ BeginSearch \/ SearchStep
           \/ SearchRaises \/ EndSearch
  <2>1. /\ reproducing' = reproducing /\ phase \in {"initial", "levels"}
        /\ phase' \in {"levels", "final", "raised"}
    BY <1>1 DEF CheckSource, NextLevel, AcceptPath, RejectPath, BeginSearch, SearchStep,
       SearchRaises, EndSearch, InJson, InBulk, Searching
  <2>2. unheard' = unheard
    BY <1>1 DEF CheckSource, NextLevel, AcceptPath, RejectPath, BeginSearch, SearchStep,
       SearchRaises, EndSearch, Evaluate, asked
  <2>3. QED
    BY <1>0, <2>1, <2>2 DEF VerdictInv
<1>2. CASE FinalEvaluation
  <2>1. /\ phase = "final" /\ phase' \in {"verifying", "lost", "raised"} /\ current' = current
        /\ reproducing' = reproducing /\ unheard' = unheard /\ todo' = VerifierUnits(current)
    BY <1>2 DEF FinalEvaluation, Evaluate, asked
  <2>2. IsList(VerifierUnits(current))
    BY <2>1, VerifierUnitsList, CurrentHasUniqueIds DEF LevelsInv
  <2>3. VerifierStands'
    BY <2>1, <2>2 DEF VerifierStands, VerdictInv
  <2>4. QED
    BY <1>0, <2>1, <2>3 DEF VerdictInv
<1>3. CASE VerifyDeletion
  BY <1>0, <1>3, VerifyDeletionStands
<1>4. CASE VerificationFails \/ AcceptResult \/ UNCHANGED vars
  <2>1. /\ UNCHANGED <<todo, current, answered, timedOut, unheard, reproducing>>
    BY <1>4 DEF VerificationFails, AcceptResult, vars, asked
  <2>2. VerifierStands' <=> VerifierStands
    BY <2>1 DEF VerifierStands, Settled, StillReproduces
  <2>3. QED
    BY <1>0, <1>4, <2>1, <2>2 DEF VerificationFails, AcceptResult, vars, VerdictInv
<1> QED
  BY <1>1, <1>2, <1>3, <1>4 DEF Next, Step

\* The verdict of `reprosieve reduce' is true.  An accepted capsule is 1-minimal:
\* every deletion that verify_one_minimal knows gives a capsule that does not
\* validate or that the predicate was asked about, and which does not reproduce
\* unless the verifier ran out of time on it, as only a fickle predicate does.  A
\* capsule is refused only if a deletion of it does reproduce (verify.py:95-240,
\* cli.py: "independent 1-minimality verification failed").
VerdictIsTrue ==
    /\ phase = "accepted" =>
           \A u \in Range(VerifierUnits(current)) : LET c == Deleted(current, u) IN
               Valid(c) => /\ c \in DOMAIN answered
                           /\ answered[c] = "reproduces" => given.predicate = "fickle" /\ u \in unheard
    /\ phase = "refused" =>
           \E u \in Range(VerifierUnits(current)) : LET c == Deleted(current, u) IN
               Valid(c) /\ c \in DOMAIN answered /\ answered[c] = "reproduces"

LEMMA VerdictInvImplies == VerdictInv => VerdictIsTrue /\ TimedOutIsFound
<1> SUFFICES ASSUME VerdictInv PROVE VerdictIsTrue /\ TimedOutIsFound
  OBVIOUS
<1>1. ASSUME phase = "accepted", NEW u \in Range(VerifierUnits(current)), Valid(Deleted(current, u))
      PROVE  /\ Deleted(current, u) \in DOMAIN answered
             /\ answered[Deleted(current, u)] = "reproduces" =>
                    given.predicate = "fickle" /\ u \in unheard
  <2>1. Settled(u) /\ reproducing = {}
    BY <1>1, EmptyList DEF VerdictInv, VerifierStands
  <2>2. QED
    BY <1>1, <2>1 DEF VerdictInv, Settled
<1>2. ASSUME phase = "refused"
      PROVE  \E u \in Range(VerifierUnits(current)) : StillReproduces(u)
  BY <1>2 DEF VerdictInv, VerifierStands
<1> QED
  BY <1>1, <1>2 DEF VerdictIsTrue, TimedOutIsFound, StillReproduces

THEOREM VerdictsAreTrue == Spec => [](VerdictIsTrue /\ TimedOutIsFound)
  BY InitHolding, HoldingStep, InitLevels, LevelsStep, InitVerdict, VerdictStep,
     VerdictInvImplies, PTL DEF Spec

-------------------------------------------------------------------------------
(* Every search ends 1-minimal.                                              *)

AllTried(s, refused) == \A i \in 1..Len(s.kept) : WithoutItem(s.kept, i) \in refused

\* Where the parts are single items, those before `part' cannot be left out; the
\* linear pass finds everything refused already, or one item it has not tried.
Tries(s, refused) ==
    /\ s.phase \in {"initial", "scan"} => s.index = 0
    /\ s.phase = "scan" /\ s.granularity >= Len(s.kept) =>
           \A i \in 1..s.part : WithoutItem(s.kept, i) \in refused
    /\ s.phase = "linear" => (s.index = 0 /\ Len(s.kept) < 2) \/ AllTried(s, refused)
    /\ s.phase = "done" => AllTried(s, refused)

\* A scan that is at granularity Len(s.kept) tries to leave out one item.
LEMMA SingleItem ==
    ASSUME NEW s, NEW units, Within(s, units), s.phase = "scan", s.granularity >= Len(s.kept)
    PROVE  SearchParts(s) = Len(s.kept) /\ SearchCandidate(s) = WithoutItem(s.kept, s.part + 1)
<1> DEFINE L == Len(s.kept)
           part == s.part
           granularity == s.granularity
           start == s.start
<1>1. L \in Nat /\ L >= 2 /\ granularity \in Nat /\ part \in Nat /\ part < SearchParts(s)
      /\ granularity >= L
  BY ListIs DEF Within
<1>2. SearchParts(s) = Smaller(granularity, L)
  BY DEF SearchParts, Parts
<1>3. start = part * (L \div SearchParts(s)) + Smaller(part, L % SearchParts(s))
  BY DEF Within, ScanStart
<1>4. SearchEnd(s) = start + Width(L, SearchParts(s), part)
  BY DEF SearchEnd
<1>5. SearchCandidate(s) = Without(s.kept, start, SearchEnd(s))
  BY DEF SearchCandidate
<1> HIDE DEF L, part, granularity, start
<1>6. SearchParts(s) = L
  BY <1>1, <1>2 DEF Smaller
<1>7. L \div L = 1 /\ L % L = 0
  BY <1>1, SMT
<1>8. start = part
  BY <1>1, <1>3, <1>6, <1>7 DEF Smaller
<1>9. SearchEnd(s) = part + 1
  BY <1>1, <1>4, <1>6, <1>7, <1>8 DEF Width
<1>10. (part + 1) - 1 = part
  BY <1>1
<1> QED
  BY <1>5, <1>6, <1>8, <1>9, <1>10 DEF WithoutItem, part, L

\* Without its only item a sequence is empty.
LEMMA OneLess ==
    ASSUME NEW seq, IsList(seq), Len(seq) = 1
    PROVE  Len(WithoutItem(seq, 0 + 1)) = 0
<1> DEFINE R == Range(seq)
<1>1. seq \in Seq(R)
  BY DEF IsList
<1> HIDE DEF R
<1>2. SubSeq(seq, 1, 0) \in Seq(R) /\ Len(SubSeq(seq, 1, 0)) = 0
  BY <1>1
<1>3. SubSeq(seq, 2, 1) \in Seq(R) /\ Len(SubSeq(seq, 2, 1)) = 0
  BY <1>1
<1>4. WithoutItem(seq, 0 + 1) = SubSeq(seq, 1, 0) \o SubSeq(seq, 2, 1)
  BY DEF WithoutItem, Without
<1> QED
  BY <1>2, <1>3, <1>4

LEMMA TriesMore ==
    ASSUME NEW s, NEW refused, NEW more, Tries(s, refused), refused \subseteq more
    PROVE  Tries(s, more)
  BY DEF Tries, AllTried

\* The linear pass at its loop head.
LEMMA LinearHeadTries ==
    ASSUME NEW s, NEW units, NEW refused, Within(s, units),
           (s.index = 0 /\ Len(s.kept) < 2) \/ AllTried(s, refused)
    PROVE  Tries(AtLinear(s), refused)
<1>1. PICK q : q = (IF s.index < Len(s.kept) THEN "linear" ELSE "done")
  OBVIOUS
<1> DEFINE u == AtLinear(s)
<1>2. u = [s EXCEPT !.phase = q]
  BY <1>1 DEF AtLinear
<1>3. u.kept = s.kept /\ u.index = s.index /\ u.phase = q
  BY <1>2 DEF Within, IsSearch
<1>4. Len(s.kept) \in Nat
  BY ListIs DEF Within
<1> HIDE DEF u
<1>5. q = "done" => AllTried(s, refused)
  BY <1>1, <1>4 DEF AllTried
<1>6. q \in {"linear", "done"}
  BY <1>1
<1> QED
  BY <1>3, <1>5, <1>6 DEF Tries, AllTried, u

LEMMA ScanHeadTries ==
    ASSUME NEW s, NEW units, NEW refused, Within(s, units), s.index = 0
    PROVE  /\ Tries(AtScan(s), refused)
           /\ AtScan(s).phase = "linear" => AtScan(s).index = 0 /\ Len(AtScan(s).kept) < 2
<1>1. PICK p : p = (IF Len(s.kept) >= 2 THEN "scan" ELSE "linear")
  OBVIOUS
<1> DEFINE t == AtScan(s)
<1>2. t = [s EXCEPT !.phase = p, !.part = 0, !.start = 0]
  BY <1>1 DEF AtScan
<1>3. t.kept = s.kept /\ t.index = s.index /\ t.phase = p /\ t.part = 0
  BY <1>2 DEF Within, IsSearch
<1>4. Len(s.kept) \in Nat
  BY ListIs DEF Within
<1> HIDE DEF t
<1> QED
  BY <1>1, <1>3, <1>4 DEF Tries, t

LEMMA ScannedTries ==
    ASSUME NEW s, NEW units, NEW refused, IsList(units), SearchesWithin(s, units),
           Tries(s, refused), s.phase = "scan", NEW reproduced \in BOOLEAN,
           ~reproduced => SearchCandidate(s) \in refused
    PROVE  Tries(Scanned(s, reproduced), refused)
<1> DEFINE length == Len(s.kept)
           candidate == SearchCandidate(s)
           end == SearchEnd(s)
           shorter == [s EXCEPT !.kept = candidate, !.granularity = Larger(2, @ - 1)]
           moved == [s EXCEPT !.part = @ + 1, !.start = end]
           ended == [s EXCEPT !.phase = "linear"]
           finer == [s EXCEPT !.granularity = Smaller(length, @ * 2)]
           after == CASE reproduced -> AtScan(shorter)
                      [] ~reproduced /\ s.part + 1 < SearchParts(s) -> moved
                      [] OTHER -> IF s.granularity >= length THEN ended ELSE AtScan(finer)
           Good(t) == IF t.phase = "linear"
                      THEN /\ (t.index = 0 /\ Len(t.kept) < 2) \/ AllTried(t, refused)
                           /\ Within(t, units)
                      ELSE Tries(t, refused)
<1>1. Scanned(s, reproduced) = IF after.phase = "linear" THEN AtLinear(after) ELSE after
  BY DEF Scanned
<1>2. /\ IsSearch(s) /\ Within(s, units) /\ length \in Nat /\ length >= 2
      /\ s.granularity \in Nat /\ s.granularity >= 2 /\ s.part \in Nat /\ s.index = 0
  BY ListIs DEF SearchesWithin, Within, Tries
<1>3. IsList(candidate) /\ Range(candidate) \subseteq Range(units)
  BY CandidateWithin
<1>4. s.granularity >= length =>
          SearchParts(s) = length /\ candidate = WithoutItem(s.kept, s.part + 1)
  BY <1>2, SingleItem
<1>5. s.granularity >= length => \A i \in 1..s.part : WithoutItem(s.kept, i) \in refused
  BY DEF Tries
<1> HIDE DEF candidate, end
\* A scan that starts anew has tried nothing.
<1>6. ASSUME NEW t, IsSearch(t), t.units = units, IsList(t.kept), Range(t.kept) \subseteq Range(units),
             t.granularity \in Nat, t.granularity >= 2, t.index = 0
      PROVE  Good(AtScan(t))
  <2> DEFINE anew == [t EXCEPT !.phase = "linear"]
  <2>1. Within(anew, units) /\ anew.index = 0
    BY <1>6 DEF Within, IsSearch
  <2>2. AtScan(t) = AtScan(anew)
    BY <1>6 DEF AtScan, IsSearch
  <2> HIDE DEF anew
  <2>3. QED
    BY <2>1, <2>2, ScanHeadTries, HeadWithin
<1>7. CASE reproduced
  <2>1. PICK g \in Nat : g = Larger(2, s.granularity - 1) /\ g >= 2
    BY <1>2 DEF Larger
  <2>2. shorter = [s EXCEPT !.kept = candidate, !.granularity = g]
    BY <2>1
  <2>3. after = AtScan(shorter)
    BY <1>7
  <2> HIDE DEF shorter, after
  <2>4. /\ IsSearch(shorter) /\ shorter.units = units /\ shorter.kept = candidate
        /\ shorter.granularity = g /\ shorter.index = 0
    BY <1>2, <2>2 DEF Within, IsSearch
  <2>5. Good(after)
    BY <1>3, <1>6, <2>1, <2>3, <2>4
  <2>6. QED
    BY <1>1, <2>5, LinearHeadTries
<1>8. CASE ~reproduced /\ s.part + 1 < SearchParts(s)
  <2>1. after = moved
    BY <1>8
  <2>2. /\ moved.part = s.part + 1 /\ moved.phase = "scan" /\ moved.kept = s.kept
        /\ moved.granularity = s.granularity /\ moved.index = s.index
    <3>1. PICK n : moved = [s EXCEPT !.part = n, !.start = end] /\ n = s.part + 1
      OBVIOUS
    <3> HIDE DEF moved
    <3>2. QED
      BY <1>2, <3>1 DEF IsSearch
  <2> HIDE DEF after, moved
  <2>3. ASSUME s.granularity >= length, NEW i \in 1..(s.part + 1)
        PROVE  WithoutItem(s.kept, i) \in refused
    <3>1. i = s.part + 1 \/ i \in 1..s.part
      BY <1>2
    <3>2. QED
      BY <1>4, <1>5, <1>8, <2>3, <3>1 DEF candidate
  <2>4. Tries(moved, refused)
    BY <1>2, <2>2, <2>3 DEF Tries
  <2>5. QED
    BY <1>1, <2>1, <2>2, <2>4
<1>9. CASE ~reproduced /\ ~(s.part + 1 < SearchParts(s)) /\ s.granularity >= length
  <2>1. after = ended
    BY <1>9
  <2>2. Within(ended, units) /\ ended.kept = s.kept /\ ended.phase = "linear"
    BY <1>2 DEF Within, IsSearch
  <2> HIDE DEF after, ended
  <2>3. ASSUME NEW i \in 1..length PROVE WithoutItem(s.kept, i) \in refused
    <3>1. i = s.part + 1 \/ i \in 1..s.part
      BY <1>2, <1>4, <1>9
    <3>2. QED
      BY <1>4, <1>5, <1>9, <3>1 DEF candidate
  <2>4. AllTried(ended, refused)
    BY <2>2, <2>3 DEF AllTried
  <2>5. QED
    BY <1>1, <2>1, <2>2, <2>4, LinearHeadTries
<1>10. CASE ~reproduced /\ ~(s.part + 1 < SearchParts(s)) /\ ~(s.granularity >= length)
  <2>1. PICK g \in Nat : g = Smaller(length, s.granularity * 2) /\ g >= 2
    <3>1. PICK k, m : k = length /\ m = s.granularity
      OBVIOUS
    <3>2. k \in Nat /\ k >= 2 /\ m \in Nat /\ m >= 2
      BY <1>2, <3>1
    <3>3. Smaller(k, m * 2) \in Nat /\ Smaller(k, m * 2) >= 2
      BY <3>2 DEF Smaller
    <3>4. QED
      BY <3>1, <3>3
  <2>2. finer = [s EXCEPT !.granularity = g]
    BY <2>1
  <2>3. after = AtScan(finer)
    BY <1>10
  <2> HIDE DEF finer, after
  <2>4. /\ IsSearch(finer) /\ finer.units = units /\ finer.kept = s.kept
        /\ finer.granularity = g /\ finer.index = 0
    BY <1>2, <2>2 DEF Within, IsSearch
  <2>5. Good(after)
    BY <1>2, <1>6, <2>1, <2>3, <2>4 DEF Within
  <2>6. QED
    BY <1>1, <2>5, LinearHeadTries
<1> QED
  BY <1>7, <1>8, <1>9, <1>10

LEMMA AdvanceTries ==
    ASSUME NEW s, NEW units, NEW refused, IsList(units), SearchesWithin(s, units),
           Tries(s, refused), s.phase \in {"initial", "scan", "linear"}, NEW reproduced \in BOOLEAN,
           reproduced <=> SearchCandidate(s) \notin refused
    PROVE  Tries(Advance(s, reproduced), refused)
<1>1. CASE s.phase = "initial"
  <2>1. Advance(s, reproduced) = Begun(s, reproduced) /\ s.index = 0 /\ Within(s, units)
    BY <1>1 DEF Advance, Tries, SearchesWithin
  <2>2. CASE ~reproduced
    BY <2>1, <2>2 DEF Begun, Tries, Within, IsSearch
  <2>3. CASE reproduced /\ Len(s.kept) >= 2
    BY <2>1, <2>3, ScanHeadTries DEF Begun
  <2>4. CASE reproduced /\ ~(Len(s.kept) >= 2)
    <3>1. Len(s.kept) < 2
      BY <2>1, <2>4, ListIs DEF Within
    <3>2. QED
      BY <2>1, <2>4, <3>1, LinearHeadTries DEF Begun
  <2>5. QED
    BY <2>2, <2>3, <2>4
<1>2. CASE s.phase = "scan"
  BY <1>2, ScannedTries DEF Advance
<1>3. CASE s.phase = "linear"
  <2> DEFINE candidate == SearchCandidate(s)
             shorter == [s EXCEPT !.kept = candidate]
             further == [s EXCEPT !.index = @ + 1]
  <2>1. Advance(s, reproduced) = AtLinear(IF reproduced THEN shorter ELSE further)
    BY <1>3 DEF Advance, LinearlyTried
  <2>2. IsList(candidate) /\ Range(candidate) \subseteq Range(units)
    BY CandidateWithin
  <2>3. candidate = WithoutItem(s.kept, s.index + 1)
    BY <1>3 DEF SearchCandidate
  <2>4. /\ s.index \in Nat /\ s.index < Len(s.kept) /\ Len(s.kept) \in Nat
        /\ IsList(s.kept) /\ Within(s, units)
    BY <1>3, ListIs DEF SearchesWithin, Within
  <2> HIDE DEF candidate
  <2>5. Within(shorter, units) /\ shorter.kept = candidate /\ shorter.index = s.index
    BY <1>3, <2>2 DEF SearchesWithin, Within, IsSearch
  <2>6. Within(further, units) /\ further.kept = s.kept /\ further.index = s.index + 1
    BY <1>3 DEF SearchesWithin, Within, IsSearch
  <2> HIDE DEF shorter, further
  <2>7. CASE AllTried(s, refused)
    <3>1. s.index + 1 \in 1..Len(s.kept)
      BY <2>4
    <3>2. ~reproduced
      BY <2>3, <2>7, <3>1 DEF AllTried, candidate
    <3>3. AllTried(further, refused)
      BY <2>6, <2>7 DEF AllTried
    <3>4. QED
      BY <2>1, <2>6, <3>2, <3>3, LinearHeadTries
  <2>8. CASE ~AllTried(s, refused)
    <3>0. s.index = 0 /\ Len(s.kept) < 2
      BY <1>3, <2>8 DEF Tries
    <3>1. s.index = 0 /\ Len(s.kept) = 1
      <4>1. PICK n \in Nat : n = Len(s.kept)
        BY <2>4
      <4>2. 0 < n /\ n < 2
        BY <2>4, <3>0, <4>1, Zenon
      <4>3. n = 1
        BY <4>2
      <4>4. QED
        BY <3>0, <4>1, <4>3
    <3>2. CASE reproduced
      <4>1. Len(candidate) = 0
        BY <2>3, <2>4, <3>1, OneLess
      <4>2. shorter.index = 0 /\ Len(shorter.kept) < 2
        BY <2>5, <3>1, <4>1
      <4>3. Advance(s, reproduced) = AtLinear(shorter)
        BY <2>1, <3>2
      <4>4. QED
        BY <2>5, <4>2, <4>3, LinearHeadTries
    <3>3. CASE ~reproduced
      <4>1. AllTried(further, refused)
        BY <2>3, <2>6, <3>1, <3>3 DEF AllTried, candidate
      <4>2. QED
        BY <2>1, <2>6, <3>3, <4>1, LinearHeadTries
    <3>4. QED
      BY <3>2, <3>3
  <2>9. QED
    BY <2>7, <2>8
<1> QED
  BY <1>1, <1>2, <1>3

\* What the search in progress has been refused.
RefusedUnits ==
    {k \in Seq(Range(search.units)) : Refused(Build(current, Name, Head(todo), search.units, k))}

SearchInv == phase = "levels" /\ search # NoSearch => Tries(search, RefusedUnits)

LEMMA SearchStepTries ==
    ASSUME HoldingInv, LevelsInv, SearchInv, SearchStep PROVE SearchInv'
<1> DEFINE target == Head(todo)
           units == Units(current, Name, target)
<1>1. /\ phase = "levels" /\ todo' = todo /\ todo # <<>> /\ level' = level
      /\ Name \notin JsonLevels /\ current' = current
      /\ search.phase \in {"initial", "scan", "linear"}
  BY DEF SearchStep, Searching, InBulk
<1>2. LevelStands /\ level \in 1..10 /\ IsCapsule(current)
  BY <1>1 DEF LevelsInv, LevelStands
<1>3. IsTarget(current, Name, target)
  BY <1>1, <1>2, TailOfList DEF LevelStands
<1>4. IsList(units)
  BY <1>1, <1>2, <1>3, LevelName, UnitsList
<1>5. SearchesWithin(search, units) /\ Tries(search, RefusedUnits)
  BY <1>1, <1>2 DEF LevelStands, NoSearch, SearchInv
<1>0. units' = units /\ target' = target
  BY <1>1 DEF Name
<1> HIDE DEF units, target
<1>6. search.units = units
  BY <1>5 DEF SearchesWithin, Within
<1>7. PICK k : k = SearchCandidate(search)
  OBVIOUS
<1>8. IsList(k) /\ Range(k) \subseteq Range(units)
  BY <1>1, <1>4, <1>5, <1>7, CandidateWithin
<1>9. PICK candidate : candidate = Build(current, Name, target, units, k)
  OBVIOUS
<1>10. PICK r : Evaluate(candidate, r) /\ search' = Advance(search, r = "reproduces")
  BY <1>6, <1>7, <1>9 DEF SearchStep, target
<1>11. timedOut \subseteq DOMAIN answered
  BY DEF HoldingInv
<1>12. PICK reproduced \in BOOLEAN : reproduced <=> r = "reproduces"
  OBVIOUS
<1>13. search' = Advance(search, reproduced)
  BY <1>10, <1>12
<1>14. SearchesWithin(search', units)
  <2>1. SearchesWithin(Advance(search, reproduced), units)
    BY <1>1, <1>4, <1>5, AdvanceWithin
  <2>2. QED
    BY <1>13, <2>1
<1>15. search'.units = units /\ Name' = Name
  BY <1>1, <1>14 DEF SearchesWithin, Within, Name
<1>16. PICK more : more = RefusedUnits'
  OBVIOUS
<1>17. \A l \in Seq(Range(units)) :
           l \in more <=> Refused(Build(current, Name, target, units, l))'
  BY <1>0, <1>1, <1>15, <1>16 DEF RefusedUnits, target
<1>18. Remains
  BY <1>10, <1>11, EvaluateRemains
<1>19. RefusedUnits \subseteq more
  <2>1. SUFFICES ASSUME NEW l \in Seq(Range(units)),
                        Refused(Build(current, Name, target, units, l))
                 PROVE  l \in more
    BY <1>6 DEF RefusedUnits, target
  <2>2. PICK c : c = Build(current, Name, target, units, l)
    OBVIOUS
  <2>3. Refused(c)
    BY <2>1, <2>2
  <2>4. Refused(c)'
    BY <1>18, <2>3, RefusedRemains DEF Refused
  <2>5. c = Build(current, Name, target, units, l)'
    BY <1>0, <1>1, <1>15, <2>2
  <2>6. QED
    BY <1>17, <2>4, <2>5
<1>20. k \in Seq(Range(units))
  <2>1. k \in Seq(Range(k))
    BY <1>8 DEF IsList
  <2>2. QED
    BY <1>8, <2>1, SeqMonotonic
<1>21. candidate = Build(current, Name, target, units, k)'
  BY <1>0, <1>1, <1>9, <1>15
<1>22. k \in more <=> Refused(candidate)'
  BY <1>17, <1>20, <1>21
<1>23. reproduced <=> k \notin more
  <2>1. CASE r = "reproduces"
    <3>1. Held(candidate)'
      BY <1>10, <1>11, <2>1, EvaluateHolds DEF Held
    <3>2. ~Refused(candidate)'
      BY <3>1 DEF Held, Refused, Cached
    <3>3. QED
      BY <1>12, <1>22, <2>1, <3>2
  <2>2. CASE r # "reproduces"
    <3>1. Refused(candidate)'
      BY <1>10, <1>11, <2>2, EvaluateRefuses DEF Refused
    <3>2. QED
      BY <1>12, <1>22, <2>2, <3>1
  <2>3. QED
    BY <2>1, <2>2
<1>24. Tries(search, more)
  BY <1>5, <1>19, TriesMore
<1>25. Tries(Advance(search, reproduced), more)
  BY <1>1, <1>4, <1>5, <1>7, <1>23, <1>24, AdvanceTries
<1> QED
  BY <1>13, <1>16, <1>25 DEF SearchInv

LEMMA SearchInvStep == HoldingInv /\ LevelsInv /\ SearchInv /\ [Next]_vars => SearchInv'
<1> SUFFICES ASSUME HoldingInv, LevelsInv, SearchInv, [Next]_vars PROVE SearchInv'
  OBVIOUS
<1>1. CASE BeginSearch
  <2>1. search' = search \/ search' = SearchOver(Units(current, Name, Head(todo)))
    BY <1>1 DEF BeginSearch
  <2>2. search = NoSearch
    BY <1>1 DEF BeginSearch
  <2>3. ASSUME search' = SearchOver(Units(current, Name, Head(todo))) PROVE SearchInv'
    <3>1. PICK t : t = search'
      OBVIOUS
    <3>2. t.phase = "initial" /\ t.index = 0
      BY <2>3, <3>1 DEF SearchOver
    <3>3. \A refused : Tries(t, refused)
      BY <3>2 DEF Tries
    <3>4. QED
      BY <3>1, <3>3 DEF SearchInv
  <2>4. QED
    BY <2>1, <2>2, <2>3 DEF SearchInv
<1>2. CASE SearchStep
  BY <1>2, SearchStepTries
<1>3. CASE CheckSource \/ NextLevel \/ AcceptPath \/ RejectPath
  <2>1. search' = search
    BY <1>3 DEF CheckSource, NextLevel, AcceptPath, RejectPath
  <2>2. search = NoSearch
    BY <1>3 DEF CheckSource, NextLevel, AcceptPath, RejectPath, InJson, HoldingInv, SearchStands, InBulk
  <2>3. QED
    BY <2>1, <2>2 DEF SearchInv, NoSearch
<1>4. CASE EndSearch
  BY <1>4 DEF EndSearch, SearchInv, NoSearch
<1>5. CASE FinalEvaluation \/ VerifyDeletion \/ VerificationFails \/ AcceptResult \/ SearchRaises
  BY <1>5 DEF FinalEvaluation, VerifyDeletion, VerificationFails, AcceptResult, SearchRaises, SearchInv
<1>6. CASE UNCHANGED vars
  BY <1>6 DEF vars, asked, SearchInv, RefusedUnits, Name, Refused, Cached, NoSearch
<1> QED
  BY <1>1, <1>2, <1>3, <1>4, <1>5, <1>6 DEF Next, Step

\* A ddmin call that has returned is 1-minimal: with any one of the units it kept
\* left out, the capsule does not validate or has lost the failure, in every level
\* and for every predicate (ddmin.py:35-78, as the levels of hierarchy.py call it).
SearchIsOneMinimal ==
    phase = "levels" /\ search.phase = "done" =>
        \A i \in 1..Len(search.kept) :
            Refused(Build(current, Name, Head(todo), search.units, WithoutItem(search.kept, i)))

LEMMA InitSearchInv == Init => SearchInv
  BY DEF Init, SearchInv

THEOREM SearchesAreOneMinimal == Spec => []SearchIsOneMinimal
<1>1. HoldingInv /\ SearchInv => SearchIsOneMinimal
  BY DEF SearchInv, SearchIsOneMinimal, NoSearch, Tries, AllTried, RefusedUnits
<1> QED
  BY <1>1, InitHolding, HoldingStep, InitLevels, LevelsStep, InitSearchInv, SearchInvStep,
     PTL DEF Spec

-------------------------------------------------------------------------------
(* Units that are all different stay so.                                     *)

\* Where the i-th item of Without(s, a, b) stands in s.
Stood(i, a, b) == IF i <= a THEN i ELSE i - a + b

LEMMA WithoutItems ==
    ASSUME NEW s, IsList(s), NEW a \in Nat, NEW b \in Nat, a <= b, a <= Len(s)
    PROVE  /\ IsList(Without(s, a, b))
           /\ \A i \in 1..Len(Without(s, a, b)) :
                  Stood(i, a, b) \in 1..Len(s) /\ Without(s, a, b)[i] = s[Stood(i, a, b)]
           /\ \A j \in 1..Len(s) : j <= a \/ j > b =>
                  \E i \in 1..Len(Without(s, a, b)) : Without(s, a, b)[i] = s[j]
<1> DEFINE R == Range(s)
           n == Len(s)
           head == SubSeq(s, 1, a)
           tail == SubSeq(s, b + 1, n)
           w == head \o tail
<1>1. s \in Seq(R) /\ n \in Nat /\ \A i \in 1..n : s[i] \in R
  BY ListIs DEF IsList
<1> HIDE DEF R
<1>2. head \in Seq(R) /\ Len(head) = a /\ \A i \in 1..a : head[i] = s[i]
  BY <1>1
<1>3. tail \in Seq(R) /\ Len(tail) = (IF b + 1 <= n THEN n - b ELSE 0)
      /\ \A i \in 1..Len(tail) : tail[i] = s[i + b]
  <2>1. CASE b + 1 <= n
    BY <1>1, <2>1, SubSeqProperties
  <2>2. CASE ~(b + 1 <= n)
    BY <1>1, <2>2, SubSeqProperties
  <2>3. QED
    BY <2>1, <2>2
<1>4. Without(s, a, b) = w
  BY DEF Without
<1> HIDE DEF head, tail, n
<1>5. w \in Seq(R) /\ Len(w) = a + Len(tail) /\ Len(tail) \in Nat
      /\ \A i \in 1..Len(w) : w[i] = IF i <= a THEN head[i] ELSE tail[i - a]
  <2>1. Len(tail) \in Nat /\ Len(head) \in Nat
    BY <1>2, <1>3, LenProperties
  <2>2. /\ w \in Seq(R) /\ Len(w) = Len(head) + Len(tail)
        /\ \A i \in 1..(Len(head) + Len(tail)) :
               w[i] = IF i <= Len(head) THEN head[i] ELSE tail[i - Len(head)]
    BY <1>2, <1>3, ConcatProperties
  <2> HIDE DEF w
  <2>3. QED
    BY <1>2, <2>1, <2>2
<1> HIDE DEF w
<1>6. IsList(w)
  BY <1>5, ListOf
<1>7. ASSUME NEW i \in 1..Len(w)
      PROVE  Stood(i, a, b) \in 1..n /\ w[i] = s[Stood(i, a, b)]
  <2>1. CASE i <= a
    BY <1>1, <1>2, <1>5, <2>1 DEF Stood, n
  <2>2. CASE ~(i <= a)
    <3>1. i - a \in 1..Len(tail) /\ i - a + b \in 1..n
      BY <1>1, <1>3, <1>5, <2>2
    <3>2. w[i] = s[i - a + b]
      BY <1>3, <1>5, <2>2, <3>1
    <3>3. QED
      BY <2>2, <3>1, <3>2 DEF Stood
  <2>3. QED
    BY <2>1, <2>2
<1>8. ASSUME NEW j \in 1..n, j <= a \/ j > b PROVE \E i \in 1..Len(w) : w[i] = s[j]
  <2>1. CASE j <= a
    <3>1. j \in 1..Len(w) /\ w[j] = s[j]
      BY <1>1, <1>2, <1>5, <2>1
    <3>2. QED
      BY <3>1
  <2>2. CASE ~(j <= a)
    <3>1. j - b \in 1..Len(tail) /\ (j - b) + b = j
      BY <1>1, <1>3, <1>8, <2>2
    <3>2. tail[j - b] = s[j]
      BY <1>3, <3>1
    <3>3. a + (j - b) \in 1..Len(w) /\ ~(a + (j - b) <= a) /\ (a + (j - b)) - a = j - b
      BY <1>5, <3>1
    <3>4. w[a + (j - b)] = s[j]
      BY <1>5, <3>2, <3>3
    <3>5. QED
      BY <3>3, <3>4
  <2>3. QED
    BY <2>1, <2>2
<1> QED
  BY <1>4, <1>6, <1>7, <1>8 DEF n

LEMMA WithoutDistinct ==
    ASSUME NEW s, IsList(s), Distinct(s), NEW a \in Nat, NEW b \in Nat, a <= b, a <= Len(s)
    PROVE  Distinct(Without(s, a, b))
<1> DEFINE w == Without(s, a, b)
<1>1. IsList(w) /\ \A i \in 1..Len(w) : Stood(i, a, b) \in 1..Len(s) /\ w[i] = s[Stood(i, a, b)]
  BY WithoutItems
<1> HIDE DEF w
<1>2. Len(w) \in Nat
  BY <1>1, ListIs
<1>3. ASSUME NEW i \in 1..Len(w), NEW j \in 1..Len(w), w[i] = w[j] PROVE i = j
  <2>1. Stood(i, a, b) = Stood(j, a, b)
    BY <1>1, <1>3 DEF Distinct
  <2>2. QED
    BY <1>2, <2>1 DEF Stood
<1> QED
  BY <1>3 DEF Distinct, w

LEMMA WithoutItemOfDistinct ==
    ASSUME NEW s, IsList(s), Distinct(s), NEW i \in 1..Len(s)
    PROVE  /\ IsList(WithoutItem(s, i)) /\ Distinct(WithoutItem(s, i))
           /\ Range(WithoutItem(s, i)) = Range(s) \ {s[i]}
<1> DEFINE w == WithoutItem(s, i)
<1>1. Len(s) \in Nat
  BY ListIs
<1>2. i - 1 \in Nat /\ i \in Nat /\ i - 1 <= i /\ i - 1 <= Len(s)
  BY <1>1
<1>3. w = Without(s, i - 1, i)
  BY DEF WithoutItem
<1>4. IsList(w) /\ Distinct(w)
  BY <1>2, <1>3, WithoutItems, WithoutDistinct
<1>5. \A k \in 1..Len(w) : Stood(k, i - 1, i) \in 1..Len(s) /\ w[k] = s[Stood(k, i - 1, i)]
  BY <1>2, <1>3, WithoutItems, SMTT(30)
<1>6. \A j \in 1..Len(s) : j <= i - 1 \/ j > i => \E k \in 1..Len(w) : w[k] = s[j]
  BY <1>2, <1>3, WithoutItems, SMTT(60)
<1> HIDE DEF w
<1>7. ASSUME NEW x \in Range(w) PROVE x \in Range(s) \ {s[i]}
  <2>1. PICK k \in 1..Len(w) : x = w[k]
    BY <1>4, ListIs
  <2>2. Stood(k, i - 1, i) # i
    BY <1>2, <1>4, ListIs DEF Stood
  <2>3. PICK m : m = Stood(k, i - 1, i)
    OBVIOUS
  <2>4. m \in 1..Len(s) /\ x = s[m] /\ m # i
    BY <1>5, <2>1, <2>2, <2>3
  <2>5. s[m] \in Range(s) /\ s[m] # s[i]
    BY <2>4, ListIs DEF Distinct
  <2>6. QED
    BY <2>4, <2>5
<1>8. ASSUME NEW x \in Range(s) \ {s[i]} PROVE x \in Range(w)
  <2>1. PICK j \in 1..Len(s) : x = s[j]
    BY ListIs
  <2>2. j <= i - 1 \/ j > i
    BY <1>1, <1>8, <2>1
  <2>3. PICK k \in 1..Len(w) : w[k] = s[j]
    BY <1>6, <2>2
  <2>4. QED
    BY <1>4, <2>1, <2>3, ListIs
<1> QED
  BY <1>4, <1>7, <1>8 DEF w

LEMMA SetInOrderDistinct ==
    ASSUME NEW S, IsFiniteSet(S)
    PROVE  Distinct(SetToSeq(S)) /\ Range(SetToSeq(S)) = S
<1> DEFINE n == Cardinality(S)
           f == SetToSeq(S)
<1>1. n \in Nat /\ ExistsBijection(1..n, S)
  BY FS_CardinalityType
<1>2. \E g \in [1..n -> S] : IsInjective(g)
  BY <1>1 DEF ExistsBijection, Bijection, Injection, IsInjective
<1>3. f \in [1..n -> S] /\ IsInjective(f)
  BY <1>2 DEF SetToSeq
<1>4. IsFiniteSet(1..n) /\ Cardinality(1..n) = n
  BY <1>1, FS_Interval
<1> HIDE DEF f
<1>5. f \in Seq(S) /\ Len(f) = n
  BY <1>1, <1>3
<1>6. Distinct(f)
  BY <1>3, <1>5 DEF Distinct, IsInjective
<1>7. f \in Injection(1..n, S)
  BY <1>3 DEF Injection, IsInjective
<1>8. f \in Surjection(1..n, S)
  BY <1>4, <1>7, FS_Injection
<1>9. Range(f) = S
  BY <1>3, <1>8 DEF Surjection, Range
<1> QED
  BY <1>6, <1>9 DEF f

LEMMA CandidateDistinct ==
    ASSUME NEW s, NEW units, IsList(units), SearchesWithin(s, units),
           s.phase \in {"initial", "scan", "linear"}, Distinct(s.kept)
    PROVE  Distinct(SearchCandidate(s))
<1>1. IsList(s.kept) /\ Len(s.kept) \in Nat
  BY ListIs DEF SearchesWithin, Within
<1>2. CASE s.phase = "initial"
  BY <1>2 DEF SearchCandidate, SearchesWithin, Within
<1>3. CASE s.phase = "scan"
  <2> DEFINE L == Len(s.kept)
             P == SearchParts(s)
             start == s.start
             end == SearchEnd(s)
             width == Width(L, P, s.part)
  <2>1. SearchCandidate(s) = Without(s.kept, start, end)
    BY <1>3 DEF SearchCandidate
  <2>2. P \in 2..L /\ start \in Nat /\ start <= L /\ end \in Nat
    BY <1>3, PartWithin DEF SearchesWithin
  <2>3. end = start + width
    BY DEF SearchEnd
  <2>4. L \div P \in Nat
    <3>1. L \in Nat
      BY <1>1
    <3> HIDE DEF L, P
    <3>2. QED
      BY <2>2, <3>1, SMT
  <2> HIDE DEF start, end, P
  <2>5. width >= 0 /\ width \in Nat
    BY <2>4 DEF Width
  <2> HIDE DEF width
  <2>6. start <= end
    BY <2>2, <2>3, <2>5
  <2>7. QED
    BY <1>1, <2>1, <2>2, <2>6, WithoutDistinct
<1>4. CASE s.phase = "linear"
  <2>1. s.index \in Nat /\ s.index < Len(s.kept)
    BY <1>4 DEF SearchesWithin, Within
  <2>2. s.index + 1 \in 1..Len(s.kept)
    BY <1>1, <2>1
  <2>3. QED
    BY <1>1, <1>4, <2>2, WithoutItemOfDistinct DEF SearchCandidate
<1> QED
  BY <1>2, <1>3, <1>4

-------------------------------------------------------------------------------
(* Removing events in two steps.                                             *)

LEMMA SameSequence ==
    ASSUME NEW s, NEW t, IsList(s), IsList(t), Len(s) = Len(t),
           \A i \in 1..Len(s) : s[i] = t[i]
    PROVE  s = t
<1> DEFINE R == Range(s) \union Range(t)
<1>1. s \in Seq(R) /\ t \in Seq(R)
  BY SeqMonotonic DEF IsList
<1> HIDE DEF R
<1> QED
  BY <1>1, SeqEqual

LEMMA ResequenceIs ==
    ASSUME NEW s, IsList(s)
    PROVE  /\ IsList(Resequence(s)) /\ Len(Resequence(s)) = Len(s)
           /\ \A i \in 1..Len(s) : Resequence(s)[i] = [s[i] EXCEPT !.seq = i - 1]
<1> DEFINE n == Len(s)
           t == Resequence(s)
<1>1. n \in Nat /\ DOMAIN s = 1..n
  BY ListIs
<1> HIDE DEF n
<1>2. t = [i \in 1..n |-> [s[i] EXCEPT !.seq = i - 1]]
  BY <1>1 DEF Resequence
<1> HIDE DEF t
<1>3. DOMAIN t = 1..n /\ \A i \in 1..n : t[i] = [s[i] EXCEPT !.seq = i - 1]
  BY <1>2
<1>4. IsList(t) /\ Len(t) = n
  BY <1>1, <1>2, <1>3, ListFrom
<1> QED
  BY <1>3, <1>4 DEF n, t

LEMMA ResequenceOfAppend ==
    ASSUME NEW s, IsList(s), NEW e
    PROVE  Resequence(Append(s, e)) = Append(Resequence(s), [e EXCEPT !.seq = Len(s)])
<1> DEFINE n == Len(s)
           t == Resequence(Append(s, e))
           r == Resequence(s)
           u == Append(r, [e EXCEPT !.seq = Len(s)])
<1>1. PICK last : last = [e EXCEPT !.seq = Len(s)]
  OBVIOUS
<1>2. n \in Nat /\ IsList(Append(s, e)) /\ Len(Append(s, e)) = n + 1
      /\ Append(s, e)[n + 1] = e /\ \A i \in 1..n : Append(s, e)[i] = s[i]
  BY ListIs, AppendToList
<1>3. /\ IsList(t) /\ Len(t) = n + 1
      /\ \A i \in 1..(n + 1) : t[i] = [Append(s, e)[i] EXCEPT !.seq = i - 1]
  BY <1>2, ResequenceIs
<1>4. IsList(r) /\ Len(r) = n /\ \A i \in 1..n : r[i] = [s[i] EXCEPT !.seq = i - 1]
  BY ResequenceIs
<1>5. u = Append(r, last)
  BY <1>1
<1> HIDE DEF r, u, t
<1>6. IsList(u) /\ Len(u) = n + 1 /\ u[n + 1] = last /\ \A i \in 1..n : u[i] = r[i]
  BY <1>4, <1>5, AppendToList
<1>7. ASSUME NEW i \in 1..(n + 1) PROVE t[i] = u[i]
  <2>1. CASE i \in 1..n
    BY <1>2, <1>3, <1>4, <1>6, <2>1
  <2>2. CASE i = n + 1
    <3>1. t[n + 1] = [e EXCEPT !.seq = (n + 1) - 1]
      BY <1>2, <1>3, <2>2
    <3>2. n \in Nat
      BY <1>2
    <3> HIDE DEF n
    <3>3. (n + 1) - 1 = n
      BY <3>2
    <3>4. QED
      BY <1>1, <1>6, <2>2, <3>1, <3>3 DEF n
  <2>3. QED
    BY <1>2, <2>1, <2>2
<1> QED
  BY <1>3, <1>6, <1>7, SameSequence DEF t, u, r

LEMMA FirstItems ==
    ASSUME NEW s, IsList(s)
    PROVE  /\ SubSeq(s, 1, 0) = <<>> /\ SubSeq(s, 1, Len(s)) = s
           /\ \A k \in Nat : k <= Len(s) =>
                  /\ IsList(SubSeq(s, 1, k)) /\ Len(SubSeq(s, 1, k)) = k
                  /\ Range(SubSeq(s, 1, k)) = {s[i] : i \in 1..k}
           /\ \A k \in Nat : k + 1 <= Len(s) =>
                  SubSeq(s, 1, k + 1) = Append(SubSeq(s, 1, k), s[k + 1])
<1> DEFINE R == Range(s)
           n == Len(s)
<1>1. s \in Seq(R) /\ n \in Nat /\ \A i \in 1..n : s[i] \in R
  BY ListIs DEF IsList
<1> HIDE DEF R
<1>2. ASSUME NEW k \in Nat, k <= n
      PROVE  /\ IsList(SubSeq(s, 1, k)) /\ Len(SubSeq(s, 1, k)) = k
             /\ Range(SubSeq(s, 1, k)) = {s[i] : i \in 1..k}
             /\ \A i \in 1..k : SubSeq(s, 1, k)[i] = s[i]
  <2>1. /\ SubSeq(s, 1, k) \in Seq(R) /\ Len(SubSeq(s, 1, k)) = k
        /\ \A i \in 1..k : SubSeq(s, 1, k)[i] = s[i]
    BY <1>1, <1>2
  <2>2. IsList(SubSeq(s, 1, k)) /\ DOMAIN SubSeq(s, 1, k) = 1..k
    BY <2>1, ListOf
  <2>3. QED
    BY <2>1, <2>2 DEF Range
<1>3. SubSeq(s, 1, 0) = <<>>
  BY <1>1
<1>4. SubSeq(s, 1, n) = s
  BY <1>1
<1>5. ASSUME NEW k \in Nat, k + 1 <= n
      PROVE  SubSeq(s, 1, k + 1) = Append(SubSeq(s, 1, k), s[k + 1])
  <2> DEFINE t == SubSeq(s, 1, k)
             u == SubSeq(s, 1, k + 1)
  <2>1. /\ IsList(t) /\ Len(t) = k /\ \A i \in 1..k : t[i] = s[i]
        /\ IsList(u) /\ Len(u) = k + 1 /\ \A i \in 1..(k + 1) : u[i] = s[i]
    BY <1>1, <1>2, <1>5
  <2> HIDE DEF t, u
  <2>2. PICK a : a = Append(t, s[k + 1])
    OBVIOUS
  <2>3. IsList(a) /\ Len(a) = k + 1 /\ a[k + 1] = s[k + 1] /\ \A i \in 1..k : a[i] = t[i]
    BY <2>1, <2>2, AppendToList
  <2>4. ASSUME NEW i \in 1..(k + 1) PROVE u[i] = a[i]
    <3>1. i \in 1..k \/ i = k + 1
      OBVIOUS
    <3>2. QED
      BY <2>1, <2>3, <3>1
  <2>5. u = a
    BY <2>1, <2>3, <2>4, SameSequence
  <2>6. QED
    BY <2>2, <2>5 DEF t, u
<1> QED
  BY <1>2, <1>3, <1>4, <1>5

\* Events filtered twice, and numbered anew each time, are those filtered once.
LEMMA RemainingTwice ==
    ASSUME NEW s, IsList(s), \A e \in Range(s) : IsEvent(e), NEW G, NEW H
    PROVE  Resequence(Remaining(Resequence(Remaining(s, G)), H)) =
               Resequence(Remaining(s, G \union H))
<1> DEFINE n == Len(s)
           Once(t) == Remaining(t, G)
           Twice(t) == Remaining(Resequence(Remaining(t, G)), H)
           Both(t) == Remaining(t, G \union H)
           Good == {k \in Nat : k <= n =>
                       Resequence(Twice(SubSeq(s, 1, k))) = Resequence(Both(SubSeq(s, 1, k)))}
<1>1. n \in Nat /\ \A i \in 1..n : IsEvent(s[i])
  BY ListIs
<1>2. 0 \in Good
  <2>1. Resequence(<<>>) = <<>>
    BY ResequenceIs, EmptyList, SameSequence
  <2>2. Twice(<<>>) = <<>> /\ Both(<<>>) = <<>>
    BY <2>1, RemainingOfEmpty
  <2>3. SubSeq(s, 1, 0) = <<>>
    BY FirstItems
  <2>4. QED
    BY <2>2, <2>3
<1>3. ASSUME NEW k \in Nat, k \in Good PROVE k + 1 \in Good
  <2>1. SUFFICES ASSUME k + 1 <= n
                 PROVE  Resequence(Twice(SubSeq(s, 1, k + 1))) = Resequence(Both(SubSeq(s, 1, k + 1)))
    OBVIOUS
  <2>2. k <= n /\ k + 1 \in 1..n
    BY <1>1, <2>1
  <2>3. PICK t, e : t = SubSeq(s, 1, k) /\ e = s[k + 1]
    OBVIOUS
  <2>4. IsList(t) /\ IsEvent(e) /\ SubSeq(s, 1, k + 1) = Append(t, e)
    BY <1>1, <2>1, <2>2, <2>3, FirstItems
  <2>5. Resequence(Twice(t)) = Resequence(Both(t))
    BY <1>3, <2>2, <2>3
  <2>6. SUFFICES Resequence(Twice(Append(t, e))) = Resequence(Both(Append(t, e)))
    BY <2>4
  <2>7. CASE e.id \in G
    <3>1. Once(Append(t, e)) = Once(t) /\ Both(Append(t, e)) = Both(t)
      BY <2>4, <2>7, RemainingOfAppend
    <3>2. Twice(Append(t, e)) = Twice(t)
      BY <3>1
    <3>3. QED
      BY <2>5, <3>1, <3>2
  <2>8. CASE e.id \notin G
    <3>1. PICK u, v, w : u = Once(t) /\ v = Twice(t) /\ w = Both(t)
      OBVIOUS
    <3>2. IsList(u) /\ IsList(w) /\ IsList(Resequence(u)) /\ v = Remaining(Resequence(u), H)
      BY <2>4, <3>1, RemainingOfList, ResequenceIs
    <3>3. IsList(v)
      BY <3>2, RemainingOfList
    <3>4. PICK one : one = [e EXCEPT !.seq = Len(u)]
      OBVIOUS
    <3>5. one.id = e.id
      BY <2>4, <3>4 DEF IsEvent
    <3>6. Once(Append(t, e)) = Append(u, e)
      BY <2>4, <2>8, <3>1, RemainingOfAppend
    <3>7. Resequence(Append(u, e)) = Append(Resequence(u), one)
      BY <3>2, <3>4, ResequenceOfAppend
    <3>8. Twice(Append(t, e)) = IF e.id \in H THEN v ELSE Append(v, one)
      BY <3>2, <3>5, <3>6, <3>7, RemainingOfAppend
    <3>9. Both(Append(t, e)) = IF e.id \in H THEN w ELSE Append(w, e)
      BY <2>4, <2>8, <3>1, RemainingOfAppend
    <3>10. Resequence(v) = Resequence(w) /\ Len(v) = Len(w)
      <4>1. Resequence(v) = Resequence(w)
        BY <2>5, <3>1
      <4>2. QED
        BY <3>2, <3>3, <4>1, ResequenceIs
    <3>11. CASE e.id \in H
      BY <3>8, <3>9, <3>10, <3>11
    <3>12. CASE e.id \notin H
      <4>1. [one EXCEPT !.seq = Len(v)] = [e EXCEPT !.seq = Len(w)]
        <5>1. PICK m : m = Len(w)
          OBVIOUS
        <5>2. [one EXCEPT !.seq = m] = [e EXCEPT !.seq = m]
          BY <2>4, <3>4 DEF IsEvent
        <5>3. QED
          BY <3>10, <5>1, <5>2
      <4>2. Resequence(Append(v, one)) = Append(Resequence(v), [one EXCEPT !.seq = Len(v)])
        BY <3>3, ResequenceOfAppend
      <4>3. Resequence(Append(w, e)) = Append(Resequence(w), [e EXCEPT !.seq = Len(w)])
        BY <3>2, ResequenceOfAppend
      <4>4. QED
        BY <3>8, <3>9, <3>10, <3>12, <4>1, <4>2, <4>3
    <3>13. QED
      BY <3>11, <3>12
  <2>9. QED
    BY <2>7, <2>8
<1>4. n \in Good
  BY <1>1, <1>2, <1>3, Counting
<1>5. SubSeq(s, 1, n) = s
  BY FirstItems
<1>6. n <= n
  BY <1>1
<1>7. Resequence(Twice(SubSeq(s, 1, n))) = Resequence(Both(SubSeq(s, 1, n)))
  BY <1>4, <1>6
<1>8. PICK t : t = SubSeq(s, 1, n)
  OBVIOUS
<1>9. t = s
  BY <1>5, <1>8
<1> QED
  BY <1>7, <1>8, <1>9

-------------------------------------------------------------------------------
(* The levels that are one ddmin call.                                       *)

SingleLevels == EventLevels \union {"files", "environment"}

\* What validate_capsule requires of ids and references: an event's id is its own,
\* and it refers to events before it.
InOrder(c) ==
    /\ \A i, j \in 1..Len(c.events) : c.events[i].id = c.events[j].id => i = j
    /\ \A j \in 1..Len(c.events) : \A id \in {c.events[j].parent} \union c.events[j].deps :
           id = None \/ \E i \in 1..(j - 1) : c.events[i].id = id

LEMMA ValidIsInOrder ==
    ASSUME NEW c, IsCapsule(c), Valid(c)
    PROVE  InOrder(c)
<1> DEFINE s == c.events
           n == Len(s)
           earlier(j) == SubSeq(s, 1, j - 1)
<1>1. IsList(s) /\ n \in Nat /\ DOMAIN s = 1..n
  BY ListIs DEF IsCapsule
<1>2. \A j \in 1..n : ValidEvent(s[j], earlier(j))
  BY <1>1 DEF Valid
<1>3. ASSUME NEW j \in 1..n PROVE Range(earlier(j)) = {s[i] : i \in 1..(j - 1)}
  <2>1. PICK k : k = j - 1
    OBVIOUS
  <2>2. k \in Nat /\ k <= Len(s)
    BY <1>1, <2>1
  <2>3. Range(SubSeq(s, 1, k)) = {s[i] : i \in 1..k}
    BY <1>1, <2>2, FirstItems
  <2>4. QED
    BY <2>1, <2>3
<1> HIDE DEF s, n, earlier
<1>4. ASSUME NEW i \in 1..n, NEW j \in 1..n, s[i].id = s[j].id, i < j PROVE FALSE
  <2>1. s[i] \in Range(earlier(j))
    BY <1>1, <1>3, <1>4
  <2>2. s[j].id \notin {p.id : p \in Range(earlier(j))}
    BY <1>2 DEF ValidEvent
  <2>3. QED
    BY <1>4, <2>1, <2>2
<1>5. \A i, j \in 1..n : s[i].id = s[j].id => i = j
  BY <1>1, <1>4
<1>6. ASSUME NEW j \in 1..n, NEW id \in {s[j].parent} \union s[j].deps, id # None
      PROVE  \E i \in 1..(j - 1) : s[i].id = id
  <2>1. id \in {p.id : p \in Range(earlier(j))}
    BY <1>2, <1>6 DEF ValidEvent
  <2>2. QED
    BY <1>3, <2>1
<1> QED
  BY <1>5, <1>6 DEF InOrder, s, n

LEMMA UnitsDistinct ==
    ASSUME NEW c, IsCapsule(c), InOrder(c), NEW name \in SingleLevels, NEW t
    PROVE  Distinct(Units(c, name, t))
<1>1. CASE name \in EventLevels
  <2> DEFINE events == Among(c.events, {e \in Range(c.events) : IsLevelUnit(c, e, name)})
             units == EventUnits(c, name)
  <2>1. IsList(c.events) /\ Distinct(c.events)
    BY DEF IsCapsule, InOrder, Distinct
  <2>2. IsList(events) /\ Distinct(events) /\ Range(events) \subseteq Range(c.events)
    BY <2>1, AmongOfList
  <2>3. units = [i \in DOMAIN events |-> events[i].id]
    BY DEF EventUnits
  <2> HIDE DEF events, units
  <2>4. \A e, f \in Range(c.events) : e.id = f.id => e = f
    BY <2>1, ListIs DEF InOrder
  <2>5. Len(units) = Len(events) /\ DOMAIN events = 1..Len(events)
        /\ \A i \in 1..Len(events) : events[i] \in Range(c.events)
    BY <2>2, <2>3, ListIs, ListFrom
  <2>6. Distinct(units)
    BY <2>2, <2>3, <2>4, <2>5 DEF Distinct
  <2>7. QED
    BY <1>1, <2>6 DEF Units, units, EventLevels
<1>2. CASE name = "files"
  BY <1>2, SetInOrderDistinct DEF Units, IsCapsule, EventLevels
<1>3. CASE name = "environment"
  BY <1>3, SetInOrderDistinct DEF Units, IsCapsule, EventLevels
<1> QED
  BY <1>1, <1>2, <1>3 DEF SingleLevels

KeptInv ==
    phase = "levels" /\ search # NoSearch /\ Name \in SingleLevels => Distinct(search.kept)

-------------------------------------------------------------------------------
(* The events that go with those removed.                                    *)

Gone(c, requested) == Consumers(c, requested \ Protected(c), Protected(c))

\* The function of Consumers.
Grows(s, removed, protected, f) ==
    f = [n \in 0..Len(s) |->
            IF n = 0 THEN removed
            ELSE UNION {before \union
                     {e.id : e \in {g \in {s[n]} :
                         g.id \notin protected /\ (g.parent \in before \/ g.deps \intersect before # {})}} :
                     before \in {f[n - 1]}}]

\* Event `e' goes when those in `before' do.
Follows(e, protected, before) ==
    e.id \notin protected /\ (e.parent \in before \/ \E d \in e.deps : d \in before)

LEMMA ConsumersGrow ==
    ASSUME NEW c, IsList(c.events), NEW removed, NEW protected
    PROVE  \E f : /\ Grows(c.events, removed, protected, f)
                  /\ Consumers(c, removed, protected) = f[Len(c.events)]
<1> DEFINE s == c.events
           n == Len(s)
           T == SUBSET (removed \union {s[i].id : i \in 1..n})
           more(before, i) ==
               IF i \in 1..n
               THEN before \union
                     {e.id : e \in {g \in {s[i]} :
                         g.id \notin protected /\ (g.parent \in before \/ g.deps \intersect before # {})}}
               ELSE before
           step == [p \in T \X Nat |-> more(p[1], p[2])]
           g0 == CHOOSE f : Grows(s, removed, protected, f)
<1>1. n \in Nat
  BY ListIs
<1>2. ASSUME NEW before \in T, NEW i \in Nat PROVE more(before, i) \in T
  <2>1. CASE i \in 1..n
    <3>1. \A e \in {g \in {s[i]} :
                 g.id \notin protected /\ (g.parent \in before \/ g.deps \intersect before # {})} :
              e.id \in {s[j].id : j \in 1..n}
      BY <2>1
    <3>2. QED
      BY <1>2, <2>1, <3>1
  <2>2. CASE i \notin 1..n
    BY <1>2, <2>2
  <2>3. QED
    BY <2>1, <2>2
<1>3. removed \in T
  OBVIOUS
<1> HIDE DEF T
<1>4. step \in [T \X Nat -> T]
  BY <1>2
<1>5. \A before \in T, i \in Nat : step[<<before, i>>] = more(before, i)
  OBVIOUS
<1> HIDE DEF step
<1>6. PICK f \in [0..n -> T] : Goes(f, n, removed, step)
  BY <1>1, <1>3, <1>4, Recursion
<1>7. ASSUME NEW i \in 0..n
      PROVE  f[i] = IF i = 0 THEN removed
                    ELSE UNION {before \union
                           {e.id : e \in {g \in {s[i]} :
                               g.id \notin protected /\ (g.parent \in before \/ g.deps \intersect before # {})}} :
                           before \in {f[i - 1]}}
  <2>1. CASE i = 0
    BY <1>6, <2>1 DEF Goes
  <2>2. CASE i # 0
    <3>1. i \in 1..n /\ i - 1 \in 0..n /\ i \in Nat
      BY <1>1, <2>2
    <3>2. PICK before \in T : before = f[i - 1]
      BY <1>6, <3>1
    <3>3. f[i] = more(before, i)
      BY <1>5, <1>6, <3>1, <3>2 DEF Goes
    <3>4. \A x : UNION {x} = x
      OBVIOUS
    <3>5. QED
      BY <2>2, <3>1, <3>2, <3>3, <3>4
  <2>3. QED
    BY <2>1, <2>2
<1>8. Grows(s, removed, protected, f)
  BY <1>6, <1>7 DEF Grows
<1>9. Grows(s, removed, protected, g0)
  BY <1>8
<1>10. Consumers(c, removed, protected) = g0[n]
  BY DEF Consumers, Grows
<1> QED
  BY <1>9, <1>10

LEMMA GrowsNext ==
    ASSUME NEW s, IsList(s), NEW removed, NEW protected, NEW f, Grows(s, removed, protected, f)
    PROVE  /\ f[0] = removed
           /\ \A i \in Nat : i + 1 <= Len(s) =>
                  \A id : id \in f[i + 1] <=>
                      id \in f[i] \/ (id = s[i + 1].id /\ Follows(s[i + 1], protected, f[i]))
<1> DEFINE n == Len(s)
           added(before, i) ==
               {e.id : e \in {g \in {s[i]} :
                   g.id \notin protected /\ (g.parent \in before \/ g.deps \intersect before # {})}}
<1>1. n \in Nat
  BY ListIs
<1>2. f = [i \in 0..n |-> IF i = 0 THEN removed
                          ELSE UNION {before \union added(before, i) : before \in {f[i - 1]}}]
  BY DEF Grows
<1>3. ASSUME NEW before, NEW i, NEW id
      PROVE  id \in added(before, i) <=> id = s[i].id /\ Follows(s[i], protected, before)
  BY DEF Follows
<1> HIDE DEF n, added
<1>4. f[0] = removed
  BY <1>1, <1>2
<1>5. ASSUME NEW i \in Nat, i + 1 <= n, NEW id
      PROVE  id \in f[i + 1] <=>
                 id \in f[i] \/ (id = s[i + 1].id /\ Follows(s[i + 1], protected, f[i]))
  <2>1. i + 1 \in 0..n /\ i + 1 # 0 /\ (i + 1) - 1 = i
    BY <1>1, <1>5
  <2>2. f[i + 1] = UNION {before \union added(before, i + 1) : before \in {f[i]}}
    BY <1>2, <2>1
  <2>3. PICK before : before = f[i]
    OBVIOUS
  <2>4. f[i + 1] = before \union added(before, i + 1)
    BY <2>2, <2>3
  <2>5. QED
    BY <1>3, <2>3, <2>4
<1> QED
  BY <1>4, <1>5 DEF n

\* An event of a valid capsule goes exactly when it may, and it was asked for, its
\* parent goes or one of its dependencies does: what the loop of remove_events
\* reaches is a fixed point, although one pass over the events finds it.
LEMMA GoneIs ==
    ASSUME NEW c, IsCapsule(c), InOrder(c), NEW requested, None \notin requested
    PROVE  /\ None \notin Gone(c, requested)
           /\ \A n \in 1..Len(c.events) :
                  LET e == c.events[n] IN
                  e.id \in Gone(c, requested) <=>
                      /\ e.id \notin Protected(c)
                      /\ \/ e.id \in requested
                         \/ e.parent \in Gone(c, requested)
                         \/ \E d \in e.deps : d \in Gone(c, requested)
<1> DEFINE s == c.events
           L == Len(s)
           protected == Protected(c)
           removed == requested \ protected
<1>1. IsList(s) /\ L \in Nat /\ \A i \in 1..L : IsEvent(s[i])
  BY ListIs DEF IsCapsule
<1>2. PICK f : Grows(s, removed, protected, f) /\ Gone(c, requested) = f[L]
  BY <1>1, ConsumersGrow DEF Gone
<1>3. f[0] = removed
  BY <1>1, <1>2, GrowsNext
<1>4. \A i \in Nat : i + 1 <= L =>
          \A id : id \in f[i + 1] <=>
              id \in f[i] \/ (id = s[i + 1].id /\ Follows(s[i + 1], protected, f[i]))
  BY <1>1, <1>2, GrowsNext
<1>5. \A i, j \in 1..L : s[i].id = s[j].id => i = j
  BY DEF InOrder
<1>6. \A j \in 1..L : \A id \in {s[j].parent} \union s[j].deps :
          id = None \/ \E i \in 1..(j - 1) : s[i].id = id
  BY DEF InOrder
<1> HIDE DEF s, L, protected
\* The id of no event is the root's.
<1>7. ASSUME NEW k \in Nat, k <= L PROVE None \notin f[k]
  <2> DEFINE Good == {m \in Nat : m <= L => None \notin f[m]}
  <2>1. 0 \in Good
    BY <1>3
  <2>2. ASSUME NEW m \in Nat, m \in Good PROVE m + 1 \in Good
    <3>1. SUFFICES ASSUME m + 1 <= L, None \in f[m + 1] PROVE FALSE
      OBVIOUS
    <3>2. m + 1 \in 1..L /\ m <= L
      BY <1>1, <3>1
    <3>3. None = s[m + 1].id
      BY <1>4, <2>2, <3>1, <3>2
    <3>4. QED
      BY <1>1, <3>2, <3>3 DEF IsEvent
  <2>3. k \in Good
    <3> HIDE DEF Good
    <3>1. QED
      BY <2>1, <2>2, Counting
  <2>4. QED
    BY <1>7, <2>3
\* What is in early stays.
<1>8. ASSUME NEW i \in 1..L, NEW k \in Nat, k <= L, i <= k
      PROVE  s[i].id \in f[k] <=> s[i].id \in f[i]
  <2> DEFINE Good == {m \in Nat : m <= L /\ i <= m => (s[i].id \in f[m] <=> s[i].id \in f[i])}
  <2>0. i \in Nat /\ i # 0
    OBVIOUS
  <2>1. 0 \in Good
    BY <2>0
  <2>2. ASSUME NEW m \in Nat, m \in Good PROVE m + 1 \in Good
    <3>1. SUFFICES ASSUME m + 1 <= L, i <= m + 1
                   PROVE  s[i].id \in f[m + 1] <=> s[i].id \in f[i]
      OBVIOUS
    <3>2. CASE i = m + 1
      BY <3>2
    <3>3. CASE i # m + 1
      <4>1. i <= m /\ m <= L /\ m + 1 \in 1..L
        BY <1>1, <2>0, <3>1, <3>3
      <4>2. s[i].id # s[m + 1].id
        BY <1>5, <3>3, <4>1
      <4>3. s[i].id \in f[m + 1] <=> s[i].id \in f[m]
        BY <1>4, <3>1, <4>2
      <4>4. QED
        BY <2>2, <4>1, <4>3
    <3>4. QED
      BY <3>2, <3>3
  <2>3. k \in Good
    <3> HIDE DEF Good
    <3>1. QED
      BY <2>1, <2>2, Counting
  <2>4. QED
    BY <1>8, <2>3
\* No event is in before its turn, unless it was asked for.
<1>9. ASSUME NEW i \in 1..L, NEW k \in Nat, k < i
      PROVE  s[i].id \in f[k] <=> s[i].id \in removed
  <2> DEFINE Good == {m \in Nat : m < i => (s[i].id \in f[m] <=> s[i].id \in removed)}
  <2>0. i \in Nat /\ i <= L
    BY <1>1
  <2>1. 0 \in Good
    BY <1>3
  <2>2. ASSUME NEW m \in Nat, m \in Good PROVE m + 1 \in Good
    <3>1. SUFFICES ASSUME m + 1 < i
                   PROVE  s[i].id \in f[m + 1] <=> s[i].id \in removed
      OBVIOUS
    <3>2. m < i /\ m + 1 <= L /\ m + 1 \in 1..L /\ i # m + 1
      BY <1>1, <2>0, <3>1
    <3>3. s[i].id # s[m + 1].id
      BY <1>5, <3>2
    <3>4. s[i].id \in f[m + 1] <=> s[i].id \in f[m]
      BY <1>4, <3>2, <3>3
    <3>5. QED
      BY <2>2, <3>2, <3>4
  <2>3. k \in Good
    <3> HIDE DEF Good
    <3>1. QED
      BY <2>1, <2>2, Counting
  <2>4. QED
    BY <1>9, <2>3
<1>10. ASSUME NEW n \in 1..L
       PROVE  s[n].id \in f[L] <=>
                  /\ s[n].id \notin protected
                  /\ \/ s[n].id \in requested
                     \/ s[n].parent \in f[L]
                     \/ \E d \in s[n].deps : d \in f[L]
  <2>1. PICK m \in Nat : m + 1 = n /\ m < n /\ m <= L
    <3>1. n - 1 \in Nat /\ (n - 1) + 1 = n /\ n - 1 < n /\ n - 1 <= L
      BY <1>1
    <3>2. QED
      BY <3>1
  <2>2. s[n].id \in f[L] <=> s[n].id \in f[m + 1]
    BY <1>1, <1>8, <2>1
  <2>3. s[n].id \in f[m + 1] <=> s[n].id \in f[m] \/ Follows(s[n], protected, f[m])
    BY <1>1, <1>4, <2>1
  <2>4. s[n].id \in f[m] <=> s[n].id \in removed
    BY <1>9, <2>1
  <2>5. ASSUME NEW id \in {s[n].parent} \union s[n].deps PROVE id \in f[m] <=> id \in f[L]
    <3>1. CASE id = None
      BY <1>1, <1>7, <2>1, <3>1
    <3>2. CASE id # None
      <4>1. PICK i \in 1..(n - 1) : s[i].id = id
        BY <1>6, <3>2
      <4>2. i \in 1..L /\ i <= m /\ i <= L
        BY <1>1, <2>1
      <4>3. QED
        BY <1>1, <1>8, <2>1, <4>1, <4>2
    <3>3. QED
      BY <3>1, <3>2
  <2>6. Follows(s[n], protected, f[m]) <=> Follows(s[n], protected, f[L])
    BY <2>5 DEF Follows
  <2>7. QED
    BY <2>2, <2>3, <2>4, <2>6 DEF Follows
<1>11. None \notin f[L]
  BY <1>1, <1>7
<1> QED
  BY <1>2, <1>10, <1>11 DEF s, L, protected

LEMMA RemovedIs ==
    ASSUME NEW c, IsCapsule(c), NEW requested
    PROVE  /\ RemoveEvents(c, requested) =
                  [events |-> Resequence(Remaining(c.events, Gone(c, requested))),
                   workspace |-> c.workspace, environment |-> c.environment]
           /\ RemoveEvents(c, requested).events = Resequence(Remaining(c.events, Gone(c, requested)))
           /\ RemoveEvents(c, requested).workspace = c.workspace
           /\ RemoveEvents(c, requested).environment = c.environment
<1>1. PICK after : after = Resequence(Remaining(c.events, Gone(c, requested)))
  OBVIOUS
<1>2. RemoveEvents(c, requested) = [c EXCEPT !.events = after]
  BY <1>1 DEF RemoveEvents, Gone
<1>3. [c EXCEPT !.events = after] =
          [events |-> after, workspace |-> c.workspace, environment |-> c.environment]
  BY DEF IsCapsule
<1> QED
  BY <1>1, <1>2, <1>3

LEMMA RemainingAgrees ==
    ASSUME NEW s, IsList(s), NEW G, NEW H, \A e \in Range(s) : e.id \in G <=> e.id \in H
    PROVE  Remaining(s, G) = Remaining(s, H)
<1> DEFINE T == {i \in 1..Len(s) : s[i].id \notin G}
           U == {i \in 1..Len(s) : s[i].id \notin H}
<1>1. PICK f : Picks(s, T, f) /\ Remaining(s, G) = f[Len(s)]
  BY RemainingIsPicked
<1>2. PICK g : Picks(s, U, g) /\ Remaining(s, H) = g[Len(s)]
  BY RemainingIsPicked
<1>3. Len(s) \in Nat /\ \A i \in 1..Len(s) : i \in T <=> i \in U
  BY ListIs
<1> HIDE DEF T, U
<1>4. f[Len(s)] = g[Len(s)]
  BY <1>1, <1>2, <1>3, PicksAgree
<1> QED
  BY <1>1, <1>2, <1>4

\* The same event, but for its number.
Like(e, f) ==
    /\ e.id = f.id /\ e.kind = f.kind /\ e.parent = f.parent
    /\ e.deps = f.deps /\ e.payload = f.payload

LEMMA LeftEvents ==
    ASSUME NEW c, IsCapsule(c), NEW G, NEW t, t = Resequence(Remaining(c.events, G))
    PROVE  /\ \A e \in Range(t) : \E g \in Range(c.events) : g.id \notin G /\ Like(e, g)
           /\ \A g \in Range(c.events) : g.id \notin G => \E e \in Range(t) : Like(e, g)
<1> DEFINE u == Remaining(c.events, G)
<1>1. IsList(u) /\ Range(u) = {e \in Range(c.events) : e.id \notin G}
  BY RemainingOfList DEF IsCapsule
<1>2. t = Resequence(u)
  OBVIOUS
<1> HIDE DEF u
<1>3. IsList(t) /\ Len(t) = Len(u) /\ \A i \in 1..Len(u) : t[i] = [u[i] EXCEPT !.seq = i - 1]
  BY <1>1, <1>2, ResequenceIs
<1>4. \A i \in 1..Len(u) : u[i] \in Range(u) /\ IsEvent(u[i])
  BY <1>1, ListIs DEF IsCapsule
<1>5. ASSUME NEW i \in 1..Len(u) PROVE Like(t[i], u[i])
  <2>1. PICK m : m = i - 1
    OBVIOUS
  <2>2. t[i] = [u[i] EXCEPT !.seq = m] /\ IsEvent(u[i])
    BY <1>3, <1>4, <2>1
  <2>3. QED
    BY <2>2 DEF IsEvent, Like
<1>6. ASSUME NEW e \in Range(t) PROVE \E g \in Range(c.events) : g.id \notin G /\ Like(e, g)
  <2>1. PICK i \in 1..Len(u) : e = t[i]
    BY <1>3, ListIs
  <2>2. QED
    BY <1>1, <1>4, <1>5, <2>1
<1>7. ASSUME NEW g \in Range(c.events), g.id \notin G PROVE \E e \in Range(t) : Like(e, g)
  <2>1. PICK i \in 1..Len(u) : g = u[i]
    BY <1>1, <1>7, ListIs
  <2>2. t[i] \in Range(t)
    BY <1>3, <2>1, ListIs
  <2>3. QED
    BY <1>5, <2>1, <2>2
<1> QED
  BY <1>6, <1>7

\* Events of kind "run" are known by their ids.
LEMMA ProtectedIs ==
    ASSUME NEW c, IsCapsule(c), InOrder(c), NEW e \in Range(c.events)
    PROVE  e.id \in Protected(c) <=> e.kind = "run"
<1>1. \A f \in Range(c.events) : f.id = e.id => f = e
  BY ListIs DEF IsCapsule, InOrder
<1> QED
  BY <1>1 DEF Protected

\* Removing one more event from what a removal has left is removing both at once.
LEMMA RemovedTwice ==
    ASSUME NEW c, IsCapsule(c), InOrder(c), NEW first, None \notin first, NEW x, x # None,
           NEW r, r = RemoveEvents(c, first), IsCapsule(r), InOrder(r),
           NEW one, one = {x}, NEW both, both = first \union {x}
    PROVE  RemoveEvents(r, one) = RemoveEvents(c, both)
<1> DEFINE s == c.events
           L == Len(s)
           G == Gone(c, first)
           H == Gone(r, {x})
           K == Gone(c, first \union {x})
<1>1. IsList(s) /\ L \in Nat /\ \A i \in 1..L : s[i] \in Range(s)
  BY ListIs DEF IsCapsule
<1>2. r.events = Resequence(Remaining(s, G)) /\ IsList(r.events)
  BY RemovedIs DEF IsCapsule
<1>3. /\ None \notin G
      /\ \A n \in 1..L : s[n].id \in G <=>
             /\ s[n].id \notin Protected(c)
             /\ s[n].id \in first \/ s[n].parent \in G \/ \E d \in s[n].deps : d \in G
  BY GoneIs
<1>4. /\ None \notin K
      /\ \A n \in 1..L : s[n].id \in K <=>
             /\ s[n].id \notin Protected(c)
             /\ s[n].id \in first \union {x} \/ s[n].parent \in K \/ \E d \in s[n].deps : d \in K
  BY GoneIs
<1>5. /\ None \notin H
      /\ \A n \in 1..Len(r.events) : r.events[n].id \in H <=>
             /\ r.events[n].id \notin Protected(r)
             /\ \/ r.events[n].id \in {x}
                \/ r.events[n].parent \in H
                \/ \E d \in r.events[n].deps : d \in H
  BY GoneIs
<1>6. \A j \in 1..L : \A id \in {s[j].parent} \union s[j].deps :
          id = None \/ \E i \in 1..(j - 1) : s[i].id = id
  BY DEF InOrder
<1>7. \A e \in Range(s) : e.id \in Protected(c) <=> e.kind = "run"
  BY ProtectedIs
<1>8. \A e \in Range(r.events) : e.id \in Protected(r) <=> e.kind = "run"
  BY ProtectedIs
<1>9. \A g \in Range(s) : g.id \notin G => \E e \in Range(r.events) : Like(e, g)
  BY <1>2, LeftEvents
<1> HIDE DEF s, L, G, H, K
\* An event that is left goes from the rest when it goes from the rest.
<1>10. ASSUME NEW n \in 1..L, s[n].id \notin G
       PROVE  s[n].id \in H <=>
                  /\ s[n].id \notin Protected(c)
                  /\ s[n].id = x \/ s[n].parent \in H \/ \E d \in s[n].deps : d \in H
  <2>1. PICK e \in Range(r.events) : Like(e, s[n])
    BY <1>1, <1>9, <1>10
  <2>2. PICK m \in 1..Len(r.events) : e = r.events[m]
    BY <1>2, ListIs
  <2>3. e.id \in Protected(r) <=> s[n].id \in Protected(c)
    BY <1>1, <1>7, <1>8, <2>1 DEF Like
  <2>4. QED
    BY <1>5, <2>1, <2>2, <2>3 DEF Like
<1> DEFINE Agree(k) == s[k].id \in K <=> s[k].id \in G \/ s[k].id \in H
           Good == {n \in Nat : \A k \in 1..L : k <= n => Agree(k)}
<1>11. 0 \in Good
  BY <1>1
<1>12. ASSUME NEW n \in Nat, n \in Good PROVE n + 1 \in Good
  <2>1. SUFFICES ASSUME n + 1 \in 1..L PROVE Agree(n + 1)
    BY <1>1, <1>12
  <2>2. PICK e : e = s[n + 1]
    OBVIOUS
  <2>3. ASSUME NEW id \in {e.parent} \union e.deps
        PROVE  id \in K <=> id \in G \/ id \in H
    <3>1. CASE id = None
      BY <1>3, <1>4, <1>5, <3>1
    <3>2. CASE id # None
      <4>1. PICK i \in 1..((n + 1) - 1) : s[i].id = id
        BY <1>6, <2>1, <2>2, <3>2
      <4>2. i \in 1..L /\ i <= n
        BY <1>1, <2>1
      <4>3. QED
        BY <1>12, <4>1, <4>2
    <3>3. QED
      BY <3>1, <3>2
  <2>4. e.id \in K <=> /\ e.id \notin Protected(c)
                       /\ \/ e.id \in first \union {x} \/ e.parent \in K
                          \/ \E d \in e.deps : d \in K
    BY <1>4, <2>1, <2>2
  <2>5. e.id \in G <=> /\ e.id \notin Protected(c)
                       /\ e.id \in first \/ e.parent \in G \/ \E d \in e.deps : d \in G
    BY <1>3, <2>1, <2>2
  <2>6. CASE e.id \in G
    BY <2>2, <2>3, <2>4, <2>5, <2>6
  <2>7. CASE e.id \notin G
    <3>1. e.id \in H <=> /\ e.id \notin Protected(c)
                         /\ e.id = x \/ e.parent \in H \/ \E d \in e.deps : d \in H
      BY <1>10, <2>1, <2>2, <2>7
    <3>2. QED
      BY <2>2, <2>3, <2>4, <2>5, <2>7, <3>1
  <2>8. QED
    BY <2>6, <2>7
<1>13. L \in Good
  <2> HIDE DEF Good
  <2>1. QED
    BY <1>1, <1>11, <1>12, Counting
<1>14. ASSUME NEW e \in Range(s) PROVE e.id \in K <=> e.id \in G \union H
  <2>1. PICK k \in 1..L : e = s[k]
    BY <1>1, ListIs DEF L
  <2>2. Agree(k)
    BY <1>1, <1>13
  <2>3. QED
    BY <2>1, <2>2
<1>15. Remaining(s, K) = Remaining(s, G \union H)
  BY <1>1, <1>14, RemainingAgrees
<1>16. Resequence(Remaining(r.events, H)) = Resequence(Remaining(s, K))
  <2>1. \A e \in Range(s) : IsEvent(e)
    BY DEF IsCapsule, s
  <2>2. Resequence(Remaining(Resequence(Remaining(s, G)), H)) = Resequence(Remaining(s, G \union H))
    BY <1>1, <2>1, RemainingTwice
  <2>3. QED
    BY <1>2, <1>15, <2>2
<1>17. r.workspace = c.workspace /\ r.environment = c.environment
  BY RemovedIs
<1>18. RemoveEvents(r, {x}) =
           [events |-> Resequence(Remaining(r.events, H)),
            workspace |-> r.workspace, environment |-> r.environment]
  BY RemovedIs DEF H
<1>19. RemoveEvents(c, first \union {x}) =
           [events |-> Resequence(Remaining(s, K)),
            workspace |-> c.workspace, environment |-> c.environment]
  BY RemovedIs DEF K, s
<1>20. RemoveEvents(r, {x}) = RemoveEvents(c, first \union {x})
  BY <1>16, <1>17, <1>18, <1>19
<1> QED
  BY <1>20

-------------------------------------------------------------------------------
(* What a level's ddmin call leaves.                                         *)

LEMMA EventUnitsAre ==
    ASSUME NEW c, IsCapsule(c), NEW name
    PROVE  /\ IsList(EventUnits(c, name))
           /\ Range(EventUnits(c, name)) = {e.id : e \in {e \in Range(c.events) : IsLevelUnit(c, e, name)}}
           /\ None \notin Range(EventUnits(c, name))
<1> DEFINE chosen == {e \in Range(c.events) : IsLevelUnit(c, e, name)}
           events == Among(c.events, chosen)
           ids == EventUnits(c, name)
<1>1. IsList(events) /\ Range(events) = chosen
  BY AmongOfList DEF IsCapsule
<1>2. ids = [i \in DOMAIN events |-> events[i].id]
  BY DEF EventUnits
<1>3. \A e \in chosen : e.id # None
  BY DEF IsCapsule, IsEvent
<1> HIDE DEF events, ids, chosen
<1>4. PICK n \in Nat : n = Len(events) /\ DOMAIN events = 1..n
  BY <1>1, ListIs
<1>5. DOMAIN ids = 1..n /\ ids = [i \in 1..n |-> ids[i]] /\ \A i \in 1..n : ids[i] = events[i].id
  BY <1>2, <1>4
<1>6. IsList(ids)
  BY <1>5, ListFrom
<1>7. Range(ids) = {e.id : e \in chosen}
  BY <1>1, <1>4, <1>5 DEF Range
<1> QED
  BY <1>3, <1>6, <1>7 DEF ids, chosen

\* What it takes to remove twice, in one word.
RemovesTwice(c, first, x, r, one, both) ==
    /\ IsCapsule(c) /\ InOrder(c) /\ None \notin first /\ x # None
    /\ r = RemoveEvents(c, first) /\ IsCapsule(r) /\ InOrder(r)
    /\ one = {x} /\ both = first \union {x}
LEMMA RemovedAgain ==
    ASSUME NEW c, NEW first, NEW x, NEW r, NEW one, NEW both, RemovesTwice(c, first, x, r, one, both)
    PROVE  RemoveEvents(r, one) = RemoveEvents(c, both)
<1>1. /\ IsCapsule(c) /\ InOrder(c) /\ None \notin first /\ x # None
  BY DEF RemovesTwice
<1>2. r = RemoveEvents(c, first) /\ IsCapsule(r) /\ InOrder(r)
  BY DEF RemovesTwice
<1>3. one = {x} /\ both = first \union {x}
  BY DEF RemovesTwice
<1> QED
  BY <1>1, <1>2, <1>3, RemovedTwice

\* An event that a search has kept goes from the result as it goes from the search.
LEMMA EventDeletion ==
    ASSUME NEW c, IsCapsule(c), InOrder(c), NEW name \in EventLevels, NEW t,
           NEW kept, IsList(kept), Distinct(kept), Range(kept) \subseteq Range(Units(c, name, t)),
           NEW r, r = Build(c, name, t, Units(c, name, t), kept), IsCapsule(r), InOrder(r),
           NEW x \in Ids(r), x \in Range(Units(c, name, t))
    PROVE  \E i \in 1..Len(kept) :
               RemoveEvents(r, {x}) = Build(c, name, t, Units(c, name, t), WithoutItem(kept, i))
<1> DEFINE units == Units(c, name, t)
           first == Range(units) \ Range(kept)
           G == Gone(c, first)
<1>1. units = EventUnits(c, name)
  BY DEF Units, EventLevels
<1>2. r = RemoveEvents(c, first)
  BY DEF Build, EventLevels
<1>3. /\ Range(units) = {e.id : e \in {e \in Range(c.events) : IsLevelUnit(c, e, name)}}
      /\ None \notin Range(units)
  BY <1>1, EventUnitsAre
<1>4. PICK g \in Range(c.events) : IsLevelUnit(c, g, name) /\ x = g.id
  BY <1>3
<1>5. x \notin Protected(c)
  <2>1. g.kind # "run"
    BY <1>4 DEF IsLevelUnit, IsSpanUnit, EventLevels
  <2>2. QED
    BY <1>4, <2>1, ProtectedIs
<1>6. None \notin first /\ x # None
  BY <1>3
<1>7. x \notin G
  <2>1. r.events = Resequence(Remaining(c.events, G))
    BY <1>2, RemovedIs
  <2>2. PICK e \in Range(r.events) : e.id = x
    BY DEF Ids, Range
  <2>3. PICK h \in Range(c.events) : h.id \notin G /\ Like(e, h)
    BY <2>1, <2>2, LeftEvents
  <2>4. QED
    BY <2>2, <2>3 DEF Like
<1>8. x \notin first
  <2>1. PICK n \in 1..Len(c.events) : g = c.events[n]
    BY <1>4, ListIs DEF IsCapsule
  <2>2. g.id \in G <=> /\ g.id \notin Protected(c)
                       /\ g.id \in first \/ g.parent \in G \/ \E f \in g.deps : f \in G
    BY <1>6, <2>1, GoneIs
  <2>3. QED
    BY <1>4, <1>5, <1>7, <2>2
<1>9. PICK i \in 1..Len(kept) : kept[i] = x
  BY <1>8, ListIs
<1>10. Range(WithoutItem(kept, i)) = Range(kept) \ {x}
  BY <1>9, WithoutItemOfDistinct
<1>11. Range(units) \ Range(WithoutItem(kept, i)) = first \union {x}
  BY <1>10
<1>12. Build(c, name, t, units, WithoutItem(kept, i)) = RemoveEvents(c, first \union {x})
  <2>1. Build(c, name, t, units, WithoutItem(kept, i)) =
            RemoveEvents(c, Range(units) \ Range(WithoutItem(kept, i)))
    BY DEF Build, EventLevels
  <2>2. QED
    BY <1>11, <2>1
<1> HIDE DEF first, units
<1>13. RemoveEvents(r, {x}) = RemoveEvents(c, first \union {x})
  <2>1. PICK f : f = first
    OBVIOUS
  <2>2. r = RemoveEvents(c, f) /\ None \notin f /\ x # None
    BY <1>2, <1>6, <2>1
  <2>3. PICK one, both : one = {x} /\ both = f \union {x}
    OBVIOUS
  <2>4. RemoveEvents(r, one) = RemoveEvents(c, both)
    <3>1. RemovesTwice(c, f, x, r, one, both)
      BY <2>2, <2>3 DEF RemovesTwice
    <3>2. QED
      BY <3>1, RemovedAgain
  <2>5. QED
    BY <2>1, <2>3, <2>4
<1> QED
  BY <1>12, <1>13 DEF units

\* A deletion from what is left of an event level was tried in the level's search.
LEMMA EventLevelDeletions ==
    ASSUME NEW c, IsCapsule(c), InOrder(c), NEW name \in EventLevels, NEW t,
           NEW kept, IsList(kept), Distinct(kept), Range(kept) \subseteq Range(Units(c, name, t)),
           NEW r, r = Build(c, name, t, Units(c, name, t), kept), IsCapsule(r), InOrder(r),
           NEW d \in LevelDeletions(r, name)
    PROVE  \E i \in 1..Len(kept) : d = Build(c, name, t, Units(c, name, t), WithoutItem(kept, i))
<1> DEFINE units == Units(c, name, t)
           first == Range(units) \ Range(kept)
<1>1. PICK x \in Range(EventUnits(r, name)) : d = RemoveEvents(r, {x})
  <2>1. LevelDeletions(r, name) = {RemoveEvents(r, {id}) : id \in Range(EventUnits(r, name))}
    BY DEF LevelDeletions, EventLevels, JsonLevels
  <2>2. QED
    BY <2>1
<1>2. PICK e \in Range(r.events) : IsLevelUnit(r, e, name) /\ x = e.id
  BY <1>1, EventUnitsAre
<1>3. \A h \in Range(r.events) : \E k \in Range(c.events) : Like(h, k)
  <2>1. r = RemoveEvents(c, first)
    BY DEF Build, EventLevels
  <2>2. PICK G : r.events = Resequence(Remaining(c.events, G))
    BY <2>1, RemovedIs
  <2>3. QED
    BY <2>2, LeftEvents
<1>4. PICK g \in Range(c.events) : Like(e, g)
  BY <1>2, <1>3
<1>5. IsLevelUnit(c, g, name)
  <2>1. IsSpanUnit(r, e) => IsSpanUnit(c, g)
    BY <1>3, <1>4 DEF IsSpanUnit, Like
  <2>2. QED
    BY <1>2, <1>4, <2>1 DEF IsLevelUnit, EventLevels, Like
<1>6. units = EventUnits(c, name)
  BY DEF Units, EventLevels
<1>7. x \in Range(units)
  BY <1>2, <1>4, <1>5, <1>6, EventUnitsAre DEF Like
<1>8. x \in Ids(r)
  BY <1>2 DEF Ids, Range
<1> QED
  BY <1>1, <1>7, <1>8, EventDeletion

LEMMA FileLevelDeletions ==
    ASSUME NEW c, IsCapsule(c), NEW t,
           NEW kept, IsList(kept), Distinct(kept), Range(kept) \subseteq Range(Units(c, "files", t)),
           NEW r, r = Build(c, "files", t, Units(c, "files", t), kept),
           NEW d \in LevelDeletions(r, "files")
    PROVE  \E i \in 1..Len(kept) :
               d = Build(c, "files", t, Units(c, "files", t), WithoutItem(kept, i))
<1> DEFINE left == Restrict(c.workspace, Range(kept))
           units == SetToSeq(Range(kept))
<1>1. PICK w : w = left
  OBVIOUS
<1>2. r = [c EXCEPT !.workspace = w]
  BY <1>1 DEF Build, EventLevels
<1>3. r = [events |-> c.events, workspace |-> w, environment |-> c.environment] /\ r.workspace = w
  BY <1>2 DEF IsCapsule
<1>4. w = [f \in Range(kept) |-> c.workspace[f]] /\ DOMAIN w = Range(kept)
  BY <1>1 DEF Restrict
<1>5. IsFiniteSet(Range(kept))
  BY ListIsFinite
<1>6. IsList(units) /\ Distinct(units) /\ Range(units) = Range(kept)
  BY <1>5, SetInOrder, SetInOrderDistinct
<1>7. Units(r, "files", "files") = units
  BY <1>3, <1>4 DEF Units, EventLevels
<1> HIDE DEF units, left
<1>8. PICK i \in DOMAIN units : d = Build(r, "files", "files", units, WithoutItem(units, i))
  <2>1. LevelDeletions(r, "files") =
            UNION {{Build(r, "files", u, Units(r, "files", u), WithoutItem(Units(r, "files", u), i)) :
                       i \in DOMAIN Units(r, "files", u)} : u \in Range(Targets(r, "files"))}
    BY DEF LevelDeletions, EventLevels, JsonLevels
  <2>2. Range(Targets(r, "files")) = {"files"}
    BY SingletonList DEF Targets, EventLevels, Range
  <2>3. QED
    BY <1>7, <2>1, <2>2
<1>9. i \in 1..Len(units) /\ units[i] \in Range(kept)
  BY <1>6, <1>8, ListIs
<1>10. PICK x : x = units[i]
  OBVIOUS
<1>11. PICK j \in 1..Len(kept) : kept[j] = x
  BY <1>9, <1>10, ListIs
<1>12. /\ Range(WithoutItem(units, i)) = Range(kept) \ {x}
       /\ Range(WithoutItem(kept, j)) = Range(kept) \ {x}
  BY <1>6, <1>9, <1>10, <1>11, WithoutItemOfDistinct
<1>13. PICK S : S = Range(kept) \ {x}
  OBVIOUS
<1>14. PICK v : v = [f \in S |-> c.workspace[f]]
  OBVIOUS
<1>15. Restrict(w, S) = v /\ Restrict(c.workspace, S) = v
  BY <1>4, <1>13, <1>14 DEF Restrict
<1>16. Build(r, "files", "files", units, WithoutItem(units, i)) = [r EXCEPT !.workspace = v]
  BY <1>3, <1>12, <1>13, <1>15 DEF Build, EventLevels
<1>17. Build(c, "files", t, Units(c, "files", t), WithoutItem(kept, j)) = [c EXCEPT !.workspace = v]
  BY <1>12, <1>13, <1>15 DEF Build, EventLevels
<1>18. [r EXCEPT !.workspace = v] = [c EXCEPT !.workspace = v]
  BY <1>3 DEF IsCapsule
<1> QED
  BY <1>8, <1>16, <1>17, <1>18

LEMMA EnvironmentLevelDeletions ==
    ASSUME NEW c, IsCapsule(c), NEW t,
           NEW kept, IsList(kept), Distinct(kept),
           Range(kept) \subseteq Range(Units(c, "environment", t)),
           NEW r, r = Build(c, "environment", t, Units(c, "environment", t), kept),
           NEW d \in LevelDeletions(r, "environment")
    PROVE  \E i \in 1..Len(kept) :
               d = Build(c, "environment", t, Units(c, "environment", t), WithoutItem(kept, i))
<1> DEFINE units == SetToSeq(Range(kept))
<1>1. r = [c EXCEPT !.environment = Range(kept)]
  BY DEF Build, EventLevels
<1>2. r = [events |-> c.events, workspace |-> c.workspace, environment |-> Range(kept)]
      /\ r.environment = Range(kept)
  BY <1>1 DEF IsCapsule
<1>3. IsFiniteSet(Range(kept))
  BY ListIsFinite
<1>4. IsList(units) /\ Distinct(units) /\ Range(units) = Range(kept)
  BY <1>3, SetInOrder, SetInOrderDistinct
<1>5. Units(r, "environment", "environment") = units
  BY <1>2 DEF Units, EventLevels
<1> HIDE DEF units
<1>6. PICK i \in DOMAIN units :
          d = Build(r, "environment", "environment", units, WithoutItem(units, i))
  <2>1. LevelDeletions(r, "environment") =
            UNION {{Build(r, "environment", u, Units(r, "environment", u),
                          WithoutItem(Units(r, "environment", u), i)) :
                       i \in DOMAIN Units(r, "environment", u)} :
                   u \in Range(Targets(r, "environment"))}
    BY DEF LevelDeletions, EventLevels, JsonLevels
  <2>2. Range(Targets(r, "environment")) = {"environment"}
    BY SingletonList DEF Targets, EventLevels, Range
  <2>3. QED
    BY <1>5, <2>1, <2>2
<1>7. i \in 1..Len(units) /\ units[i] \in Range(kept)
  BY <1>4, <1>6, ListIs
<1>8. PICK x : x = units[i]
  OBVIOUS
<1>9. PICK j \in 1..Len(kept) : kept[j] = x
  BY <1>7, <1>8, ListIs
<1>10. /\ Range(WithoutItem(units, i)) = Range(kept) \ {x}
       /\ Range(WithoutItem(kept, j)) = Range(kept) \ {x}
  BY <1>4, <1>7, <1>8, <1>9, WithoutItemOfDistinct
<1>11. PICK S : S = Range(kept) \ {x}
  OBVIOUS
<1>12. Build(r, "environment", "environment", units, WithoutItem(units, i)) =
           [r EXCEPT !.environment = S]
  BY <1>10, <1>11 DEF Build, EventLevels
<1>13. Build(c, "environment", t, Units(c, "environment", t), WithoutItem(kept, j)) =
           [c EXCEPT !.environment = S]
  BY <1>10, <1>11 DEF Build, EventLevels
<1>14. [r EXCEPT !.environment = S] = [c EXCEPT !.environment = S]
  BY <1>2 DEF IsCapsule
<1> QED
  BY <1>6, <1>12, <1>13, <1>14

LEMMA SingleLevelDeletions ==
    ASSUME NEW c, IsCapsule(c), InOrder(c), NEW name \in SingleLevels, NEW t,
           NEW kept, IsList(kept), Distinct(kept), Range(kept) \subseteq Range(Units(c, name, t)),
           NEW r, r = Build(c, name, t, Units(c, name, t), kept), IsCapsule(r), InOrder(r),
           NEW d \in LevelDeletions(r, name)
    PROVE  \E i \in 1..Len(kept) : d = Build(c, name, t, Units(c, name, t), WithoutItem(kept, i))
<1>1. CASE name \in EventLevels
  BY <1>1, EventLevelDeletions
<1>2. CASE name = "files"
  BY <1>2, FileLevelDeletions
<1>3. CASE name = "environment"
  BY <1>3, EnvironmentLevelDeletions
<1> QED
  BY <1>1, <1>2, <1>3 DEF SingleLevels

\* Without units there is nothing to delete.
LEMMA EmptyLevel ==
    ASSUME NEW c, NEW name \in SingleLevels, NEW t, Units(c, name, t) = <<>>
    PROVE  LevelDeletions(c, name) = {}
<1>1. CASE name \in EventLevels
  <2>1. EventUnits(c, name) = <<>>
    BY <1>1 DEF Units, EventLevels
  <2>2. LevelDeletions(c, name) = {RemoveEvents(c, {id}) : id \in Range(EventUnits(c, name))}
    BY <1>1 DEF LevelDeletions, EventLevels, JsonLevels
  <2>3. QED
    BY <2>1, <2>2, EmptyList
<1>2. CASE name \in {"files", "environment"}
  <2>1. \A u : Units(c, name, u) = <<>>
    BY <1>2 DEF Units, EventLevels
  <2>2. LevelDeletions(c, name) =
            UNION {{Build(c, name, u, Units(c, name, u), WithoutItem(Units(c, name, u), i)) :
                       i \in DOMAIN Units(c, name, u)} : u \in Range(Targets(c, name))}
    BY <1>2 DEF LevelDeletions, EventLevels, JsonLevels
  <2>3. DOMAIN <<>> = {}
    OBVIOUS
  <2>4. QED
    BY <2>1, <2>2, <2>3
<1> QED
  BY <1>1, <1>2 DEF SingleLevels

\* Both: what ddmin holds has no unit twice, and at a level's end every deletion
\* from what it left was refused.
SingleInv ==
    /\ KeptInv
    /\ phase = "levels" /\ level > 0 /\ todo = <<>> /\ Name \in SingleLevels =>
           \A d \in LevelDeletions(current, Name) : Refused(d)

LEMMA HeldIsInOrder ==
    ASSUME HoldingInv, IsCapsule(current), phase = "levels"
    PROVE  InOrder(current)
  BY ValidIsInOrder DEF HoldingInv, CurrentIsHeld, Held

LEMMA BeginSearchSingle ==
    ASSUME HoldingInv, LevelsInv, BeginSearch PROVE SingleInv'
<1> DEFINE target == Head(todo)
           units == Units(current, Name, target)
<1>1. /\ phase = "levels" /\ level' = level /\ todo # <<>> /\ search = NoSearch
      /\ current' = current /\ asked' = asked
      /\ IF units = <<>> THEN todo' = Tail(todo) /\ search' = search
                         ELSE search' = SearchOver(units) /\ todo' = todo
  BY DEF BeginSearch, InBulk
<1>2. IsCapsule(current) /\ InOrder(current)
  BY <1>1, HeldIsInOrder DEF LevelsInv
<1>3. Name' = Name
  BY <1>1 DEF Name
<1>4. CASE units = <<>>
  <2>1. search' = NoSearch
    BY <1>1, <1>4
  <2>2. Name \in SingleLevels => LevelDeletions(current, Name) = {}
    BY <1>4, EmptyLevel
  <2>3. QED
    BY <1>1, <1>3, <2>1, <2>2 DEF SingleInv, KeptInv, NoSearch
<1>5. CASE units # <<>>
  <2>1. todo' # <<>> /\ search' = SearchOver(units)
    BY <1>1, <1>5
  <2>2. search'.kept = units
    BY <2>1 DEF SearchOver
  <2>3. Name \in SingleLevels => Distinct(units)
    BY <1>2, UnitsDistinct
  <2> HIDE DEF units
  <2>4. QED
    BY <1>3, <2>1, <2>2, <2>3 DEF SingleInv, KeptInv
<1> QED
  BY <1>4, <1>5

LEMMA SearchStepSingle ==
    ASSUME HoldingInv, LevelsInv, SingleInv, SearchStep PROVE SingleInv'
<1> DEFINE target == Head(todo)
           units == Units(current, Name, target)
<1>1. /\ phase = "levels" /\ todo' = todo /\ todo # <<>> /\ level' = level
      /\ Name \notin JsonLevels /\ search.phase \in {"initial", "scan", "linear"}
  BY DEF SearchStep, Searching, InBulk
<1>2. LevelStands /\ level \in 1..10 /\ IsCapsule(current)
  BY <1>1 DEF LevelsInv, LevelStands
<1>3. IsTarget(current, Name, target)
  BY <1>1, <1>2, TailOfList DEF LevelStands
<1>4. IsList(units)
  BY <1>1, <1>2, <1>3, LevelName, UnitsList
<1>5. SearchesWithin(search, units) /\ (Name \in SingleLevels => Distinct(search.kept))
  BY <1>1, <1>2 DEF LevelStands, NoSearch, SingleInv, KeptInv
<1> HIDE DEF units
<1>6. PICK r : search' = Advance(search, r = "reproduces")
  BY DEF SearchStep
<1>7. PICK reproduced \in BOOLEAN : reproduced <=> r = "reproduces"
  OBVIOUS
<1>8. search' = Advance(search, reproduced)
  BY <1>6, <1>7
<1>9. search'.kept = SearchCandidate(search) \/ search'.kept = search.kept
  <2>1. IsSearch(search) /\ (search.phase = "initial" => search.kept = search.units)
    BY <1>5 DEF SearchesWithin, Within
  <2>2. /\ reproduced => Advance(search, reproduced).kept = SearchCandidate(search)
        /\ ~reproduced => Advance(search, reproduced).kept = search.kept
    BY <1>1, <2>1, AdvanceSearch
  <2>3. QED
    BY <1>8, <2>2
<1>10. Name \in SingleLevels => Distinct(SearchCandidate(search))
  BY <1>1, <1>4, <1>5, CandidateDistinct
<1>11. Name' = Name
  BY <1>1 DEF Name
<1> QED
  BY <1>1, <1>5, <1>9, <1>10, <1>11 DEF SingleInv, KeptInv

LEMMA EndSearchSingle ==
    ASSUME HoldingInv, HoldingInv', LevelsInv, LevelsInv', SearchInv, SingleInv, EndSearch
    PROVE  SingleInv'
<1> DEFINE target == Head(todo)
           units == Units(current, Name, target)
<1>1. /\ phase = "levels" /\ phase' = phase /\ level' = level /\ todo # <<>>
      /\ Name \notin JsonLevels /\ search.phase = "done" /\ search' = NoSearch
      /\ current' = Result /\ asked' = asked
  BY DEF EndSearch, InBulk
<1>2. Name' = Name
  BY <1>1 DEF Name
<1>3. SUFFICES ASSUME Name \in SingleLevels, NEW d \in LevelDeletions(current', Name)
               PROVE  Refused(d)'
  BY <1>1, <1>2 DEF SingleInv, KeptInv
<1>4. LevelStands /\ level \in 1..10 /\ IsCapsule(current) /\ InOrder(current)
  BY <1>1, HeldIsInOrder DEF LevelsInv, LevelStands
<1>5. IsTarget(current, Name, target)
  BY <1>1, <1>4, TailOfList DEF LevelStands
<1>6. SearchesWithin(search, units) /\ Tries(search, RefusedUnits) /\ Distinct(search.kept)
  BY <1>1, <1>3, <1>4 DEF LevelStands, NoSearch, SearchInv, SingleInv, KeptInv
<1>7. search.units = units /\ IsList(search.kept) /\ Range(search.kept) \subseteq Range(units)
  BY <1>6 DEF SearchesWithin, Within
<1>8. PICK r : r = current'
  OBVIOUS
<1>9. r = Build(current, Name, target, units, search.kept)
  BY <1>1, <1>7, <1>8 DEF Result
<1>10. IsCapsule(r) /\ InOrder(r)
  <2>1. IsCapsule(r) /\ Valid(r)
    BY <1>1, <1>8 DEF LevelsInv, HoldingInv, CurrentIsHeld, Held
  <2>2. QED
    BY <2>1, ValidIsInOrder
<1>11. PICK i \in 1..Len(search.kept) :
           d = Build(current, Name, target, units, WithoutItem(search.kept, i))
  <2>1. PICK c, name, kept : c = current /\ name = Name /\ kept = search.kept
    OBVIOUS
  <2>2. \E i \in 1..Len(kept) : d = Build(c, name, target, Units(c, name, target), WithoutItem(kept, i))
    BY <1>3, <1>4, <1>6, <1>7, <1>8, <1>9, <1>10, <2>1, SingleLevelDeletions
  <2>3. QED
    BY <2>1, <2>2
<1>12. Refused(d)
  <2>1. WithoutItem(search.kept, i) \in RefusedUnits
    BY <1>1, <1>6, <1>11 DEF Tries, AllTried
  <2>2. QED
    BY <1>7, <1>11, <2>1 DEF RefusedUnits
<1> QED
  BY <1>1, <1>12 DEF Refused, Cached, asked

LEMMA SingleStep ==
    HoldingInv /\ LevelsInv /\ SearchInv /\ SingleInv /\ [Next]_vars => SingleInv'
<1> SUFFICES ASSUME HoldingInv, LevelsInv, SearchInv, SingleInv, [Next]_vars PROVE SingleInv'
  OBVIOUS
<1>0. HoldingInv' /\ LevelsInv'
  BY HoldingStep, LevelsStep
<1>1. CASE CheckSource
  BY <1>1 DEF CheckSource, SingleInv, KeptInv, HoldingInv, SearchStands, LevelsInv, NoSearch
<1>2. CASE NextLevel
  <2>1. phase = "levels" /\ todo = <<>> /\ level \in 0..10 /\ search' = search
    BY <1>2 DEF NextLevel, LevelsInv
  <2>2. search' = NoSearch
    BY <2>1 DEF HoldingInv, SearchStands, InBulk
  <2>3. CASE level < Len(LevelOrder)
    <3>1. level' = level + 1 /\ todo' = Targets(current, LevelOrder[level + 1])
      BY <1>2, <2>3 DEF NextLevel
    <3>2. todo' = Targets(current, Name')
      BY <3>1 DEF Name
    <3>3. PICK name : name = Name'
      OBVIOUS
    <3>4. name \in SingleLevels => todo' = <<name>>
      BY <3>2, <3>3 DEF SingleLevels, Targets, EventLevels
    <3>5. QED
      BY <2>2, <3>3, <3>4 DEF SingleInv, KeptInv, NoSearch
  <2>4. CASE ~(level < Len(LevelOrder))
    <3>1. phase' = "final"
      BY <1>2, <2>4 DEF NextLevel
    <3>2. QED
      BY <3>1 DEF SingleInv, KeptInv
  <2>5. QED
    BY <2>3, <2>4
<1>3. CASE AcceptPath \/ RejectPath
  <2>1. phase = "levels" /\ Name \in JsonLevels /\ level' = level /\ search' = search
    BY <1>3 DEF AcceptPath, RejectPath, InJson
  <2>2. Name' = Name
    BY <2>1 DEF Name
  <2>3. Name \notin SingleLevels
    BY <2>1 DEF SingleLevels, JsonLevels, EventLevels
  <2>4. QED
    BY <2>2, <2>3 DEF SingleInv, KeptInv
<1>4. CASE FinalEvaluation \/ VerifyDeletion \/ VerificationFails \/ AcceptResult \/ SearchRaises
  <2>1. phase' # "levels"
    BY <1>4 DEF FinalEvaluation, VerifyDeletion, VerificationFails, AcceptResult, SearchRaises
  <2>2. QED
    BY <2>1 DEF SingleInv, KeptInv
<1>5. CASE UNCHANGED vars
  BY <1>5 DEF vars, asked, SingleInv, KeptInv, Name, Refused, Cached, NoSearch
<1> QED
  BY <1>0, <1>1, <1>2, <1>3, <1>4, <1>5, BeginSearchSingle, SearchStepSingle, EndSearchSingle
     DEF Next, Step

LEMMA InitSingle == Init => SingleInv
  BY DEF Init, SingleInv, KeptInv

\* When a level that is one ddmin call ends, or one that starts over after every
\* deletion it accepts, the predicate has refused every single deletion the level
\* can make in the capsule as it then is, whatever capsule and predicate it was
\* given: what an accepted deletion takes along never opens up another one
\* (hierarchy.py:198-252, 345-381, 448-466 and 509-527).
THEOREM LevelsAreExhausted == Spec => []SingleSearchLevelsExhausted
<1>1. LevelsInv /\ SingleInv => SingleSearchLevelsExhausted
  <2> SUFFICES ASSUME LevelsInv, SingleInv,
                      NEW name \in EventLevels \union JsonLevels \union {"files", "environment"},
                      phase = "levels", todo = <<>>, level > 0, Name = name
               PROVE  \A d \in LevelDeletions(current, name) : Refused(d)
    BY DEF SingleSearchLevelsExhausted, LevelExhausted
  <2>1. CASE name \in SingleLevels
    BY <2>1 DEF SingleInv
  <2>2. CASE name \in JsonLevels
    <3>1. \A p \in Range(Targets(current, name)) : Refused(DeletePath(current, name, p))
      BY <2>2, EmptyList DEF LevelsInv, LevelStands
    <3>2. LevelDeletions(current, name) =
              {DeletePath(current, name, p) : p \in Range(Targets(current, name))}
      BY <2>2 DEF LevelDeletions, JsonLevels, EventLevels
    <3>3. QED
      BY <3>1, <3>2
  <2>3. QED
    BY <2>1, <2>2 DEF SingleLevels
<1> QED
  BY <1>1, InitHolding, HoldingStep, InitLevels, LevelsStep, InitSearchInv, SearchInvStep,
     InitSingle, SingleStep, PTL DEF Spec

-------------------------------------------------------------------------------
(* What deletions leave of a sequence.                                       *)

\* What `s' holds beside its i-th item.
Others(s, i) == {s[j] : j \in DOMAIN s \ {i}}

\* `t' holds no more than `s', and without any one of its items no more than `s'
\* without one of its own.
Drawn(t, s) ==
    /\ Range(t) \subseteq Range(s)
    /\ \A i \in DOMAIN t : \E k \in DOMAIN s : Others(t, i) \subseteq Others(s, k)

LEMMA DrawnFromItself == \A s : Drawn(s, s)
  BY DEF Drawn

LEMMA DrawnTwice ==
    ASSUME NEW r, NEW s, NEW t, Drawn(t, s), Drawn(s, r)
    PROVE  Drawn(t, r)
<1>1. Range(t) \subseteq Range(r)
  BY DEF Drawn
<1>2. ASSUME NEW i \in DOMAIN t PROVE \E k \in DOMAIN r : Others(t, i) \subseteq Others(r, k)
  <2>1. PICK j \in DOMAIN s : Others(t, i) \subseteq Others(s, j)
    BY DEF Drawn
  <2>2. PICK k \in DOMAIN r : Others(s, j) \subseteq Others(r, k)
    BY DEF Drawn
  <2>3. QED
    BY <2>1, <2>2
<1> QED
  BY <1>1, <1>2 DEF Drawn

LEMMA WithoutIsDrawn ==
    ASSUME NEW s, IsList(s), NEW a \in Nat, NEW b \in Nat, a <= b, a <= Len(s)
    PROVE  Drawn(Without(s, a, b), s)
<1> DEFINE w == Without(s, a, b)
<1>1. /\ IsList(w)
      /\ \A i \in 1..Len(w) : Stood(i, a, b) \in 1..Len(s) /\ w[i] = s[Stood(i, a, b)]
  BY WithoutItems
<1> HIDE DEF w
<1>2. DOMAIN w = 1..Len(w) /\ DOMAIN s = 1..Len(s) /\ Len(w) \in Nat
  BY <1>1, ListIs
<1>3. \A i, j \in 1..Len(w) : i # j => Stood(i, a, b) # Stood(j, a, b)
  BY DEF Stood
<1>4. Range(w) \subseteq Range(s)
  BY <1>1, <1>2 DEF Range
<1>5. ASSUME NEW i \in DOMAIN w PROVE Others(w, i) \subseteq Others(s, Stood(i, a, b))
  BY <1>1, <1>2, <1>3 DEF Others
<1>6. \A i \in DOMAIN w : Stood(i, a, b) \in DOMAIN s
  BY <1>1, <1>2
<1> QED
  BY <1>4, <1>5, <1>6 DEF Drawn, w

\* Leaving one item out leaves the others.
LEMMA WithoutItemIs ==
    ASSUME NEW s, IsList(s), NEW i \in DOMAIN s
    PROVE  /\ IsList(WithoutItem(s, i)) /\ Drawn(WithoutItem(s, i), s)
           /\ Range(WithoutItem(s, i)) = Others(s, i)
           /\ RemoveAt(s, i) = WithoutItem(s, i)
<1> DEFINE a == i - 1
           w == Without(s, a, i)
<1>1. a \in Nat /\ i \in Nat /\ a <= i /\ a <= Len(s) /\ DOMAIN s = 1..Len(s) /\ Len(s) \in Nat
      /\ i \in 1..Len(s)
  BY ListIs
<1>2. WithoutItem(s, i) = w /\ RemoveAt(s, i) = w
  BY DEF WithoutItem, Without, RemoveAt
<1> HIDE DEF a, w
<1>3. /\ IsList(w) /\ Drawn(w, s)
      /\ \A k \in 1..Len(w) : Stood(k, a, i) \in 1..Len(s) /\ w[k] = s[Stood(k, a, i)]
      /\ \A j \in 1..Len(s) : j <= a \/ j > i => \E k \in 1..Len(w) : w[k] = s[j]
  BY <1>1, WithoutItems, WithoutIsDrawn DEF w
<1>4. DOMAIN w = 1..Len(w) /\ Len(w) \in Nat
  BY <1>3, ListIs
<1>5. a = i - 1
  BY DEF a
<1>6. \A k \in 1..Len(w) : Stood(k, a, i) # i
  BY <1>1, <1>4, <1>5 DEF Stood
<1>7. Range(w) \subseteq Others(s, i)
  BY <1>1, <1>3, <1>4, <1>6 DEF Range, Others
<1>8. \A j \in 1..Len(s) : j # i => j <= a \/ j > i
  BY <1>1, <1>5
<1>9. Others(s, i) \subseteq Range(w)
  <2>1. SUFFICES ASSUME NEW j \in DOMAIN s, j # i PROVE s[j] \in Range(w)
    BY DEF Others
  <2>2. PICK k \in 1..Len(w) : w[k] = s[j]
    BY <1>1, <1>3, <1>8, <2>1
  <2>3. QED
    BY <1>4, <2>2 DEF Range
<1> QED
  BY <1>2, <1>3, <1>7, <1>9

\* What ddmin asks about is drawn from what it holds.
LEMMA CandidateDrawn ==
    ASSUME NEW s, NEW units, IsList(units), SearchesWithin(s, units),
           s.phase \in {"initial", "scan", "linear"}, Drawn(s.kept, units)
    PROVE  Drawn(SearchCandidate(s), units)
<1>1. IsList(s.kept) /\ s.units = units /\ s.index \in Nat
  BY DEF SearchesWithin, Within
<1>2. CASE s.phase = "initial"
  BY <1>1, <1>2, DrawnFromItself DEF SearchCandidate
<1>3. CASE s.phase = "scan"
  <2>1. /\ SearchParts(s) \in 2..Len(s.kept)
        /\ s.start \in Nat /\ s.start <= Len(s.kept)
        /\ SearchEnd(s) \in Nat
    BY <1>3, PartWithin DEF SearchesWithin
  <2>2. s.start <= SearchEnd(s)
    <3> DEFINE L == Len(s.kept)
               P == SearchParts(s)
               width == Width(L, P, s.part)
    <3>1. SearchEnd(s) = s.start + width
      BY DEF SearchEnd
    <3>2. L \in Nat
      BY <1>1, ListIs
    <3> HIDE DEF L, P
    <3>3. L \div P \in Nat
      BY <2>1, <3>2, SMT DEF P, L
    <3>4. width \in Nat
      BY <3>3 DEF Width
    <3> HIDE DEF width
    <3>5. QED
      BY <2>1, <3>1, <3>4
  <2>3. Drawn(Without(s.kept, s.start, SearchEnd(s)), s.kept)
    BY <1>1, <2>1, <2>2, WithoutIsDrawn
  <2>4. QED
    BY <1>3, <2>3, DrawnTwice DEF SearchCandidate
<1>4. CASE s.phase = "linear"
  <2>1. s.index + 1 \in DOMAIN s.kept
    BY <1>1, <1>4, ListIs DEF SearchesWithin
  <2>2. Drawn(WithoutItem(s.kept, s.index + 1), s.kept)
    BY <1>1, <2>1, WithoutItemIs
  <2>3. QED
    BY <1>4, <2>2, DrawnTwice DEF SearchCandidate
<1> QED
  BY <1>2, <1>3, <1>4

\* `t' takes its items from `s' in their order.
InTurn(t, s) ==
    \A i, j \in DOMAIN t : i < j =>
        \E k, l \in DOMAIN s : k < l /\ t[i] = s[k] /\ t[j] = s[l]

LEMMA PicksInTurn ==
    ASSUME NEW s, IsList(s), NEW T, NEW f, Picks(s, T, f)
    PROVE  InTurn(f[Len(s)], s)
<1> DEFINE n == Len(s)
<1>1. n \in Nat /\ DOMAIN s = 1..n
  BY ListIs
<1> DEFINE Turns(k) == \A i, j \in 1..Len(f[k]) : i < j =>
                           \E a, b \in 1..k : a < b /\ f[k][i] = s[a] /\ f[k][j] = s[b]
           Good == {k \in Nat : k <= n => Turns(k)}
<1>2. \A k \in Nat : k <= n => IsList(f[k]) /\ Range(f[k]) = {s[i] : i \in T \intersect (1..k)}
  BY PicksOfList
<1>3. 0 \in Good
  <2>1. f[0] = <<>> /\ Len(<<>>) = 0
    BY PicksNext
  <2>2. QED
    BY <2>1
<1>4. ASSUME NEW k \in Nat, k \in Good PROVE k + 1 \in Good
  <2>0. k + 1 \in Nat
    OBVIOUS
  <2>1. SUFFICES ASSUME k + 1 <= n PROVE Turns(k + 1)
    BY <2>0, Zenon
  <2>2. k <= n /\ Turns(k) /\ IsList(f[k]) /\ Range(f[k]) = {s[i] : i \in T \intersect (1..k)}
    <3>1. k <= n
      BY <1>1, <2>1
    <3> HIDE DEF Turns
    <3>2. Turns(k)
      BY <1>4, <3>1
    <3>3. QED
      BY <1>2, <3>1, <3>2
  <2>3. f[k + 1] = IF k + 1 \in T THEN Append(f[k], s[k + 1]) ELSE f[k]
    BY <2>1, PicksNext
  <2>4. PICK t, u, x : t = f[k] /\ u = f[k + 1] /\ x = s[k + 1]
    OBVIOUS
  <2>5. 1..k \subseteq 1..(k + 1) /\ k + 1 \in 1..(k + 1) /\ \A a \in 1..k : a < k + 1
    OBVIOUS
  <2>6. SUFFICES ASSUME NEW i \in 1..Len(u), NEW j \in 1..Len(u), i < j
                 PROVE  \E a, b \in 1..(k + 1) : a < b /\ u[i] = s[a] /\ u[j] = s[b]
    BY <2>4
  <2>7. CASE k + 1 \notin T
    <3>1. u = t
      BY <2>3, <2>4, <2>7
    <3>2. \E a, b \in 1..k : a < b /\ t[i] = s[a] /\ t[j] = s[b]
      BY <2>2, <2>4, <2>6, <3>1
    <3>3. QED
      BY <2>5, <3>1, <3>2
  <2>8. CASE k + 1 \in T
    <3>1. u = Append(t, x) /\ IsList(t)
      BY <2>2, <2>3, <2>4, <2>8
    <3>2. /\ Len(u) = Len(t) + 1 /\ Len(t) \in Nat
          /\ \A m \in 1..Len(t) : u[m] = t[m]
          /\ u[Len(t) + 1] = x
      BY <3>1, AppendToList, ListIs
    <3>3. i \in 1..Len(t) /\ (j \in 1..Len(t) \/ j = Len(t) + 1)
      BY <2>6, <3>2
    <3>4. CASE j \in 1..Len(t)
      <4>1. \E a, b \in 1..k : a < b /\ t[i] = s[a] /\ t[j] = s[b]
        BY <2>2, <2>4, <2>6, <3>3, <3>4
      <4>2. QED
        BY <2>5, <3>2, <3>3, <3>4, <4>1
    <3>5. CASE j = Len(t) + 1
      <4>1. t[i] \in Range(t)
        BY <3>1, <3>3, ListIs
      <4>2. PICK a \in 1..k : t[i] = s[a]
        BY <2>2, <2>4, <4>1
      <4>3. u[i] = s[a] /\ u[j] = s[k + 1] /\ a < k + 1
        BY <2>4, <2>5, <3>2, <3>3, <3>5, <4>2
      <4>4. QED
        BY <2>5, <4>3
    <3>6. QED
      BY <3>3, <3>4, <3>5
  <2>9. QED
    BY <2>7, <2>8
<1> HIDE DEF Turns
<1>5. n \in Good
  BY <1>1, <1>3, <1>4, Counting
<1>6. Turns(n) /\ IsList(f[n])
  BY <1>1, <1>2, <1>5
<1>7. PICK r : r = f[n]
  OBVIOUS
<1>8. DOMAIN r = 1..Len(r)
  BY <1>6, <1>7, ListIs
<1>9. \A i, j \in 1..Len(r) : i < j => \E a, b \in 1..n : a < b /\ r[i] = s[a] /\ r[j] = s[b]
  BY <1>6, <1>7 DEF Turns
<1>10. InTurn(r, s)
  <2>1. SUFFICES ASSUME NEW i \in DOMAIN r, NEW j \in DOMAIN r, i < j
                 PROVE  \E k, l \in DOMAIN s : k < l /\ r[i] = s[k] /\ r[j] = s[l]
    BY DEF InTurn
  <2>2. i \in 1..Len(r) /\ j \in 1..Len(r)
    BY <1>8
  <2>3. PICK a \in 1..n, b \in 1..n : a < b /\ r[i] = s[a] /\ r[j] = s[b]
    BY <1>9, <2>1, <2>2
  <2>4. a \in DOMAIN s /\ b \in DOMAIN s
    BY <1>1
  <2>5. QED
    BY <2>3, <2>4
<1> QED
  BY <1>7, <1>10

LEMMA AmongInTurn ==
    ASSUME NEW s, IsList(s), NEW set
    PROVE  InTurn(Among(s, set), s)
<1>1. PICK T, f : Picks(s, T, f) /\ Among(s, set) = f[Len(s)]
  BY AmongIsPicked
<1>2. InTurn(f[Len(s)], s)
  BY <1>1, PicksInTurn
<1> QED
  BY <1>1, <1>2, Zenon

LEMMA RemainingInTurn ==
    ASSUME NEW s, IsList(s), NEW gone
    PROVE  InTurn(Remaining(s, gone), s)
<1>1. PICK T, f : Picks(s, T, f) /\ Remaining(s, gone) = f[Len(s)]
  BY RemainingIsPicked
<1>2. InTurn(f[Len(s)], s)
  BY <1>1, PicksInTurn
<1> QED
  BY <1>1, <1>2, Zenon

\* The sequences of `seqs' one after the other.
LEMMA FlattenIs ==
    ASSUME NEW S, NEW seqs \in Seq(Seq(S)), NEW flat, flat = FlattenSeq(seqs)
    PROVE  /\ Range(flat) = UNION {Range(seqs[i]) : i \in DOMAIN seqs}
           /\ \A i, j \in DOMAIN flat : i < j =>
                  \E k, l \in DOMAIN seqs : k <= l /\ flat[i] \in Range(seqs[k]) /\ flat[j] \in Range(seqs[l])
<1> DEFINE n == Len(seqs)
<1>1. n \in Nat /\ DOMAIN seqs = 1..n /\ \A i \in 1..n : IsList(seqs[i])
  BY ListOf
<1>2. CASE n = 0
  <2>1. flat = <<>> /\ seqs = <<>>
    BY <1>2 DEF FlattenSeq
  <2>2. DOMAIN flat = {} /\ Range(flat) = {} /\ DOMAIN seqs = {}
    BY <1>1, <1>2, <2>1 DEF Range
  <2>3. QED
    BY <2>2
<1>3. CASE n # 0
  <2>1. PICK f : Joined(seqs, f) /\ flat = f[n]
    BY <1>3, FlattenIsJoined
  <2>2. /\ f[1] = seqs[1]
        /\ \A k \in Nat : k >= 1 /\ k + 1 <= n => f[k + 1] = f[k] \o seqs[k + 1]
    <3>1. f = [i \in 1..n |-> IF i = 1 THEN seqs[i] ELSE f[i - 1] \o seqs[i]]
      BY <2>1 DEF Joined
    <3>2. ASSUME NEW k \in Nat, k >= 1, k + 1 <= n PROVE f[k + 1] = f[k] \o seqs[k + 1]
      <4>1. k + 1 \in 1..n /\ k + 1 # 1 /\ (k + 1) - 1 = k
        BY <1>1, <3>2
      <4>2. QED
        BY <3>1, <4>1
    <3>3. 1 \in 1..n
      BY <1>1, <1>3
    <3>4. QED
      BY <3>1, <3>2, <3>3
  <2> HIDE DEF n
  <2> DEFINE All(k) == UNION {Range(seqs[i]) : i \in 1..k}
             Turns(k) == \A i, j \in 1..Len(f[k]) : i < j =>
                 \E a, b \in 1..k : a <= b /\ f[k][i] \in Range(seqs[a]) /\ f[k][j] \in Range(seqs[b])
             Flat(k) == IsList(f[k]) /\ Range(f[k]) = All(k) /\ Turns(k)
             Good == {k \in Nat : k + 1 <= n => Flat(k + 1)}
  <2>3. 0 \in Good
    <3>1. SUFFICES ASSUME 0 + 1 <= n PROVE Flat(1)
      OBVIOUS
    <3>2. IsList(seqs[1]) /\ f[1] = seqs[1]
      BY <1>1, <2>2, <3>1
    <3>3. 1..1 = {1}
      OBVIOUS
    <3>4. All(1) = Range(seqs[1])
      BY <3>3
    <3>5. Turns(1)
      BY <3>2, <3>3, ListIs
    <3>6. QED
      BY <3>2, <3>4, <3>5
  <2>4. ASSUME NEW m \in Nat, m \in Good PROVE m + 1 \in Good
    <3> HIDE DEF Flat
    <3>1. SUFFICES ASSUME (m + 1) + 1 <= n PROVE Flat((m + 1) + 1)
      OBVIOUS
    <3>2. PICK k \in Nat : k = m + 1
      OBVIOUS
    <3>3. Flat(k) /\ k >= 1 /\ k + 1 <= n /\ IsList(seqs[k + 1]) /\ f[k + 1] = f[k] \o seqs[k + 1]
      <4>1. k >= 1 /\ k + 1 <= n /\ k <= n /\ k + 1 \in 1..n
        BY <1>1, <3>1, <3>2 DEF n
      <4>2. Flat(k)
        BY <2>4, <3>2, <4>1
      <4>3. QED
        BY <1>1, <2>2, <4>1, <4>2 DEF n
    <3> USE DEF Flat
    <3>4. 1..(k + 1) = (1..k) \union {k + 1} /\ \A a \in 1..k : a <= k + 1
      BY <3>2
    <3>5. PICK t, v, u : t = f[k] /\ v = seqs[k + 1] /\ u = f[k + 1]
      OBVIOUS
    <3>6. u = t \o v /\ IsList(t) /\ IsList(v) /\ Range(t) = All(k)
      BY <3>3, <3>5
    <3>7. IsList(u) /\ Range(u) = Range(t) \union Range(v)
      BY <3>6, ConcatOfLists
    <3>8. All(k + 1) = All(k) \union Range(seqs[k + 1])
      BY <3>4
    <3>9. Turns(k + 1)
      <4>1. SUFFICES ASSUME NEW i \in 1..Len(u), NEW j \in 1..Len(u), i < j
                     PROVE  \E a, b \in 1..(k + 1) :
                                a <= b /\ u[i] \in Range(seqs[a]) /\ u[j] \in Range(seqs[b])
        BY <3>5
      <4>2. /\ Len(u) = Len(t) + Len(v) /\ Len(t) \in Nat /\ Len(v) \in Nat
            /\ \A x \in 1..Len(u) : u[x] = IF x <= Len(t) THEN t[x] ELSE v[x - Len(t)]
        <5>1. PICK R : R = Range(t) \union Range(v)
          OBVIOUS
        <5>2. t \in Seq(R) /\ v \in Seq(R)
          <6>1. /\ Len(t) \in Nat /\ DOMAIN t = 1..Len(t) /\ \A x \in 1..Len(t) : t[x] \in R
                /\ Len(v) \in Nat /\ DOMAIN v = 1..Len(v) /\ \A x \in 1..Len(v) : v[x] \in R
            BY <3>6, <5>1, ListIs
          <6>2. t \in Seq(Range(t)) /\ v \in Seq(Range(v))
            BY <3>6 DEF IsList
          <6>3. QED
            BY <6>1, <6>2
        <5>3. QED
          BY <3>6, <5>2, ConcatProperties
      <4>3. CASE j <= Len(t)
        <5>1. i \in 1..Len(t) /\ j \in 1..Len(t) /\ u[i] = t[i] /\ u[j] = t[j]
          BY <4>1, <4>2, <4>3
        <5>2. \E a, b \in 1..k : a <= b /\ t[i] \in Range(seqs[a]) /\ t[j] \in Range(seqs[b])
          BY <3>3, <3>5, <4>1, <5>1
        <5>3. QED
          BY <3>4, <5>1, <5>2
      <4>4. CASE ~(j <= Len(t))
        <5>1. u[j] = v[j - Len(t)] /\ j - Len(t) \in 1..Len(v)
          BY <4>1, <4>2, <4>4
        <5>2. u[j] \in Range(seqs[k + 1])
          BY <3>5, <3>6, <5>1, ListIs
        <5>3. u[i] \in All(k + 1)
          BY <3>6, <3>7, <3>8, <3>5, <4>1, ListIs
        <5>4. PICK a \in 1..(k + 1) : u[i] \in Range(seqs[a])
          BY <5>3
        <5>5. a <= k + 1 /\ k + 1 \in 1..(k + 1)
          BY <3>2, <3>4
        <5>6. QED
          BY <5>2, <5>4, <5>5
      <4>5. QED
        BY <4>3, <4>4
    <3> HIDE DEF All, Turns
    <3>10. QED
      BY <3>2, <3>5, <3>6, <3>7, <3>8, <3>9
  <2> HIDE DEF Flat
  <2>5. n - 1 \in Nat
    BY <1>1, <1>3 DEF n
  <2>6. n - 1 \in Good
    BY <2>3, <2>4, <2>5, Counting
  <2>7. Flat(n)
    BY <1>1, <2>5, <2>6 DEF n
  <2>8. DOMAIN flat = 1..Len(flat)
    BY <2>1, <2>7, ListIs DEF Flat, n
  <2>9. Range(flat) = UNION {Range(seqs[i]) : i \in DOMAIN seqs}
    BY <1>1, <2>1, <2>7 DEF Flat, n
  <2>10. \A i, j \in 1..Len(flat) : i < j =>
            \E a, b \in 1..n : a <= b /\ flat[i] \in Range(seqs[a]) /\ flat[j] \in Range(seqs[b])
    BY <2>1, <2>7 DEF Flat, n
  <2>11. QED
    BY <1>1, <2>8, <2>9, <2>10 DEF n
<1> QED
  BY <1>2, <1>3

-------------------------------------------------------------------------------
(* The paths of a capsule, all of them.                                      *)

KeysWith(c, types) ==
    UNION {{[id |-> e.id, key |-> k] : k \in {k \in DOMAIN e.payload : e.payload[k].type \in types}} :
              e \in Range(c.events)}

AtomsAt(c, p) == {[id |-> p.id, key |-> p.key, at |-> i] : i \in DOMAIN AtomsOf(c, p)}

LEMMA KeysOfIs ==
    ASSUME NEW e, IsEvent(e), NEW types
    PROVE  /\ IsList(KeysOf(e, types))
           /\ Range(KeysOf(e, types)) =
                  {[id |-> e.id, key |-> k] : k \in {k \in DOMAIN e.payload : e.payload[k].type \in types}}
<1> DEFINE K == {k \in DOMAIN e.payload : e.payload[k].type \in types}
           keys == SetToSeq(K)
           paths == KeysOf(e, types)
           P(k) == [id |-> e.id, key |-> k]
<1>1. IsFiniteSet(K)
  BY FS_Subset DEF IsEvent, IsPayload
<1>2. IsList(keys) /\ Range(keys) = K
  BY <1>1, SetInOrder, SetInOrderDistinct
<1>3. paths = [i \in DOMAIN keys |-> P(keys[i])]
  BY DEF KeysOf
<1> HIDE DEF K, keys, P, paths
<1>4. Len(keys) \in Nat /\ DOMAIN keys = 1..Len(keys)
  BY <1>2, ListIs
<1>5. IsList(paths)
  <2>1. PICK n \in Nat : n = Len(keys)
    BY <1>4
  <2>2. DOMAIN paths = 1..n /\ paths = [i \in 1..n |-> paths[i]]
    BY <1>3, <1>4, <2>1
  <2>3. QED
    BY SMTT(60), <2>2, ListFrom
<1>6. Range(paths) = {P(k) : k \in K}
  BY <1>2, <1>3 DEF Range
<1> QED
  BY <1>5, <1>6 DEF P, K, paths

LEMMA KeyPathsAre ==
    ASSUME NEW c, IsCapsule(c), NEW types, NEW flat,
           flat = FlattenSeq([i \in DOMAIN c.events |-> KeysOf(c.events[i], types)])
    PROVE  /\ IsList(flat) /\ Range(flat) = KeysWith(c, types)
           /\ \A i, j \in DOMAIN flat : i < j =>
                  \E k, l \in DOMAIN c.events :
                      k <= l /\ flat[i].id = c.events[k].id /\ flat[j].id = c.events[l].id
<1> DEFINE seqs == [i \in DOMAIN c.events |-> KeysOf(c.events[i], types)]
           P == KeysWith(c, types)
           At(e) == {[id |-> e.id, key |-> k] : k \in {k \in DOMAIN e.payload : e.payload[k].type \in types}}
<1>1. Len(c.events) \in Nat /\ DOMAIN c.events = 1..Len(c.events)
      /\ \A i \in DOMAIN c.events : c.events[i] \in Range(c.events) /\ IsEvent(c.events[i])
  BY ListIs DEF IsCapsule
<1>2. \A i \in DOMAIN c.events :
          IsList(KeysOf(c.events[i], types)) /\ Range(KeysOf(c.events[i], types)) = At(c.events[i])
  BY <1>1, KeysOfIs
<1>3. P = UNION {At(e) : e \in Range(c.events)}
  BY DEF KeysWith
<1>4. \A i \in DOMAIN c.events : At(c.events[i]) \subseteq P
  BY <1>1, <1>3
<1>5. \A e : \A p \in At(e) : p.id = e.id
  OBVIOUS
<1> HIDE DEF At, P
<1>6. \A i \in DOMAIN c.events : KeysOf(c.events[i], types) \in Seq(P)
  <2>1. SUFFICES ASSUME NEW i \in DOMAIN c.events PROVE KeysOf(c.events[i], types) \in Seq(P)
    OBVIOUS
  <2>2. PICK s : s = KeysOf(c.events[i], types)
    OBVIOUS
  <2>3. IsList(s) /\ Range(s) \subseteq P
    BY <1>2, <1>4, <2>2
  <2>4. s \in Seq(Range(s)) /\ Len(s) \in Nat /\ DOMAIN s = 1..Len(s) /\ \A j \in 1..Len(s) : s[j] \in P
    BY <2>3, ListIs DEF IsList
  <2>5. s \in Seq(P)
    BY <2>4
  <2>6. QED
    BY <2>2, <2>5
<1>7. seqs \in Seq(Seq(P)) /\ DOMAIN seqs = DOMAIN c.events
      /\ \A i \in DOMAIN c.events : seqs[i] = KeysOf(c.events[i], types)
  BY <1>1, <1>6
<1>8. flat = FlattenSeq(seqs)
  OBVIOUS
<1> HIDE DEF seqs
<1>9. flat \in Seq(P)
  BY <1>7, <1>8, FlattenOfLists
<1>10. /\ Range(flat) = UNION {Range(seqs[i]) : i \in DOMAIN seqs}
       /\ \A i, j \in DOMAIN flat : i < j =>
              \E k, l \in DOMAIN seqs : k <= l /\ flat[i] \in Range(seqs[k]) /\ flat[j] \in Range(seqs[l])
  <2>1. seqs \in Seq(Seq(P))
    BY <1>7
  <2>2. QED
    BY ONLY <1>8, <2>1, FlattenIs
<1>11. \A i \in DOMAIN c.events : Range(seqs[i]) = At(c.events[i])
  BY <1>2, <1>7
<1>12. Range(flat) = P
  <2>1. Range(c.events) = {c.events[i] : i \in DOMAIN c.events}
    BY DEF Range
  <2>2. PICK D : D = DOMAIN c.events
    OBVIOUS
  <2>3. Range(flat) = UNION {At(c.events[i]) : i \in D}
    <3>1. Range(flat) = UNION {Range(seqs[i]) : i \in D}
      BY <1>7, <1>10, <2>2
    <3>2. \A i \in D : Range(seqs[i]) = At(c.events[i])
      BY <1>11, <2>2
    <3>3. QED
      BY <3>1, <3>2
  <2>4. P = UNION {At(c.events[i]) : i \in D}
    BY <1>3, <2>1, <2>2
  <2>5. QED
    BY <2>3, <2>4
<1>13. IsList(flat)
  BY <1>9, ListOf
<1>14. ASSUME NEW i \in DOMAIN flat, NEW j \in DOMAIN flat, i < j
       PROVE  \E k, l \in DOMAIN c.events :
                  k <= l /\ flat[i].id = c.events[k].id /\ flat[j].id = c.events[l].id
  <2>1. PICK k \in DOMAIN seqs, l \in DOMAIN seqs :
            k <= l /\ flat[i] \in Range(seqs[k]) /\ flat[j] \in Range(seqs[l])
    BY <1>10, <1>14
  <2>2. flat[i] \in At(c.events[k]) /\ flat[j] \in At(c.events[l])
    BY <1>7, <1>11, <2>1
  <2>3. flat[i].id = c.events[k].id /\ flat[j].id = c.events[l].id
    BY <1>5, <2>2
  <2>4. QED
    BY <1>7, <2>1, <2>3
<1> QED
  BY <1>12, <1>13, <1>14 DEF P

LEMMA FieldPathsAre ==
    ASSUME NEW c, IsCapsule(c)
    PROVE  IsList(FieldPaths(c)) /\ Range(FieldPaths(c)) = KeysWith(c, {"text", "list"})
  BY KeyPathsAre DEF FieldPaths

LEMMA AtomPathsAre ==
    ASSUME NEW c, IsCapsule(c), NEW p, HasKey(c, p)
    PROVE  IsList(AtomPaths(c, p)) /\ Range(AtomPaths(c, p)) = AtomsAt(c, p)
<1> DEFINE atoms == AtomsOf(c, p)
           paths == AtomPaths(c, p)
<1>1. IsList(atoms)
  BY AtomsAreListed
<1>2. paths = [i \in DOMAIN atoms |-> [id |-> p.id, key |-> p.key, at |-> i]]
  BY DEF AtomPaths, AtomsOf
<1>3. Range(paths) = AtomsAt(c, p)
  BY <1>2 DEF AtomsAt, Range
<1> HIDE DEF atoms, paths
<1>4. PICK n \in Nat : n = Len(atoms) /\ DOMAIN atoms = 1..n
  BY <1>1, ListIs
<1>5. DOMAIN paths = 1..n /\ paths = [i \in 1..n |-> paths[i]]
  BY <1>2, <1>4
<1> QED
  BY <1>3, <1>5, ListFrom DEF paths

LEMMA KeysWithAreKeys ==
    ASSUME NEW c, UniqueIds(c), NEW types, NEW p \in KeysWith(c, types)
    PROVE  /\ HasKey(c, p) /\ p \in KeyPaths(c)
           /\ EventOf(c, p.id).payload[p.key].type \in types
           /\ p = [id |-> p.id, key |-> p.key] /\ EventOf(c, p.id).id = p.id
<1>1. PICK e \in Range(c.events) : \E k \in DOMAIN e.payload :
          e.payload[k].type \in types /\ p = [id |-> e.id, key |-> k]
  BY DEF KeysWith
<1>2. p \in KeyPaths(c)
  BY <1>1 DEF KeyPaths
<1>3. EventOf(c, p.id) = e
  BY <1>1, EventOfId
<1> QED
  BY <1>1, <1>2, <1>3, KeyPathHasKey

LEMMA ItemPathsAre ==
    ASSUME NEW c, IsCapsule(c), UniqueIds(c)
    PROVE  Range(ItemPaths(c)) = UNION {AtomsAt(c, p) : p \in KeysWith(c, {"list"})}
<1> DEFINE lists == FlattenSeq([i \in DOMAIN c.events |-> KeysOf(c.events[i], {"list"})])
           P == AtomPathsOf(c)
           K == KeysWith(c, {"list"})
           seqs == [i \in DOMAIN lists |-> AtomPaths(c, lists[i])]
<1>1. IsList(lists) /\ Range(lists) = K
  BY KeyPathsAre
<1>2. ItemPaths(c) = FlattenSeq(seqs)
  BY DEF ItemPaths
<1>3. \A p \in K : AtomPaths(c, p) \in Seq(P) /\ Range(AtomPaths(c, p)) = AtomsAt(c, p)
  BY KeysWithAreKeys, AtomPathsList, AtomPathsAre
<1> HIDE DEF lists, P, K
<1>4. Len(lists) \in Nat /\ DOMAIN lists = 1..Len(lists) /\ \A i \in 1..Len(lists) : lists[i] \in K
  BY <1>1, ListIs
<1>5. seqs \in Seq(Seq(P)) /\ DOMAIN seqs = DOMAIN lists
      /\ \A i \in DOMAIN lists : seqs[i] = AtomPaths(c, lists[i])
  BY <1>3, <1>4
<1> HIDE DEF seqs
<1>6. PICK flat : flat = FlattenSeq(seqs)
  OBVIOUS
<1>7. Range(flat) = UNION {Range(seqs[i]) : i \in DOMAIN seqs}
  BY <1>5, <1>6, FlattenIs
<1>8. \A i \in DOMAIN lists : Range(seqs[i]) = AtomsAt(c, lists[i])
  BY <1>3, <1>4, <1>5
<1>9. K = {lists[i] : i \in DOMAIN lists}
  BY <1>1 DEF Range
<1>10. Range(flat) = UNION {AtomsAt(c, p) : p \in K}
  BY <1>5, <1>7, <1>8, <1>9
<1> QED
  BY <1>2, <1>6, <1>10 DEF K

\* Where the event of `id' stands.
Place(c, id) == CHOOSE i \in DOMAIN c.events : c.events[i].id = id

LEMMA PlaceIs ==
    ASSUME NEW c, InOrder(c), IsCapsule(c), NEW i \in DOMAIN c.events
    PROVE  Place(c, c.events[i].id) = i
<1>1. DOMAIN c.events = 1..Len(c.events)
  BY ListIs DEF IsCapsule
<1> QED
  BY <1>1 DEF Place, InOrder

\* The paths of earlier events come first.
Placed(c, paths) ==
    \A i, j \in DOMAIN paths : i < j => Place(c, paths[i].id) <= Place(c, paths[j].id)

LEMMA TextPathsAre ==
    ASSUME NEW c, IsCapsule(c), InOrder(c)
    PROVE  /\ Range(TextPaths(c)) = {p \in KeysWith(c, {"text"}) : AtomsOf(c, p) # <<>>}
           /\ IsList(TextPaths(c)) /\ Placed(c, TextPaths(c))
<1> DEFINE texts == FlattenSeq([i \in DOMAIN c.events |-> KeysOf(c.events[i], {"text"})])
           full == {p \in Range(texts) : EventOf(c, p.id).payload[p.key].atoms # <<>>}
<1>1. /\ IsList(texts) /\ Range(texts) = KeysWith(c, {"text"})
      /\ \A i, j \in DOMAIN texts : i < j =>
             \E k, l \in DOMAIN c.events :
                 k <= l /\ texts[i].id = c.events[k].id /\ texts[j].id = c.events[l].id
  <2>1. PICK flat : flat = texts
    OBVIOUS
  <2>2. /\ IsList(flat) /\ Range(flat) = KeysWith(c, {"text"})
        /\ \A i, j \in DOMAIN flat : i < j =>
               \E k, l \in DOMAIN c.events :
                   k <= l /\ flat[i].id = c.events[k].id /\ flat[j].id = c.events[l].id
    BY SMTT(60), <2>1, KeyPathsAre
  <2> HIDE DEF texts
  <2>3. QED
    BY <2>1, <2>2
<1>2. TextPaths(c) = Among(texts, full)
  BY DEF TextPaths
<1>3. full = {p \in KeysWith(c, {"text"}) : AtomsOf(c, p) # <<>>}
  BY <1>1 DEF AtomsOf
<1> HIDE DEF texts, full
<1>4. PICK r : r = Among(texts, full)
  OBVIOUS
<1>5. IsList(r) /\ Range(r) = Range(texts) \intersect full /\ InTurn(r, texts)
  BY <1>1, <1>4, AmongOfList, AmongInTurn
<1>6. Range(r) = full
  BY <1>1, <1>3, <1>5
<1>7. Placed(c, texts)
  <2>1. SUFFICES ASSUME NEW i \in DOMAIN texts, NEW j \in DOMAIN texts, i < j
                 PROVE  Place(c, texts[i].id) <= Place(c, texts[j].id)
    BY DEF Placed
  <2>2. PICK k \in DOMAIN c.events, l \in DOMAIN c.events :
            k <= l /\ texts[i].id = c.events[k].id /\ texts[j].id = c.events[l].id
    BY <1>1, <2>1
  <2>3. Place(c, texts[i].id) = k /\ Place(c, texts[j].id) = l
    BY <2>2, PlaceIs
  <2>4. QED
    BY <2>2, <2>3
<1>8. Placed(c, r)
  <2>1. SUFFICES ASSUME NEW i \in DOMAIN r, NEW j \in DOMAIN r, i < j
                 PROVE  Place(c, r[i].id) <= Place(c, r[j].id)
    BY DEF Placed
  <2>2. PICK k \in DOMAIN texts, l \in DOMAIN texts : k < l /\ r[i] = texts[k] /\ r[j] = texts[l]
    BY <1>5, <2>1 DEF InTurn
  <2>3. QED
    BY <1>7, <2>2 DEF Placed
<1>9. TextPaths(c) = r
  BY <1>2, <1>4
<1> QED
  BY <1>3, <1>5, <1>6, <1>8, <1>9

-------------------------------------------------------------------------------
(* Capsules with less in them.                                               *)

\* What one event holds another of the same id does.
Smaller1(e, g) ==
    /\ e.id = g.id
    /\ \A k \in DOMAIN e.payload :
        /\ k \in DOMAIN g.payload /\ e.payload[k].type = g.payload[k].type
        /\ Range(e.payload[k].atoms) \subseteq Range(g.payload[k].atoms)

Fewer(d, c) ==
    /\ \A e \in Range(d.events) : \E g \in Range(c.events) : Smaller1(e, g)
    /\ DOMAIN d.workspace \subseteq DOMAIN c.workspace
    /\ \A f \in DOMAIN d.workspace : Range(d.workspace[f]) \subseteq Range(c.workspace[f])
    /\ d.environment \subseteq c.environment

LEMMA FewerContents ==
    ASSUME NEW d, NEW c, IsCapsule(d), IsCapsule(c), UniqueIds(d), UniqueIds(c), Fewer(d, c)
    PROVE  Contents(d) \subseteq Contents(c)
<1> DEFINE Fields(b) == KeysWith(b, {"text", "list"})
           AtomsIn(b, p) == {<<p.id, p.key, a>> : a \in Range(EventOf(b, p.id).payload[p.key].atoms)}
           Part1(b) == {<<id>> : id \in Ids(b)}
           Part2(b) == {<<p.id, p.key>> : p \in Fields(b)}
           Part3(b) == UNION {AtomsIn(b, p) : p \in Fields(b)}
           Part4(b) == {<<"file", f>> : f \in DOMAIN b.workspace}
           Part5(b) == UNION {{<<"file", f, x>> : x \in Range(b.workspace[f])} : f \in DOMAIN b.workspace}
           Part6(b) == {<<"env", v>> : v \in b.environment}
<1>1. ASSUME NEW b, IsCapsule(b)
      PROVE  Contents(b) = Part1(b) \union Part2(b) \union Part3(b) \union Part4(b)
                               \union Part5(b) \union Part6(b)
  <2>1. Range(FieldPaths(b)) = Fields(b)
    BY <1>1, FieldPathsAre
  <2> HIDE DEF Fields
  <2> DEFINE F == Range(FieldPaths(b))
             Paths2 == {<<p.id, p.key>> : p \in F}
             Paths3 == UNION {AtomsIn(b, p) : p \in F}
  <2>2. Paths2 = Part2(b) /\ Paths3 = Part3(b)
    <3> HIDE DEF F, AtomsIn
    <3>1. QED
      BY <2>1 DEF F
  <2>3. Contents(b) = Part1(b) \union Paths2 \union Paths3 \union Part4(b) \union Part5(b) \union Part6(b)
    BY DEF Contents
  <2> HIDE DEF Paths2, Paths3, Part1, Part2, Part3, Part4, Part5, Part6
  <2>4. QED
    BY <2>2, <2>3
<1>2. Ids(d) \subseteq Ids(c)
  <2>1. SUFFICES ASSUME NEW i \in DOMAIN d.events PROVE d.events[i].id \in Ids(c)
    BY DEF Ids
  <2>2. d.events[i] \in Range(d.events)
    BY DEF Range
  <2>3. PICK g \in Range(c.events) : d.events[i].id = g.id
    BY <2>2 DEF Fewer, Smaller1
  <2>4. QED
    BY <2>3 DEF Ids, Range
<1>3. \A p \in Fields(d) : p \in Fields(c) /\ AtomsIn(d, p) \subseteq AtomsIn(c, p)
  <2>1. SUFFICES ASSUME NEW p \in Fields(d) PROVE p \in Fields(c) /\ AtomsIn(d, p) \subseteq AtomsIn(c, p)
    OBVIOUS
  <2>2. PICK e \in Range(d.events) : \E k \in DOMAIN e.payload :
            e.payload[k].type \in {"text", "list"} /\ p = [id |-> e.id, key |-> k]
    BY DEF KeysWith
  <2>3. PICK k \in DOMAIN e.payload :
            e.payload[k].type \in {"text", "list"} /\ p = [id |-> e.id, key |-> k]
    BY <2>2
  <2>4. PICK g \in Range(c.events) : Smaller1(e, g)
    BY DEF Fewer
  <2>5. /\ k \in DOMAIN g.payload /\ g.payload[k].type \in {"text", "list"}
        /\ Range(e.payload[k].atoms) \subseteq Range(g.payload[k].atoms)
        /\ p = [id |-> g.id, key |-> k] /\ p.id = g.id /\ p.id = e.id /\ p.key = k
    BY <2>3, <2>4 DEF Smaller1
  <2>6. p \in Fields(c)
    <3>1. PICK K : K = {j \in DOMAIN g.payload : g.payload[j].type \in {"text", "list"}}
      OBVIOUS
    <3>2. k \in K
      BY <2>5, <3>1
    <3>3. p \in {[id |-> g.id, key |-> j] : j \in K}
      BY <2>5, <3>2
    <3>4. Fields(c) = UNION {{[id |-> h.id, key |-> j] :
              j \in {j \in DOMAIN h.payload : h.payload[j].type \in {"text", "list"}}} : h \in Range(c.events)}
      BY DEF KeysWith
    <3>5. QED
      BY <3>1, <3>3, <3>4
  <2>7. EventOf(d, p.id) = e /\ EventOf(c, p.id) = g
    BY <2>5, EventOfId
  <2>8. AtomsIn(d, p) \subseteq AtomsIn(c, p)
    BY <2>5, <2>7
  <2>9. QED
    BY <2>6, <2>8
<1>4. Part1(d) \subseteq Part1(c)
  BY <1>2
<1> HIDE DEF Fields, AtomsIn
<1>5. Part2(d) \subseteq Part2(c) /\ Part3(d) \subseteq Part3(c)
  BY <1>3
<1>6. Part4(d) \subseteq Part4(c) /\ Part5(d) \subseteq Part5(c)
  BY DEF Fewer
<1>7. Part6(d) \subseteq Part6(c)
  BY DEF Fewer
<1> HIDE DEF Part1, Part2, Part3, Part4, Part5, Part6
<1>8. /\ Contents(d) = Part1(d) \union Part2(d) \union Part3(d) \union Part4(d)
                          \union Part5(d) \union Part6(d)
      /\ Contents(c) = Part1(c) \union Part2(c) \union Part3(c) \union Part4(c)
                          \union Part5(c) \union Part6(c)
  BY <1>1
<1> QED
  BY <1>4, <1>5, <1>6, <1>7, <1>8

\* What deletions leave of an event, and of a capsule.
Reduced(e, g) ==
    /\ e.id = g.id /\ e.kind = g.kind /\ e.parent = g.parent /\ e.deps = g.deps
    /\ \A k \in DOMAIN e.payload :
        /\ k \in DOMAIN g.payload /\ e.payload[k].type = g.payload[k].type
        /\ Drawn(e.payload[k].atoms, g.payload[k].atoms)

Below(d, c) ==
    /\ \A e \in Range(d.events) : \E g \in Range(c.events) : Reduced(e, g)
    /\ \A g \in Range(c.events) : g.kind = "run" =>
           \E e \in Range(d.events) : e.id = g.id /\ e.kind = "run"
    /\ DOMAIN d.workspace \subseteq DOMAIN c.workspace
    /\ \A f \in DOMAIN d.workspace : Drawn(d.workspace[f], c.workspace[f])
    /\ d.environment \subseteq c.environment

LEMMA ReducedTwice ==
    ASSUME NEW e, NEW g, NEW h, Reduced(e, g), Reduced(g, h)
    PROVE  Reduced(e, h)
  BY DrawnTwice DEF Reduced

LEMMA ReducedFromItself == \A e : Reduced(e, e)
  BY DrawnFromItself DEF Reduced

LEMMA BelowItself == \A c : Below(c, c)
  BY ReducedFromItself, DrawnFromItself DEF Below

LEMMA BelowTwice ==
    ASSUME NEW b, NEW c, NEW d, Below(d, c), Below(c, b)
    PROVE  Below(d, b)
<1>1. ASSUME NEW e \in Range(d.events) PROVE \E h \in Range(b.events) : Reduced(e, h)
  <2>1. PICK g \in Range(c.events) : Reduced(e, g)
    BY DEF Below
  <2>2. PICK h \in Range(b.events) : Reduced(g, h)
    BY DEF Below
  <2>3. QED
    BY <2>1, <2>2, ReducedTwice
<1>2. ASSUME NEW h \in Range(b.events), h.kind = "run"
      PROVE  \E e \in Range(d.events) : e.id = h.id /\ e.kind = "run"
  <2>1. PICK g \in Range(c.events) : g.id = h.id /\ g.kind = "run"
    BY <1>2 DEF Below
  <2>2. QED
    BY <2>1 DEF Below
<1>3. DOMAIN d.workspace \subseteq DOMAIN b.workspace /\ d.environment \subseteq b.environment
      /\ \A f \in DOMAIN d.workspace : Drawn(d.workspace[f], b.workspace[f])
  BY DrawnTwice DEF Below
<1> QED
  BY <1>1, <1>2, <1>3 DEF Below

-------------------------------------------------------------------------------
(* Capsules that validate, told by the places of their events.               *)

Produces(c, i, j, kind) == c.events[j].id \in c.events[i].deps /\ c.events[j].kind = kind

OneProducer(c, i, kind) ==
    \E j \in 1..(i - 1) : /\ Produces(c, i, j, kind)
                          /\ \A k \in 1..(i - 1) : Produces(c, i, k, kind) => k = j

SoundAt(c, i) ==
    /\ \A j \in 1..(i - 1) :
           c.events[j].id # c.events[i].id /\ c.events[j].seq < c.events[i].seq
    /\ c.events[i].parent = None \/ \E j \in 1..(i - 1) : c.events[j].id = c.events[i].parent
    /\ \A d \in c.events[i].deps : \E j \in 1..(i - 1) : c.events[j].id = d
    /\ c.events[i].kind = "tool_result" => OneProducer(c, i, "tool_call")
    /\ c.events[i].kind = "model_response" => OneProducer(c, i, "model_request")

Sound(c) == c.events # <<>> /\ \A i \in 1..Len(c.events) : SoundAt(c, i)

LEMMA OneProducerIs ==
    ASSUME NEW c, IsCapsule(c), NEW i \in 1..Len(c.events), NEW kind,
           \A j, k \in 1..(i - 1) : c.events[j].id = c.events[k].id => j = k
    PROVE  Cardinality(Producers(c.events[i], SubSeq(c.events, 1, i - 1), kind)) = 1
               <=> OneProducer(c, i, kind)
<1> DEFINE s == c.events
           P == Producers(s[i], SubSeq(s, 1, i - 1), kind)
           n == i - 1
<1>1. IsList(s) /\ Len(s) \in Nat
  BY ListIs DEF IsCapsule
<1>2. n \in Nat /\ n <= Len(s)
  BY <1>1
<1> HIDE DEF s, n
<1>3. IsList(SubSeq(s, 1, n)) /\ Range(SubSeq(s, 1, n)) = {s[j] : j \in 1..n}
  BY <1>1, <1>2, FirstItems
<1>4. P = {p \in {s[j] : j \in 1..n} : p.id \in s[i].deps /\ p.kind = kind}
  BY <1>3 DEF Producers, n
<1>5. IsFiniteSet(P)
  BY <1>3, <1>4, ListIsFinite, FS_Subset
<1> HIDE DEF P
<1>6. Cardinality(P) = 1 <=> \E x : P = {x}
  BY <1>5, FS_Singleton
<1>7. \A j, k \in 1..n : s[j].id = s[k].id => j = k
  BY DEF s, n
<1>8. ASSUME NEW x, P = {x}
      PROVE  \E j \in 1..n : /\ s[j].id \in s[i].deps /\ s[j].kind = kind
                             /\ \A k \in 1..n : s[k].id \in s[i].deps /\ s[k].kind = kind => k = j
  <2>1. PICK j \in 1..n : x = s[j] /\ s[j].id \in s[i].deps /\ s[j].kind = kind
    BY <1>4, <1>8
  <2>2. ASSUME NEW k \in 1..n, s[k].id \in s[i].deps, s[k].kind = kind PROVE k = j
    <3>1. s[k] \in P
      BY <1>4, <2>2
    <3>2. s[k] = s[j]
      BY <1>8, <2>1, <3>1
    <3>3. QED
      BY <1>7, <3>2
  <2>3. QED
    BY <2>1, <2>2
<1>9. ASSUME NEW j \in 1..n, s[j].id \in s[i].deps, s[j].kind = kind,
             \A k \in 1..n : s[k].id \in s[i].deps /\ s[k].kind = kind => k = j
      PROVE  P = {s[j]}
  BY <1>4, <1>9
<1>10. (\E x : P = {x}) <=>
           \E j \in 1..n : /\ s[j].id \in s[i].deps /\ s[j].kind = kind
                           /\ \A k \in 1..n : s[k].id \in s[i].deps /\ s[k].kind = kind => k = j
  BY <1>8, <1>9
<1> QED
  BY <1>6, <1>10 DEF OneProducer, Produces, P, s, n

LEMMA ValidIs ==
    ASSUME NEW c, IsCapsule(c)
    PROVE  Valid(c) <=> Sound(c)
<1> DEFINE s == c.events
           Plain(i) == /\ \A j \in 1..(i - 1) : s[j].id # s[i].id /\ s[j].seq < s[i].seq
                       /\ s[i].parent = None \/ \E j \in 1..(i - 1) : s[j].id = s[i].parent
                       /\ \A d \in s[i].deps : \E j \in 1..(i - 1) : s[j].id = d
           Alone(i) == \A j, k \in 1..(i - 1) : s[j].id = s[k].id => j = k
<1>1. IsList(s) /\ Len(s) \in Nat /\ DOMAIN s = 1..Len(s)
  BY ListIs DEF IsCapsule
<1>2. ASSUME NEW i \in 1..Len(s), Alone(i)
      PROVE  ValidEvent(s[i], SubSeq(s, 1, i - 1)) <=> SoundAt(c, i)
  <2>1. PICK earlier : earlier = SubSeq(s, 1, i - 1)
    OBVIOUS
  <2>2. i - 1 \in Nat /\ i - 1 <= Len(s)
    BY <1>1
  <2>3. PICK n : n = i - 1
    OBVIOUS
  <2>4. Range(earlier) = {s[j] : j \in 1..n}
    BY <1>1, <2>1, <2>2, <2>3, FirstItems
  <2>5. /\ Cardinality(Producers(s[i], earlier, "tool_call")) = 1 <=> OneProducer(c, i, "tool_call")
        /\ Cardinality(Producers(s[i], earlier, "model_request")) = 1 <=> OneProducer(c, i, "model_request")
    BY <1>2, <2>1, OneProducerIs
  <2> HIDE DEF s
  <2>6. {p.id : p \in Range(earlier)} = {s[j].id : j \in 1..n}
    BY <2>4
  <2>7. (\A p \in Range(earlier) : p.seq < s[i].seq) <=> \A j \in 1..n : s[j].seq < s[i].seq
    BY <2>4
  <2>8. ValidEvent(s[i], earlier) <=>
            /\ \A j \in 1..n : s[j].id # s[i].id
            /\ \A j \in 1..n : s[j].seq < s[i].seq
            /\ s[i].parent = None \/ \E j \in 1..n : s[j].id = s[i].parent
            /\ \A d \in s[i].deps : \E j \in 1..n : s[j].id = d
            /\ s[i].kind = "tool_result" => OneProducer(c, i, "tool_call")
            /\ s[i].kind = "model_response" => OneProducer(c, i, "model_request")
    BY <2>5, <2>6, <2>7 DEF ValidEvent
  <2>9. QED
    BY <2>1, <2>3, <2>8 DEF SoundAt, s
<1>3. ASSUME Valid(c) PROVE Sound(c)
  <2>1. \A i, j \in 1..Len(s) : s[i].id = s[j].id => i = j
    BY <1>3, ValidIsInOrder DEF InOrder
  <2>2. ASSUME NEW i \in 1..Len(s) PROVE SoundAt(c, i)
    <3>1. Alone(i)
      BY <1>1, <2>1
    <3>2. ValidEvent(s[i], SubSeq(s, 1, i - 1))
      BY <1>1, <1>3 DEF Valid
    <3> HIDE DEF Alone, s
    <3>3. QED
      BY <1>2, <3>1, <3>2
  <2>3. QED
    BY <1>3, <2>2 DEF Sound, Valid
<1>4. ASSUME Sound(c) PROVE Valid(c)
  <2>1. \A i \in 1..Len(s) : \A j \in 1..(i - 1) : s[j].id # s[i].id
    BY <1>4 DEF Sound, SoundAt
  <2>2. ASSUME NEW i \in 1..Len(s) PROVE ValidEvent(s[i], SubSeq(s, 1, i - 1))
    <3>1. Alone(i)
      <4>1. SUFFICES ASSUME NEW j \in 1..(i - 1), NEW k \in 1..(i - 1), s[j].id = s[k].id PROVE j = k
        OBVIOUS
      <4>2. j \in 1..Len(s) /\ k \in 1..Len(s)
        BY <1>1
      <4>3. j < k => j \in 1..(k - 1)
        OBVIOUS
      <4>4. k < j => k \in 1..(j - 1)
        OBVIOUS
      <4>5. QED
        BY <2>1, <4>1, <4>2, <4>3, <4>4
    <3>2. SoundAt(c, i)
      BY <1>4 DEF Sound
    <3> HIDE DEF Alone, s
    <3>3. QED
      BY <1>2, <3>1, <3>2
  <2>3. QED
    BY <1>1, <1>4, <2>2 DEF Sound, Valid
<1> QED
  BY <1>3, <1>4

-------------------------------------------------------------------------------
(* What removing an event leaves validates, or not.                          *)

\* `t' is what is left of the events of `c' without those of `G', in their order.
LeftIn(t, c, G) ==
    /\ IsList(t) /\ Len(t) \in Nat
    /\ \A i \in 1..Len(t) : t[i].seq = i - 1
    /\ \A i \in 1..Len(t) : \E a \in 1..Len(c.events) :
           c.events[a].id \notin G /\ Like(t[i], c.events[a])
    /\ \A a \in 1..Len(c.events) : c.events[a].id \notin G =>
           \E i \in 1..Len(t) : Like(t[i], c.events[a])
    /\ \A i, j \in 1..Len(t), a, b \in 1..Len(c.events) :
           Like(t[i], c.events[a]) /\ Like(t[j], c.events[b]) => (i < j <=> a < b)

LEMMA LeftInTurn ==
    ASSUME NEW c, IsCapsule(c), InOrder(c), NEW G, NEW t, t = Resequence(Remaining(c.events, G))
    PROVE  LeftIn(t, c, G)
<1> DEFINE s == c.events
           left == Remaining(s, G)
<1>1. IsList(s) /\ DOMAIN s = 1..Len(s) /\ Len(s) \in Nat /\ \A e \in Range(s) : IsEvent(e)
  BY ListIs DEF IsCapsule
<1>2. /\ IsList(left) /\ Range(left) = {e \in Range(s) : e.id \notin G} /\ InTurn(left, s)
  BY <1>1, RemainingOfList, RemainingInTurn
<1>3. \A i, j \in 1..Len(s) : s[i].id = s[j].id => i = j
  BY DEF InOrder
<1>4. t = Resequence(left)
  OBVIOUS
<1> HIDE DEF s, left
<1>5. Len(left) \in Nat /\ DOMAIN left = 1..Len(left)
      /\ \A i \in 1..Len(left) : left[i] \in Range(left) /\ left[i] \in Range(s) /\ left[i].id \notin G
  BY <1>2, ListIs
<1>6. /\ IsList(t) /\ Len(t) = Len(left)
      /\ \A i \in 1..Len(left) : t[i] = [left[i] EXCEPT !.seq = i - 1]
  BY <1>2, <1>4, ResequenceIs
<1>7. ASSUME NEW i \in 1..Len(left) PROVE t[i].seq = i - 1 /\ Like(t[i], left[i])
  <2>1. PICK e : e = left[i]
    OBVIOUS
  <2>2. e = [id |-> e.id, kind |-> e.kind, parent |-> e.parent, seq |-> e.seq,
             deps |-> e.deps, payload |-> e.payload]
    BY <1>1, <1>5, <2>1 DEF IsEvent
  <2>3. t[i] = [e EXCEPT !.seq = i - 1]
    BY <1>6, <2>1
  <2>4. t[i].seq = i - 1 /\ Like(t[i], e)
    BY <2>2, <2>3 DEF Like
  <2>5. QED
    BY <2>1, <2>4
<1>8. ASSUME NEW i \in 1..Len(t)
      PROVE  \E a \in 1..Len(s) : s[a].id \notin G /\ Like(t[i], s[a])
  <2>1. PICK a \in 1..Len(s) : left[i] = s[a]
    BY <1>1, <1>5, <1>6, ListIs
  <2>2. QED
    BY <1>5, <1>6, <1>7, <2>1
<1>9. ASSUME NEW a \in 1..Len(s), s[a].id \notin G PROVE \E i \in 1..Len(t) : Like(t[i], s[a])
  <2>1. s[a] \in Range(left)
    BY <1>1, <1>2, <1>9, ListIs
  <2>2. PICK i \in 1..Len(left) : left[i] = s[a]
    BY <1>2, <2>1, ListIs
  <2>3. QED
    BY <1>6, <1>7, <2>2
<1>10. ASSUME NEW i \in 1..Len(t), NEW a \in 1..Len(s), Like(t[i], s[a]),
              NEW b \in 1..Len(s), left[i] = s[b]
       PROVE  a = b
  <2>1. Like(t[i], s[b])
    BY <1>6, <1>7, <1>10
  <2>2. s[a].id = s[b].id
    BY <1>10, <2>1 DEF Like
  <2>3. QED
    BY <1>3, <2>2
<1>11. ASSUME NEW i \in 1..Len(t), NEW j \in 1..Len(t), i < j,
              NEW a \in 1..Len(s), NEW b \in 1..Len(s), Like(t[i], s[a]), Like(t[j], s[b])
       PROVE  a < b
  <2>1. i \in DOMAIN left /\ j \in DOMAIN left
    BY <1>5, <1>6
  <2>2. PICK k \in DOMAIN s, l \in DOMAIN s : k < l /\ left[i] = s[k] /\ left[j] = s[l]
    BY <1>2, <1>11, <2>1 DEF InTurn
  <2>3. a = k /\ b = l
    BY <1>1, <1>10, <1>11, <2>2
  <2>4. QED
    BY <2>2, <2>3
<1>12. ASSUME NEW i \in 1..Len(t), NEW j \in 1..Len(t),
              NEW a \in 1..Len(s), NEW b \in 1..Len(s), Like(t[i], s[a]), Like(t[j], s[b])
       PROVE  i < j <=> a < b
  <2>1. i < j => a < b
    BY <1>11, <1>12
  <2>2. j < i => b < a
    BY <1>11, <1>12
  <2>3. i = j => a = b
    BY <1>3, <1>12 DEF Like
  <2>4. QED
    BY <1>1, <1>5, <1>6, <2>1, <2>2, <2>3
<1> QED
  BY <1>5, <1>6, <1>7, <1>8, <1>9, <1>12 DEF LeftIn, s

\* No event that stays refers to one in `G'.
Closed(c, G) ==
    \A g \in Range(c.events) : g.id \notin G => g.parent \notin G /\ \A d \in g.deps : d \notin G

LEMMA RemovedIsSound ==
    ASSUME NEW c, IsCapsule(c), InOrder(c), Sound(c), NEW G, Closed(c, G),
           NEW r, r.events = Resequence(Remaining(c.events, G)), r.events # <<>>
    PROVE  Sound(r)
<1> DEFINE s == c.events
           n == Len(s)
<1>0. PICK t : t = r.events
  OBVIOUS
<1> DEFINE m == Len(t)
<1>1. n \in Nat /\ IsList(s) /\ DOMAIN s = 1..n
  BY ListIs DEF IsCapsule
<1>2. /\ m \in Nat
      /\ \A i \in 1..m : t[i].seq = i - 1
      /\ \A i \in 1..m : \E a \in 1..n : s[a].id \notin G /\ Like(t[i], s[a])
      /\ \A a \in 1..n : s[a].id \notin G => \E i \in 1..m : Like(t[i], s[a])
      /\ \A i, j \in 1..m, a, b \in 1..n : Like(t[i], s[a]) /\ Like(t[j], s[b]) => (i < j <=> a < b)
  <2>1. t = Resequence(Remaining(c.events, G))
    BY <1>0
  <2>2. LeftIn(t, c, G)
    BY <2>1, LeftInTurn
  <2>3. QED
    BY <2>2 DEF LeftIn
<1>3. \A a \in 1..n : SoundAt(c, a)
  BY DEF Sound
<1>4. \A a \in 1..n : s[a].id \notin G => s[a].parent \notin G /\ \A d \in s[a].deps : d \notin G
  <2>1. \A a \in 1..n : s[a] \in Range(s)
    BY <1>1, ListIs
  <2>2. QED
    BY <2>1 DEF Closed
<1> HIDE DEF s, n, m
<1>5. ASSUME NEW i \in 1..m PROVE SoundAt(r, i)
  <2>1. PICK a \in 1..n : s[a].id \notin G /\ Like(t[i], s[a])
    BY <1>2
  <2>2. SoundAt(c, a) /\ s[a].parent \notin G /\ \A d \in s[a].deps : d \notin G
    BY <1>3, <1>4, <2>1
  <2>3. \A j \in 1..(i - 1) : j \in 1..m /\ j < i
    BY <1>2
  <2>4. \A b \in 1..(a - 1) : b \in 1..n /\ b < a
    BY <1>1
  <2>5. ASSUME NEW j \in 1..(i - 1)
        PROVE  \E b \in 1..(a - 1) : Like(t[j], s[b])
    <3>1. PICK b \in 1..n : Like(t[j], s[b])
      BY <1>2, <2>3
    <3>2. b < a
      BY <1>2, <2>1, <2>3, <3>1
    <3>3. b \in 1..(a - 1)
      BY <1>1, <3>2
    <3>4. QED
      BY <3>1, <3>3
  <2>6. ASSUME NEW b \in 1..(a - 1), s[b].id \notin G
        PROVE  \E j \in 1..(i - 1) : Like(t[j], s[b])
    <3>1. PICK j \in 1..m : Like(t[j], s[b])
      BY <1>2, <2>4, <2>6
    <3>2. j < i
      BY <1>2, <2>1, <2>4, <3>1
    <3>3. j \in 1..(i - 1)
      BY <1>1, <3>2
    <3>4. QED
      BY <3>1, <3>3
  <2>7. \A j \in 1..(i - 1) : t[j].id # t[i].id /\ t[j].seq < t[i].seq
    <3>1. SUFFICES ASSUME NEW j \in 1..(i - 1) PROVE t[j].id # t[i].id /\ t[j].seq < t[i].seq
      OBVIOUS
    <3>2. PICK b \in 1..(a - 1) : Like(t[j], s[b])
      BY <2>5
    <3>3. s[b].id # s[a].id
      BY <2>2 DEF SoundAt, s
    <3>4. t[j].id # t[i].id
      BY <2>1, <3>2, <3>3 DEF Like
    <3>5. t[j].seq = j - 1 /\ t[i].seq = i - 1 /\ j < i
      BY <1>2, <2>3
    <3>6. QED
      BY <3>4, <3>5
  <2>8. ASSUME NEW id, id \notin G, \E b \in 1..(a - 1) : s[b].id = id
        PROVE  \E j \in 1..(i - 1) : t[j].id = id
    <3>1. PICK b \in 1..(a - 1) : s[b].id = id
      BY <2>8
    <3>2. PICK j \in 1..(i - 1) : Like(t[j], s[b])
      BY <2>6, <2>8, <3>1
    <3>3. QED
      BY <3>1, <3>2 DEF Like
  <2>9. t[i].parent = None \/ \E j \in 1..(i - 1) : t[j].id = t[i].parent
    <3>1. s[a].parent = None \/ \E b \in 1..(a - 1) : s[b].id = s[a].parent
      BY <2>2 DEF SoundAt, s
    <3>2. t[i].parent = s[a].parent
      BY <2>1 DEF Like
    <3>3. QED
      BY <2>2, <2>8, <3>1, <3>2
  <2>10. \A d \in t[i].deps : \E j \in 1..(i - 1) : t[j].id = d
    <3>1. \A d \in s[a].deps : \E b \in 1..(a - 1) : s[b].id = d
      BY <2>2 DEF SoundAt, s
    <3>2. t[i].deps = s[a].deps
      BY <2>1 DEF Like
    <3>3. QED
      BY <2>2, <2>8, <3>1, <3>2
  <2>11. ASSUME NEW kind, OneProducer(c, a, kind) PROVE OneProducer(r, i, kind)
    <3>1. PICK b \in 1..(a - 1) : /\ s[b].id \in s[a].deps /\ s[b].kind = kind
                                  /\ \A e \in 1..(a - 1) : s[e].id \in s[a].deps /\ s[e].kind = kind => e = b
      BY <2>11 DEF OneProducer, Produces, s
    <3>2. PICK j \in 1..(i - 1) : Like(t[j], s[b])
      BY <2>2, <2>6, <3>1
    <3>3. t[j].id \in t[i].deps /\ t[j].kind = kind
      BY <2>1, <3>1, <3>2 DEF Like
    <3>4. ASSUME NEW k \in 1..(i - 1), t[k].id \in t[i].deps, t[k].kind = kind PROVE k = j
      <4>1. PICK e \in 1..(a - 1) : Like(t[k], s[e])
        BY <2>5
      <4>2. s[e].id \in s[a].deps /\ s[e].kind = kind
        BY <2>1, <3>4, <4>1 DEF Like
      <4>3. e = b
        BY <3>1, <4>2
      <4>4. k \in 1..m /\ j \in 1..m /\ b \in 1..n /\ Like(t[k], s[b])
        BY <2>3, <2>4, <4>1, <4>3
      <4>5. (k < j <=> b < b) /\ (j < k <=> b < b)
        BY <1>2, <3>2, <4>4
      <4>6. QED
        BY <1>1, <1>2, <4>4, <4>5
    <3>5. QED
      BY <1>0, <3>3, <3>4 DEF OneProducer, Produces
  <2>12. t[i].kind = s[a].kind
    BY <2>1 DEF Like
  <2>13. /\ t[i].kind = "tool_result" => OneProducer(r, i, "tool_call")
         /\ t[i].kind = "model_response" => OneProducer(r, i, "model_request")
    BY <2>2, <2>11, <2>12 DEF SoundAt, s
  <2>14. QED
    BY <1>0, <2>7, <2>9, <2>10, <2>13 DEF SoundAt
<1> QED
  BY <1>0, <1>5 DEF Sound, m

LEMMA SoundIsClosed ==
    ASSUME NEW c, IsCapsule(c), InOrder(c), NEW G, None \notin G,
           NEW r, r.events = Resequence(Remaining(c.events, G)), Sound(r)
    PROVE  Closed(c, G)
<1> DEFINE s == c.events
           t == r.events
<1>1. /\ \A e \in Range(t) : \E g \in Range(s) : g.id \notin G /\ Like(e, g)
      /\ \A g \in Range(s) : g.id \notin G => \E e \in Range(t) : Like(e, g)
  BY LeftEvents
<1>2. IsList(t) /\ Len(t) \in Nat
  BY LeftInTurn DEF LeftIn
<1>3. DOMAIN t = 1..Len(t) /\ \A i \in 1..Len(t) : t[i] \in Range(t)
  BY <1>2, ListIs
<1>4. \A j \in 1..Len(t) : t[j].id \notin G
  BY <1>1, <1>3 DEF Like
<1>5. SUFFICES ASSUME NEW g \in Range(s), g.id \notin G
               PROVE  g.parent \notin G /\ \A d \in g.deps : d \notin G
  BY DEF Closed
<1>6. PICK e \in Range(t) : Like(e, g)
  BY <1>1, <1>5
<1>7. PICK i \in 1..Len(t) : e = t[i]
  BY <1>2, ListIs
<1>8. \A j \in 1..(i - 1) : j \in 1..Len(t)
  BY <1>2
<1>9. /\ t[i].parent = None \/ \E j \in 1..(i - 1) : t[j].id = t[i].parent
      /\ \A d \in t[i].deps : \E j \in 1..(i - 1) : t[j].id = d
  BY DEF Sound, SoundAt
<1> HIDE DEF s, t
<1>10. t[i].parent \notin G
  BY <1>4, <1>8, <1>9
<1>11. \A d \in t[i].deps : d \notin G
  BY <1>4, <1>8, <1>9
<1> QED
  BY <1>6, <1>7, <1>10, <1>11 DEF Like

-------------------------------------------------------------------------------
(* What is deleted later takes along what it did before.                     *)

\* An event that is still there goes with `x' if it went with it before.
LEMMA GoesLater ==
    ASSUME NEW b, NEW c, IsCapsule(b), IsCapsule(c), InOrder(b), InOrder(c), Below(b, c),
           NEW x, x # None, NEW one, one = {x}, NEW id \in Ids(b), id \in Gone(c, one)
    PROVE  id \in Gone(b, one)
<1> DEFINE s == c.events
           L == Len(s)
           G == Gone(c, one)
           H == Gone(b, one)
           Kept(n) == s[n].id \in Ids(b) /\ s[n].id \in G /\ s[n].id \notin H
           T == {n \in Nat : n \in 1..L /\ Kept(n)}
<1>1. L \in Nat /\ (\A n \in 1..L : s[n] \in Range(s)) /\ \A e \in Range(s) : \E n \in 1..L : e = s[n]
  BY ListIs DEF IsCapsule
<1>2. /\ None \notin G
      /\ \A n \in 1..L : s[n].id \in G =>
             /\ s[n].id \notin Protected(c)
             /\ s[n].id \in one \/ s[n].parent \in G \/ \E d \in s[n].deps : d \in G
  BY GoneIs
<1>3. \A e \in Range(b.events) : e.id \notin H =>
          \/ e.id \in Protected(b)
          \/ e.id \notin one /\ e.parent \notin H /\ \A d \in e.deps : d \notin H
  <2>1. \A n \in 1..Len(b.events) : b.events[n].id \notin H =>
            \/ b.events[n].id \in Protected(b)
            \/ /\ b.events[n].id \notin one /\ b.events[n].parent \notin H
               /\ \A d \in b.events[n].deps : d \notin H
    BY GoneIs
  <2>2. \A e \in Range(b.events) : \E n \in 1..Len(b.events) : e = b.events[n]
    BY ListIs DEF IsCapsule
  <2>3. QED
    BY <2>1, <2>2
<1>4. \A e \in Range(b.events) : \A y \in {e.parent} \union e.deps : y = None \/ y \in Ids(b)
  <2>1. SUFFICES ASSUME NEW e \in Range(b.events), NEW y \in {e.parent} \union e.deps, y # None
                 PROVE  y \in Ids(b)
    OBVIOUS
  <2>2. Len(b.events) \in Nat /\ DOMAIN b.events = 1..Len(b.events)
    BY ListIs DEF IsCapsule
  <2>3. PICK n \in 1..Len(b.events) : e = b.events[n]
    BY <2>2 DEF Range
  <2>4. PICK i \in 1..(n - 1) : b.events[i].id = y
    BY <2>1, <2>3 DEF InOrder
  <2>5. i \in DOMAIN b.events
    BY <2>2
  <2>6. QED
    BY <2>4, <2>5 DEF Ids
<1>5. \A n \in 1..L : \A y \in {s[n].parent} \union s[n].deps :
          y = None \/ \E i \in 1..(n - 1) : s[i].id = y
  BY DEF InOrder
<1>6. \A i, j \in 1..L : s[i].id = s[j].id => i = j
  BY DEF InOrder
<1>7. \A e \in Range(s) : e.id \in Protected(c) <=> e.kind = "run"
  BY ProtectedIs
<1>8. \A e \in Range(b.events) : e.id \in Protected(b) <=> e.kind = "run"
  BY ProtectedIs
<1>9. \A e \in Range(b.events) : \E n \in 1..L : Reduced(e, s[n])
  BY <1>1 DEF Below
<1>10. \A y \in Ids(b) : \E e \in Range(b.events) : e.id = y
  BY DEF Ids, Range
<1> HIDE DEF s, L, G, H
<1>11. ASSUME NEW n \in 1..L, Kept(n) PROVE \E i \in 1..(n - 1) : Kept(i)
  <2>1. PICK e \in Range(b.events) : e.id = s[n].id
    BY <1>10, <1>11
  <2>2. Reduced(e, s[n])
    BY <1>6, <1>9, <2>1 DEF Reduced
  <2>3. e.kind # "run" /\ e.parent = s[n].parent /\ e.deps = s[n].deps
    BY <1>1, <1>2, <1>7, <1>11, <2>2 DEF Reduced
  <2>4. e.id \notin one /\ e.parent \notin H /\ \A d \in e.deps : d \notin H
    BY <1>3, <1>8, <1>11, <2>1, <2>3
  <2>5. PICK y \in {s[n].parent} \union s[n].deps : y \in G
    BY <1>2, <1>11, <2>1, <2>4
  <2>6. y \notin H /\ y # None /\ y \in Ids(b)
    BY <1>2, <1>4, <2>3, <2>4, <2>5
  <2>7. PICK i \in 1..(n - 1) : s[i].id = y
    BY <1>5, <2>5, <2>6
  <2>8. QED
    BY <2>5, <2>6, <2>7
<1>12. T = {}
  <2>1. SUFFICES ASSUME T # {} PROVE FALSE
    OBVIOUS
  <2>2. PICK n \in T : \A m \in T : n <= m
    BY <2>1, LeastNumber
  <2>3. PICK i \in 1..(n - 1) : Kept(i)
    BY <1>11, <2>2
  <2>4. i \in T /\ i < n
    BY <1>1, <2>2, <2>3
  <2>5. QED
    BY <2>2, <2>4
<1>13. PICK n \in 1..L : s[n].id = id
  <2>1. PICK e \in Range(b.events) : e.id = id
    BY <1>10
  <2>2. QED
    BY <1>9, <2>1 DEF Reduced
<1>14. id \in G
  BY DEF G
<1>15. n \notin T /\ n \in Nat
  BY <1>1, <1>12
<1>16. id \in H
  BY <1>13, <1>14, <1>15
<1> QED
  BY <1>16 DEF H

\* What is deleted from less leaves less, and validates only if it did before.
Covered(d, c) == Valid(d) => Valid(c) /\ Contents(d) \subseteq Contents(c)

LEMMA EventCovered ==
    ASSUME NEW b, NEW c, IsCapsule(b), IsCapsule(c), InOrder(b), Valid(c), Below(b, c),
           NEW x, x # None
    PROVE  Covered(RemoveEvents(b, {x}), RemoveEvents(c, {x}))
<1>1. PICK one : one = {x}
  OBVIOUS
<1>2. PICK d, r : d = RemoveEvents(b, one) /\ r = RemoveEvents(c, one)
  OBVIOUS
<1>3. SUFFICES ASSUME Valid(d) PROVE Valid(r) /\ Contents(d) \subseteq Contents(r)
  BY <1>1, <1>2 DEF Covered
<1> DEFINE G == Gone(c, one)
           H == Gone(b, one)
<1>4. InOrder(c) /\ Sound(c) /\ IsCapsule(d) /\ IsCapsule(r)
  BY <1>2, ValidIsInOrder, ValidIs, RemovedEvents
<1>5. /\ d.events = Resequence(Remaining(b.events, H)) /\ d.workspace = b.workspace
      /\ d.environment = b.environment
      /\ r.events = Resequence(Remaining(c.events, G)) /\ r.workspace = c.workspace
      /\ r.environment = c.environment
  BY <1>2, RemovedIs
<1>6. None \notin H /\ None \notin G
  BY <1>1, <1>4, GoneIs
<1>7. Sound(d) /\ Closed(b, H)
  BY <1>3, <1>4, <1>5, <1>6, ValidIs, SoundIsClosed
<1>8. \A id \in Ids(b) : id \in G => id \in H
  BY <1>1, <1>4, GoesLater
<1>9. \A e \in Range(b.events) : e.id \in Ids(b)
  BY DEF Ids, Range
<1>10. \A e, f \in Range(c.events) : e.id = f.id => e = f
  BY ValidHasUniqueIds DEF UniqueIds
<1>11. /\ \A e \in Range(d.events) : \E g \in Range(b.events) : g.id \notin H /\ Like(e, g)
       /\ \A g \in Range(c.events) : g.id \notin G => \E e \in Range(r.events) : Like(e, g)
  BY <1>5, LeftEvents
<1>12. \A g \in Range(c.events) : g.id \notin G =>
           g.kind = "run" \/ (g.parent \notin G /\ \A y \in g.deps : y \notin G)
  <2>1. SUFFICES ASSUME NEW g \in Range(c.events), g.id \notin G, g.kind # "run"
                 PROVE  g.parent \notin G /\ \A y \in g.deps : y \notin G
    OBVIOUS
  <2>2. PICK n \in 1..Len(c.events) : g = c.events[n]
    BY ListIs DEF IsCapsule
  <2>3. g.id \notin Protected(c)
    BY <1>4, <2>1, ProtectedIs
  <2>4. g.id \in G <=> /\ g.id \notin Protected(c)
                       /\ g.id \in one \/ g.parent \in G \/ \E y \in g.deps : y \in G
    BY <1>1, <1>4, <2>2, GoneIs
  <2>5. QED
    BY <2>1, <2>3, <2>4
<1>13. \A e \in Range(b.events) : e.kind = "run" => e.id \notin H
  <2>1. SUFFICES ASSUME NEW e \in Range(b.events), e.kind = "run" PROVE e.id \notin H
    OBVIOUS
  <2>2. PICK n \in 1..Len(b.events) : e = b.events[n]
    BY ListIs DEF IsCapsule
  <2>3. e.id \in Protected(b)
    BY <2>1, ProtectedIs
  <2>4. e.id \in H => e.id \notin Protected(b)
    BY <1>1, <2>2, GoneIs
  <2>5. QED
    BY <2>3, <2>4
<1>14. \A e \in Range(b.events) : \A y \in {e.parent} \union e.deps : y = None \/ y \in Ids(b)
  <2>1. SUFFICES ASSUME NEW e \in Range(b.events), NEW y \in {e.parent} \union e.deps, y # None
                 PROVE  y \in Ids(b)
    OBVIOUS
  <2>2. Len(b.events) \in Nat /\ DOMAIN b.events = 1..Len(b.events)
    BY ListIs DEF IsCapsule
  <2>3. PICK n \in 1..Len(b.events) : e = b.events[n]
    BY <2>2 DEF Range
  <2>4. PICK i \in 1..(n - 1) : b.events[i].id = y
    BY <2>1, <2>3 DEF InOrder
  <2>5. i \in DOMAIN b.events
    BY <2>2
  <2>6. QED
    BY <2>4, <2>5 DEF Ids
<1> HIDE DEF G, H
<1>15. Closed(c, G)
  <2>1. SUFFICES ASSUME NEW g \in Range(c.events), g.id \notin G, g.kind = "run"
                 PROVE  g.parent \notin G /\ \A y \in g.deps : y \notin G
    BY <1>12 DEF Closed
  <2>2. PICK e \in Range(b.events) : e.id = g.id /\ e.kind = "run"
    BY <2>1 DEF Below
  <2>3. PICK h \in Range(c.events) : Reduced(e, h)
    BY DEF Below
  <2>4. e.parent = g.parent /\ e.deps = g.deps
    BY <1>10, <2>2, <2>3 DEF Reduced
  <2>5. e.parent \notin H /\ \A y \in e.deps : y \notin H
    BY <1>7, <1>13, <2>2 DEF Closed
  <2>6. QED
    BY <1>6, <1>8, <1>14, <2>4, <2>5
<1>16. Fewer(d, r)
  <2>1. ASSUME NEW e \in Range(d.events) PROVE \E f \in Range(r.events) : Smaller1(e, f)
    <3>1. PICK g \in Range(b.events) : g.id \notin H /\ Like(e, g)
      BY <1>11
    <3>2. PICK h \in Range(c.events) : Reduced(g, h)
      BY DEF Below
    <3>3. h.id \notin G
      BY <1>8, <1>9, <3>1, <3>2 DEF Reduced
    <3>4. PICK f \in Range(r.events) : Like(f, h)
      BY <1>11, <3>3
    <3>5. Smaller1(e, f)
      BY <3>1, <3>2, <3>4 DEF Like, Reduced, Smaller1, Drawn
    <3>6. QED
      BY <3>5
  <2>2. QED
    BY <1>5, <2>1 DEF Fewer, Below, Drawn
<1>17. d.events # <<>>
  BY <1>7 DEF Sound
<1>18. r.events # <<>>
  <2>1. Len(d.events) \in Nat /\ DOMAIN d.events = 1..Len(d.events) /\ IsList(d.events)
    BY <1>4, ListIs DEF IsCapsule
  <2>2. PICK e : e \in Range(d.events)
    <3>1. PICK t : t = d.events
      OBVIOUS
    <3>2. \E e : e \in Range(t)
      <4>1. Len(t) # 0
        BY <1>17, <2>1, <3>1 DEF IsList
      <4>2. 1 \in DOMAIN t
        BY <2>1, <3>1, <4>1
      <4>3. QED
        BY <4>2 DEF Range
    <3>3. QED
      BY <3>1, <3>2
  <2>3. PICK f : f \in Range(r.events)
    BY <1>16, <2>2 DEF Fewer
  <2>4. QED
    BY <2>3, EmptyList
<1>19. Valid(r)
  <2>1. Sound(r)
    BY <1>4, <1>5, <1>15, <1>18, RemovedIsSound
  <2>2. QED
    BY <1>4, <2>1, ValidIs
<1> QED
  BY <1>3, <1>4, <1>16, <1>19, ValidHasUniqueIds, FewerContents

\* Only the payload of the event `id' is another.
Replaced(d, c, id, payload) ==
    /\ IsList(d.events) /\ Len(d.events) = Len(c.events)
    /\ d.workspace = c.workspace /\ d.environment = c.environment
    /\ \A i \in 1..Len(c.events) :
           /\ d.events[i].id = c.events[i].id /\ d.events[i].kind = c.events[i].kind
           /\ d.events[i].parent = c.events[i].parent /\ d.events[i].seq = c.events[i].seq
           /\ d.events[i].deps = c.events[i].deps
           /\ d.events[i].payload = IF c.events[i].id = id THEN payload ELSE c.events[i].payload

LEMMA ReplacedIs ==
    ASSUME NEW c, IsCapsule(c), NEW id, NEW payload, NEW d, d = ReplacePayload(c, id, payload)
    PROVE  Replaced(d, c, id, payload)
<1>1. PICK s, n : s = c.events /\ n = Len(s)
  OBVIOUS
<1>2. n \in Nat /\ DOMAIN s = 1..n /\ \A i \in 1..n : IsEvent(s[i])
  BY <1>1, ListIs DEF IsCapsule
<1>3. PICK t : t = [i \in DOMAIN s |-> IF s[i].id = id THEN [s[i] EXCEPT !.payload = payload] ELSE s[i]]
  OBVIOUS
<1>4. d = [c EXCEPT !.events = t]
  BY <1>1, <1>3 DEF ReplacePayload
<1>5. d = [events |-> t, workspace |-> c.workspace, environment |-> c.environment]
  BY <1>4 DEF IsCapsule
<1>6. t = [i \in 1..n |-> t[i]] /\ DOMAIN t = 1..n
  BY <1>2, <1>3
<1>7. Len(t) = n /\ IsList(t)
  BY <1>2, <1>6, ListFrom
<1>8. ASSUME NEW i \in 1..n
      PROVE  /\ t[i].id = s[i].id /\ t[i].kind = s[i].kind /\ t[i].parent = s[i].parent
             /\ t[i].seq = s[i].seq /\ t[i].deps = s[i].deps
             /\ t[i].payload = IF s[i].id = id THEN payload ELSE s[i].payload
  <2>1. PICK e : e = s[i]
    OBVIOUS
  <2>2. e = [id |-> e.id, kind |-> e.kind, parent |-> e.parent, seq |-> e.seq,
             deps |-> e.deps, payload |-> e.payload]
    BY <1>2, <2>1 DEF IsEvent
  <2>3. t[i] = IF e.id = id THEN [e EXCEPT !.payload = payload] ELSE e
    BY <1>2, <1>3, <2>1
  <2>4. [e EXCEPT !.payload = payload] =
            [id |-> e.id, kind |-> e.kind, parent |-> e.parent, seq |-> e.seq,
             deps |-> e.deps, payload |-> payload]
    BY <2>2
  <2>5. QED
    BY <2>1, <2>3, <2>4
<1>9. d.events = t /\ d.workspace = c.workspace /\ d.environment = c.environment
  BY <1>5
<1> QED
  BY <1>1, <1>7, <1>8, <1>9 DEF Replaced

\* Whether a capsule validates does not depend on what the events hold.
LEMMA ReplacedIsValid ==
    ASSUME NEW c, IsCapsule(c), Valid(c), NEW id, NEW payload,
           NEW d, d = ReplacePayload(c, id, payload), IsCapsule(d)
    PROVE  Valid(d)
<1>0. Replaced(d, c, id, payload)
  BY ReplacedIs
<1>1. PICK s, t, n : s = c.events /\ t = d.events /\ n = Len(s)
  OBVIOUS
<1>2. n \in Nat /\ Len(t) = n /\ DOMAIN s = 1..n /\ DOMAIN t = 1..n
  BY <1>0, <1>1, ListIs DEF IsCapsule, Replaced
<1>3. \A i \in 1..n : /\ t[i].id = s[i].id /\ t[i].kind = s[i].kind /\ t[i].parent = s[i].parent
                      /\ t[i].seq = s[i].seq /\ t[i].deps = s[i].deps
  BY <1>0, <1>1 DEF Replaced
<1>4. Sound(c)
  BY ValidIs
<1>5. ASSUME NEW i \in 1..n PROVE SoundAt(d, i)
  <2>1. SoundAt(c, i)
    BY <1>1, <1>4 DEF Sound
  <2>2. \A j \in 1..(i - 1) : j \in 1..n
    BY <1>2
  <2>3. ASSUME NEW kind, OneProducer(c, i, kind) PROVE OneProducer(d, i, kind)
    <3>1. PICK j \in 1..(i - 1) :
              /\ s[j].id \in s[i].deps /\ s[j].kind = kind
              /\ \A k \in 1..(i - 1) : s[k].id \in s[i].deps /\ s[k].kind = kind => k = j
      BY <1>1, <2>3 DEF OneProducer, Produces
    <3>2. t[j].id \in t[i].deps /\ t[j].kind = kind
      BY <1>3, <2>2, <3>1
    <3>3. \A k \in 1..(i - 1) : t[k].id \in t[i].deps /\ t[k].kind = kind => k = j
      BY <1>3, <2>2, <3>1
    <3>4. QED
      BY <1>1, <3>2, <3>3 DEF OneProducer, Produces
  <2>4. \A j \in 1..(i - 1) : t[j].id # t[i].id /\ t[j].seq < t[i].seq
    BY <1>1, <1>3, <2>1, <2>2 DEF SoundAt
  <2>5. t[i].parent = None \/ \E j \in 1..(i - 1) : t[j].id = t[i].parent
    BY <1>1, <1>3, <2>1, <2>2 DEF SoundAt
  <2>6. \A y \in t[i].deps : \E j \in 1..(i - 1) : t[j].id = y
    BY <1>1, <1>3, <2>1, <2>2 DEF SoundAt
  <2>7. /\ t[i].kind = "tool_result" => OneProducer(d, i, "tool_call")
        /\ t[i].kind = "model_response" => OneProducer(d, i, "model_request")
    BY <1>1, <1>3, <2>1, <2>3 DEF SoundAt
  <2>8. QED
    BY <1>1, <2>4, <2>5, <2>6, <2>7 DEF SoundAt
<1>6. t # <<>>
  BY <1>1, <1>2, <1>4 DEF Sound
<1> QED
  BY <1>1, <1>2, <1>5, <1>6, ValidIs DEF Sound

LEMMA PayloadCovered ==
    ASSUME NEW b, NEW c, IsCapsule(b), IsCapsule(c), Valid(c), Below(b, c),
           NEW id, NEW P, NEW Q, NEW d, NEW r, d = ReplacePayload(b, id, P), r = ReplacePayload(c, id, Q),
           IsCapsule(d), IsCapsule(r),
           \A k \in DOMAIN P : /\ k \in DOMAIN Q /\ P[k].type = Q[k].type
                               /\ Range(P[k].atoms) \subseteq Range(Q[k].atoms)
    PROVE  Covered(d, r)
<1>1. Valid(r)
  BY ReplacedIsValid
<1>0. Replaced(d, b, id, P) /\ Replaced(r, c, id, Q)
  BY ReplacedIs
<1>2. PICK s, t, n : s = b.events /\ t = d.events /\ n = Len(s)
  OBVIOUS
<1>3. n \in Nat /\ DOMAIN t = 1..n /\ Len(t) = n /\ DOMAIN s = 1..n /\ \A i \in 1..n : s[i] \in Range(s)
  BY <1>0, <1>2, ListIs DEF IsCapsule, Replaced
<1>4. \A i \in 1..n : /\ t[i].id = s[i].id
                      /\ t[i].payload = IF s[i].id = id THEN P ELSE s[i].payload
  BY <1>0, <1>2 DEF Replaced
<1>5. PICK u, v, m : u = c.events /\ v = r.events /\ m = Len(u)
  OBVIOUS
<1>6. m \in Nat /\ DOMAIN v = 1..m /\ Len(v) = m /\ DOMAIN u = 1..m
  BY <1>0, <1>5, ListIs DEF IsCapsule, Replaced
<1>7. \A i \in 1..m : /\ v[i].id = u[i].id
                      /\ v[i].payload = IF u[i].id = id THEN Q ELSE u[i].payload
  BY <1>0, <1>5 DEF Replaced
<1>8. ASSUME NEW e \in Range(t) PROVE \E f \in Range(v) : Smaller1(e, f)
  <2>1. PICK i \in 1..n : e = t[i]
    BY <1>3 DEF Range
  <2>2. PICK h \in Range(u) : Reduced(s[i], h)
    BY <1>2, <1>3, <1>5 DEF Below
  <2>3. PICK j \in 1..m : h = u[j]
    BY <1>6 DEF Range
  <2>4. v[j] \in Range(v)
    BY <1>6 DEF Range
  <2>5. e.id = v[j].id /\ (s[i].id = id <=> u[j].id = id)
    BY <1>4, <1>7, <2>1, <2>2, <2>3 DEF Reduced
  <2>6. CASE s[i].id = id
    <3>1. e.payload = P /\ v[j].payload = Q
      BY <1>4, <1>7, <2>1, <2>5, <2>6
    <3>2. QED
      BY <2>4, <2>5, <3>1 DEF Smaller1
  <2>7. CASE s[i].id # id
    <3>1. e.payload = s[i].payload /\ v[j].payload = h.payload
      <4>1. t[i].payload = s[i].payload
        BY <1>4, <2>7
      <4>2. v[j].payload = u[j].payload
        BY <1>7, <2>5, <2>7
      <4>3. QED
        BY <2>1, <2>3, <4>1, <4>2
    <3>2. \A k \in DOMAIN s[i].payload :
              /\ k \in DOMAIN h.payload /\ s[i].payload[k].type = h.payload[k].type
              /\ Range(s[i].payload[k].atoms) \subseteq Range(h.payload[k].atoms)
      BY <2>2 DEF Reduced, Drawn
    <3>3. PICK one, other : one = s[i].payload /\ other = h.payload
      OBVIOUS
    <3>4. Smaller1(e, v[j])
      BY <2>5, <3>1, <3>2, <3>3 DEF Smaller1
    <3>5. QED
      BY <2>4, <3>4
  <2>8. QED
    BY <2>6, <2>7
<1>9. /\ d.workspace = b.workspace /\ d.environment = b.environment
      /\ r.workspace = c.workspace /\ r.environment = c.environment
  BY <1>0 DEF Replaced
<1>10. Fewer(d, r)
  BY <1>2, <1>5, <1>8, <1>9 DEF Fewer, Below, Drawn
<1> QED
  BY <1>1, <1>10, ValidHasUniqueIds, FewerContents DEF Covered

\* Where an event of one is found in the other.
LEMMA KeysBelow ==
    ASSUME NEW b, NEW c, UniqueIds(b), UniqueIds(c), Below(b, c), NEW types, NEW p \in KeysWith(b, types)
    PROVE  /\ p \in KeysWith(c, types) /\ HasKey(b, p) /\ HasKey(c, p)
           /\ Reduced(EventOf(b, p.id), EventOf(c, p.id))
           /\ Drawn(AtomsOf(b, p), AtomsOf(c, p))
<1>1. PICK e \in Range(b.events) : \E k \in DOMAIN e.payload :
          e.payload[k].type \in types /\ p = [id |-> e.id, key |-> k]
  BY DEF KeysWith
<1>2. PICK k \in DOMAIN e.payload : e.payload[k].type \in types /\ p = [id |-> e.id, key |-> k]
  BY <1>1
<1>3. PICK g \in Range(c.events) : Reduced(e, g)
  BY DEF Below
<1>4. /\ k \in DOMAIN g.payload /\ g.payload[k].type \in types /\ p = [id |-> g.id, key |-> k]
      /\ Drawn(e.payload[k].atoms, g.payload[k].atoms) /\ p.id = g.id /\ p.id = e.id /\ p.key = k
  BY <1>2, <1>3 DEF Reduced
<1>5. p \in KeysWith(c, types)
  <2>1. k \in {j \in DOMAIN g.payload : g.payload[j].type \in types}
    BY <1>4
  <2>2. p \in {[id |-> g.id, key |-> j] : j \in {j \in DOMAIN g.payload : g.payload[j].type \in types}}
    BY <1>4, <2>1
  <2>3. QED
    BY <2>2 DEF KeysWith
<1>6. EventOf(b, p.id) = e /\ EventOf(c, p.id) = g
  BY <1>4, EventOfId
<1>7. HasKey(b, p) /\ HasKey(c, p)
  BY <1>5, KeysWithAreKeys
<1> QED
  BY <1>3, <1>4, <1>5, <1>6, <1>7 DEF AtomsOf

LEMMA FieldCovered ==
    ASSUME NEW b, NEW c, IsCapsule(b), IsCapsule(c), UniqueIds(b), Valid(c), Below(b, c),
           NEW types, NEW p \in KeysWith(b, types)
    PROVE  Covered(DeleteField(b, p.id, p.key), DeleteField(c, p.id, p.key))
<1>1. PICK e, g : e = EventOf(b, p.id) /\ g = EventOf(c, p.id)
  OBVIOUS
<1>2. Reduced(e, g) /\ HasKey(b, p) /\ HasKey(c, p)
  BY <1>1, KeysBelow, ValidHasUniqueIds
<1>3. PICK P, Q : P = [k \in DOMAIN e.payload \ {p.key} |-> e.payload[k]]
               /\ Q = [k \in DOMAIN g.payload \ {p.key} |-> g.payload[k]]
  OBVIOUS
<1>4. PICK d, r : d = ReplacePayload(b, p.id, P) /\ r = ReplacePayload(c, p.id, Q)
  OBVIOUS
<1>5. d = DeleteField(b, p.id, p.key) /\ r = DeleteField(c, p.id, p.key)
  BY <1>1, <1>3, <1>4 DEF DeleteField, Restrict
<1>6. IsCapsule(d) /\ IsCapsule(r)
  BY <1>2, <1>5, DeletedField
<1>7. \A k \in DOMAIN P : /\ k \in DOMAIN Q /\ P[k].type = Q[k].type
                          /\ Range(P[k].atoms) \subseteq Range(Q[k].atoms)
  BY <1>2, <1>3 DEF Reduced, Drawn
<1>8. Covered(d, r)
  BY <1>4, <1>6, <1>7, PayloadCovered
<1> QED
  BY <1>5, <1>8

\* One value of a payload is another.
WithAtoms(after, payload, key, atoms) ==
    /\ DOMAIN after = DOMAIN payload
    /\ after[key].type = payload[key].type /\ after[key].atoms = atoms
    /\ \A k \in DOMAIN payload : k # key => after[k] = payload[k]

LEMMA AtomsReplacedIn ==
    ASSUME NEW payload, IsPayload(payload), NEW key \in DOMAIN payload, NEW atoms,
           NEW after, after = [payload EXCEPT ![key].atoms = atoms]
    PROVE  WithAtoms(after, payload, key, atoms)
<1>1. PICK v : v = payload[key]
  OBVIOUS
<1>2. v = [type |-> v.type, atoms |-> v.atoms]
  BY <1>1 DEF IsPayload
<1>3. after[key] = [v EXCEPT !.atoms = atoms]
  BY <1>1
<1>4. after[key].type = v.type /\ after[key].atoms = atoms
  BY <1>2, <1>3
<1> QED
  BY <1>1, <1>4 DEF WithAtoms

LEMMA AtomsCovered ==
    ASSUME NEW b, NEW c, IsCapsule(b), IsCapsule(c), UniqueIds(b), Valid(c), Below(b, c),
           NEW types, NEW p \in KeysWith(b, types),
           NEW left, IsList(left), NEW more, IsList(more), Range(left) \subseteq Range(more)
    PROVE  Covered(ReplaceAtoms(b, p.id, p.key, left), ReplaceAtoms(c, p.id, p.key, more))
<1>1. PICK e, g : e = EventOf(b, p.id) /\ g = EventOf(c, p.id)
  OBVIOUS
<1>2. Reduced(e, g) /\ HasKey(b, p) /\ HasKey(c, p)
  BY <1>1, KeysBelow, ValidHasUniqueIds
<1>3. /\ IsPayload(e.payload) /\ p.key \in DOMAIN e.payload
      /\ IsPayload(g.payload) /\ p.key \in DOMAIN g.payload
  BY <1>1, <1>2, AtomsAreListed DEF HasKey
<1>4. PICK P, Q : P = [e.payload EXCEPT ![p.key].atoms = left]
               /\ Q = [g.payload EXCEPT ![p.key].atoms = more]
  OBVIOUS
<1>5. PICK d, r : d = ReplacePayload(b, p.id, P) /\ r = ReplacePayload(c, p.id, Q)
  OBVIOUS
<1>6. d = ReplaceAtoms(b, p.id, p.key, left) /\ r = ReplaceAtoms(c, p.id, p.key, more)
  BY <1>1, <1>4, <1>5 DEF ReplaceAtoms
<1>7. IsCapsule(d) /\ IsCapsule(r)
  BY <1>2, <1>6, ReplacedAtoms
<1>0. PICK before, other, key : before = e.payload /\ other = g.payload /\ key = p.key
  OBVIOUS
<1>8. /\ DOMAIN P = DOMAIN e.payload /\ P[p.key].type = e.payload[p.key].type /\ P[p.key].atoms = left
      /\ \A k \in DOMAIN e.payload : k # p.key => P[k] = e.payload[k]
  <2>1. IsPayload(before) /\ key \in DOMAIN before /\ P = [before EXCEPT ![key].atoms = left]
    BY <1>0, <1>3, <1>4
  <2>2. WithAtoms(P, before, key, left)
    BY <2>1, AtomsReplacedIn
  <2>3. QED
    BY <1>0, <2>2 DEF WithAtoms
<1>9. /\ DOMAIN Q = DOMAIN g.payload /\ Q[p.key].type = g.payload[p.key].type /\ Q[p.key].atoms = more
      /\ \A k \in DOMAIN g.payload : k # p.key => Q[k] = g.payload[k]
  <2>1. IsPayload(other) /\ key \in DOMAIN other /\ Q = [other EXCEPT ![key].atoms = more]
    BY <1>0, <1>3, <1>4
  <2>2. WithAtoms(Q, other, key, more)
    BY <2>1, AtomsReplacedIn
  <2>3. QED
    BY <1>0, <2>2 DEF WithAtoms
<1>10. \A k \in DOMAIN e.payload :
           /\ k \in DOMAIN g.payload /\ e.payload[k].type = g.payload[k].type
           /\ Range(e.payload[k].atoms) \subseteq Range(g.payload[k].atoms)
  BY <1>2 DEF Reduced, Drawn
<1>11. \A k \in DOMAIN P : /\ k \in DOMAIN Q /\ P[k].type = Q[k].type
                           /\ Range(P[k].atoms) \subseteq Range(Q[k].atoms)
  <2>1. SUFFICES ASSUME NEW k \in DOMAIN P
                 PROVE  /\ k \in DOMAIN Q /\ P[k].type = Q[k].type
                        /\ Range(P[k].atoms) \subseteq Range(Q[k].atoms)
    OBVIOUS
  <2>2. CASE k = p.key
    BY <1>3, <1>8, <1>9, <1>10, <2>2
  <2>3. CASE k # p.key
    BY SMTT(60), <1>8, <1>9, <1>10, <2>3
  <2>4. QED
    BY <2>2, <2>3
<1>12. Covered(d, r)
  BY <1>5, <1>7, <1>11, PayloadCovered
<1> QED
  BY <1>6, <1>12

LEMMA AtomCovered ==
    ASSUME NEW b, NEW c, IsCapsule(b), IsCapsule(c), UniqueIds(b), Valid(c), Below(b, c),
           NEW types, NEW p \in KeysWith(b, types), NEW i \in DOMAIN AtomsOf(b, p)
    PROVE  \E k \in DOMAIN AtomsOf(c, p) :
               Covered(DeleteAtom(b, p.id, p.key, i), DeleteAtom(c, p.id, p.key, k))
<1>1. PICK s, t : s = AtomsOf(c, p) /\ t = AtomsOf(b, p)
  OBVIOUS
<1>2. Drawn(t, s) /\ HasKey(b, p) /\ HasKey(c, p)
  BY <1>1, KeysBelow, ValidHasUniqueIds
<1>3. IsList(s) /\ IsList(t)
  BY <1>1, <1>2, AtomsAreListed
<1>4. PICK k \in DOMAIN s : Others(t, i) \subseteq Others(s, k)
  BY <1>1, <1>2 DEF Drawn
<1>5. /\ IsList(RemoveAt(s, k)) /\ Range(RemoveAt(s, k)) = Others(s, k)
      /\ IsList(RemoveAt(t, i)) /\ Range(RemoveAt(t, i)) = Others(t, i)
  BY <1>1, <1>3, <1>4, WithoutItemIs
<1>6. PICK left, more : left = RemoveAt(t, i) /\ more = RemoveAt(s, k)
  OBVIOUS
<1>7. Covered(ReplaceAtoms(b, p.id, p.key, left), ReplaceAtoms(c, p.id, p.key, more))
  BY <1>4, <1>5, <1>6, AtomsCovered
<1> QED
  BY <1>1, <1>4, <1>6, <1>7 DEF DeleteAtom, AtomsOf

\* Deletions beside the events.
LEMMA RestCovered ==
    ASSUME NEW b, NEW c, IsCapsule(b), IsCapsule(c), Valid(c), Below(b, c),
           NEW d, NEW r, IsCapsule(d), IsCapsule(r), d.events = b.events, r.events = c.events,
           DOMAIN d.workspace \subseteq DOMAIN r.workspace, d.environment \subseteq r.environment,
           \A f \in DOMAIN d.workspace : Range(d.workspace[f]) \subseteq Range(r.workspace[f])
    PROVE  Covered(d, r)
<1>1. Valid(r)
  BY DEF Valid
<1>2. Fewer(d, r)
  <2>1. ASSUME NEW e, NEW g, Reduced(e, g) PROVE Smaller1(e, g)
    BY <2>1 DEF Reduced, Smaller1, Drawn
  <2>2. QED
    BY <2>1 DEF Fewer, Below
<1> QED
  BY <1>1, <1>2, ValidHasUniqueIds, FewerContents DEF Covered

-------------------------------------------------------------------------------
(* Every deletion leaves less.                                               *)

LEMMA RemovedBelow ==
    ASSUME NEW c, IsCapsule(c), InOrder(c), NEW requested, None \notin requested
    PROVE  Below(RemoveEvents(c, requested), c)
<1>1. PICK r, G : r = RemoveEvents(c, requested) /\ G = Gone(c, requested)
  OBVIOUS
<1>2. r.events = Resequence(Remaining(c.events, G)) /\ r.workspace = c.workspace
      /\ r.environment = c.environment
  BY <1>1, RemovedIs
<1>3. /\ \A e \in Range(r.events) : \E g \in Range(c.events) : g.id \notin G /\ Like(e, g)
      /\ \A g \in Range(c.events) : g.id \notin G => \E e \in Range(r.events) : Like(e, g)
  BY <1>2, LeftEvents
<1>4. ASSUME NEW g \in Range(c.events), g.kind = "run"
      PROVE  \E e \in Range(r.events) : e.id = g.id /\ e.kind = "run"
  <2>1. PICK n \in 1..Len(c.events) : g = c.events[n]
    BY ListIs DEF IsCapsule
  <2>2. g.id \in Protected(c)
    BY <1>4, ProtectedIs
  <2>3. g.id \in G => g.id \notin Protected(c)
    BY <1>1, <2>1, GoneIs
  <2>4. QED
    BY <1>3, <1>4, <2>2, <2>3 DEF Like
<1>5. \A e \in Range(r.events) : \E g \in Range(c.events) : Reduced(e, g)
  BY <1>3, DrawnFromItself DEF Like, Reduced
<1>6. Below(r, c)
  BY <1>2, <1>4, <1>5, DrawnFromItself DEF Below
<1> QED
  BY <1>1, <1>6

LEMMA ReplacedBelow ==
    ASSUME NEW c, IsCapsule(c), UniqueIds(c), NEW id, NEW payload, NEW e, e = EventOf(c, id),
           \A k \in DOMAIN payload : /\ k \in DOMAIN e.payload /\ payload[k].type = e.payload[k].type
                                     /\ Drawn(payload[k].atoms, e.payload[k].atoms)
    PROVE  Below(ReplacePayload(c, id, payload), c)
<1>1. PICK d : d = ReplacePayload(c, id, payload)
  OBVIOUS
<1>2. Replaced(d, c, id, payload)
  BY <1>1, ReplacedIs
<1>3. PICK s, t, n : s = c.events /\ t = d.events /\ n = Len(s)
  OBVIOUS
<1>4. n \in Nat /\ DOMAIN s = 1..n /\ DOMAIN t = 1..n /\ \A i \in 1..n : s[i] \in Range(s)
  BY <1>2, <1>3, ListIs DEF IsCapsule, Replaced
<1>5. \A i \in 1..n :
          /\ t[i].id = s[i].id /\ t[i].kind = s[i].kind /\ t[i].parent = s[i].parent
          /\ t[i].deps = s[i].deps
          /\ t[i].payload = IF s[i].id = id THEN payload ELSE s[i].payload
  BY <1>2, <1>3 DEF Replaced
<1>6. \A i \in 1..n : s[i].id = id => s[i] = e
  BY <1>3, <1>4, EventOfId
<1>7. ASSUME NEW i \in 1..n PROVE Reduced(t[i], s[i])
  <2>1. CASE s[i].id = id
    <3>1. t[i].payload = payload /\ s[i] = e
      BY <1>5, <1>6, <2>1
    <3>2. \A k \in DOMAIN t[i].payload :
              /\ k \in DOMAIN s[i].payload /\ t[i].payload[k].type = s[i].payload[k].type
              /\ Drawn(t[i].payload[k].atoms, s[i].payload[k].atoms)
      BY <3>1
    <3>3. QED
      BY <1>5, <3>2 DEF Reduced
  <2>2. CASE s[i].id # id
    <3>1. t[i].payload = s[i].payload
      BY <1>5, <2>2
    <3>2. QED
      BY <1>5, <3>1, DrawnFromItself DEF Reduced
  <2>3. QED
    BY <2>1, <2>2
<1>8. \A x \in Range(t) : \E g \in Range(s) : Reduced(x, g)
  BY <1>4, <1>7 DEF Range
<1>9. ASSUME NEW g \in Range(s), g.kind = "run"
      PROVE  \E x \in Range(t) : x.id = g.id /\ x.kind = "run"
  <2>1. PICK i \in 1..n : g = s[i]
    BY <1>4 DEF Range
  <2>2. t[i] \in Range(t)
    BY <1>4 DEF Range
  <2>3. QED
    BY <1>5, <1>9, <2>1, <2>2
<1>10. d.workspace = c.workspace /\ d.environment = c.environment
  BY <1>2 DEF Replaced
<1>11. Below(d, c)
  BY <1>3, <1>8, <1>9, <1>10, DrawnFromItself DEF Below
<1> QED
  BY <1>1, <1>11

LEMMA FieldBelow ==
    ASSUME NEW c, IsCapsule(c), UniqueIds(c), NEW id, NEW key
    PROVE  Below(DeleteField(c, id, key), c)
<1>1. PICK e : e = EventOf(c, id)
  OBVIOUS
<1>2. PICK P : P = [k \in DOMAIN e.payload \ {key} |-> e.payload[k]]
  OBVIOUS
<1>3. DeleteField(c, id, key) = ReplacePayload(c, id, P)
  BY <1>1, <1>2 DEF DeleteField, Restrict
<1>4. \A k \in DOMAIN P : /\ k \in DOMAIN e.payload /\ P[k].type = e.payload[k].type
                          /\ Drawn(P[k].atoms, e.payload[k].atoms)
  BY <1>2, DrawnFromItself
<1> QED
  BY <1>1, <1>3, <1>4, ReplacedBelow

LEMMA AtomsBelow ==
    ASSUME NEW c, IsCapsule(c), UniqueIds(c), NEW p, HasKey(c, p),
           NEW atoms, Drawn(atoms, AtomsOf(c, p))
    PROVE  Below(ReplaceAtoms(c, p.id, p.key, atoms), c)
<1>1. PICK e : e = EventOf(c, p.id)
  OBVIOUS
<1>2. PICK before, key : before = e.payload /\ key = p.key
  OBVIOUS
<1>3. PICK P : P = [before EXCEPT ![key].atoms = atoms]
  OBVIOUS
<1>4. ReplaceAtoms(c, p.id, p.key, atoms) = ReplacePayload(c, p.id, P)
  BY <1>1, <1>2, <1>3 DEF ReplaceAtoms
<1>5. IsPayload(before) /\ key \in DOMAIN before
  BY <1>1, <1>2, AtomsAreListed DEF HasKey
<1>6. WithAtoms(P, before, key, atoms)
  BY <1>3, <1>5, AtomsReplacedIn
<1>7. Drawn(atoms, before[key].atoms)
  BY <1>1, <1>2 DEF AtomsOf
<1>8. \A k \in DOMAIN P : /\ k \in DOMAIN before /\ P[k].type = before[k].type
                          /\ Drawn(P[k].atoms, before[k].atoms)
  BY <1>6, <1>7, DrawnFromItself DEF WithAtoms
<1> QED
  BY <1>1, <1>2, <1>4, <1>8, ReplacedBelow

LEMMA PathBelow ==
    ASSUME NEW c, IsCapsule(c), UniqueIds(c), NEW name \in JsonLevels, NEW p, IsTarget(c, name, p)
    PROVE  Below(DeletePath(c, name, p), c)
<1>1. CASE name = "json_fields"
  BY <1>1, FieldBelow DEF DeletePath
<1>2. CASE name = "json_items"
  <2>1. HasKey(c, p) /\ p.at \in DOMAIN AtomsOf(c, p)
    BY <1>2 DEF IsTarget, HasAtom
  <2>2. Drawn(RemoveAt(AtomsOf(c, p), p.at), AtomsOf(c, p))
    BY <2>1, AtomsAreListed, WithoutItemIs
  <2>3. DeletePath(c, name, p) = ReplaceAtoms(c, p.id, p.key, RemoveAt(AtomsOf(c, p), p.at))
    BY <1>2 DEF DeletePath, DeleteAtom, AtomsOf
  <2>4. QED
    BY <2>1, <2>2, <2>3, AtomsBelow
<1> QED
  BY <1>1, <1>2 DEF JsonLevels

\* What a level that searches leaves beside the events.
BuiltBeside(r, c, name, t, kept) ==
    /\ name = "files" =>
           /\ r.events = c.events /\ r.environment = c.environment
           /\ r.workspace = [f \in Range(kept) |-> c.workspace[f]]
    /\ name = "file_chunks" =>
           /\ r.events = c.events /\ r.environment = c.environment
           /\ DOMAIN r.workspace = DOMAIN c.workspace
           /\ \A f \in DOMAIN c.workspace : r.workspace[f] = IF f = t THEN kept ELSE c.workspace[f]
    /\ name = "environment" =>
           /\ r.events = c.events /\ r.workspace = c.workspace
           /\ r.environment = Range(kept)

LEMMA RestBuilt ==
    ASSUME NEW c, IsCapsule(c), NEW t, NEW units, NEW kept, NEW name, NEW r,
           r = Build(c, name, t, units, kept)
    PROVE  BuiltBeside(r, c, name, t, kept)
<1>1. c = [events |-> c.events, workspace |-> c.workspace, environment |-> c.environment]
  BY DEF IsCapsule
<1>2. ASSUME name = "files"
      PROVE  /\ r.events = c.events /\ r.environment = c.environment
             /\ r.workspace = [f \in Range(kept) |-> c.workspace[f]]
  <2>1. PICK w : w = [f \in Range(kept) |-> c.workspace[f]]
    OBVIOUS
  <2>2. r = [c EXCEPT !.workspace = w]
    BY <1>2, <2>1 DEF Build, EventLevels, Restrict
  <2>3. r = [events |-> c.events, workspace |-> w, environment |-> c.environment]
    BY <1>1, <2>2
  <2>4. QED
    BY <2>1, <2>3
<1>3. ASSUME name = "file_chunks"
      PROVE  /\ r.events = c.events /\ r.environment = c.environment
             /\ DOMAIN r.workspace = DOMAIN c.workspace
             /\ \A f \in DOMAIN c.workspace :
                    r.workspace[f] = IF f = t THEN kept ELSE c.workspace[f]
  <2>1. PICK w : w = [c.workspace EXCEPT ![t] = kept]
    OBVIOUS
  <2>2. r = [c EXCEPT !.workspace = w]
    BY <1>3, <2>1 DEF Build, EventLevels
  <2>3. r = [events |-> c.events, workspace |-> w, environment |-> c.environment]
    BY <1>1, <2>2
  <2>4. QED
    BY <2>1, <2>3
<1>4. ASSUME name = "environment"
      PROVE  /\ r.events = c.events /\ r.workspace = c.workspace
             /\ r.environment = Range(kept)
  <2>1. r = [c EXCEPT !.environment = Range(kept)]
    BY <1>4 DEF Build, EventLevels
  <2>2. r = [events |-> c.events, workspace |-> c.workspace, environment |-> Range(kept)]
    BY <1>1, <2>1
  <2>3. QED
    BY <2>2
<1> QED
  BY <1>2, <1>3, <1>4 DEF BuiltBeside

LEMMA RestBelow ==
    ASSUME NEW c, NEW r, r.events = c.events, DOMAIN r.workspace \subseteq DOMAIN c.workspace,
           \A f \in DOMAIN r.workspace : Drawn(r.workspace[f], c.workspace[f]),
           r.environment \subseteq c.environment
    PROVE  Below(r, c)
<1>1. \A e \in Range(c.events) : \E g \in Range(c.events) : Reduced(e, g)
  BY ReducedFromItself
<1> QED
  BY <1>1 DEF Below

LEMMA BuiltBelow ==
    ASSUME NEW c, IsCapsule(c), InOrder(c), NEW name \in BulkLevels, NEW t, IsTarget(c, name, t),
           NEW kept, Drawn(kept, Units(c, name, t)), NEW r, r = Build(c, name, t, Units(c, name, t), kept)
    PROVE  Below(r, c)
<1> DEFINE units == Units(c, name, t)
<1>1. Range(kept) \subseteq Range(units)
  BY DEF Drawn
<1>2. UniqueIds(c)
  BY ListIs DEF IsCapsule, InOrder, UniqueIds
<1>0. BuiltBeside(r, c, name, t, kept)
  BY RestBuilt
<1>3. CASE name \in EventLevels
  <2>1. units = EventUnits(c, name)
    BY <1>3 DEF Units, EventLevels
  <2>2. PICK gone : gone = Range(units) \ Range(kept)
    OBVIOUS
  <2>3. None \notin gone
    BY <2>1, <2>2, EventUnitsAre
  <2>4. r = RemoveEvents(c, gone)
    BY <1>3, <2>2 DEF Build, EventLevels
  <2>5. QED
    BY <2>3, <2>4, RemovedBelow
<1>4. CASE name = "text_chunks"
  <2>1. HasKey(c, t) /\ units = AtomsOf(c, t)
    BY <1>4, UnitsList DEF IsTarget
  <2>2. r = ReplaceAtoms(c, t.id, t.key, kept)
    BY <1>4 DEF Build, EventLevels
  <2>3. QED
    BY <1>2, <2>1, <2>2, AtomsBelow
<1>5. CASE name = "files"
  <2>1. Range(kept) \subseteq DOMAIN c.workspace
    BY <1>1, <1>5, UnitsList
  <2>2. /\ r.events = c.events /\ r.environment = c.environment
        /\ r.workspace = [f \in Range(kept) |-> c.workspace[f]]
    BY <1>0, <1>5 DEF BuiltBeside
  <2>3. QED
    BY <2>1, <2>2, DrawnFromItself, RestBelow
<1>6. CASE name = "file_chunks"
  <2>1. units = c.workspace[t] /\ t \in DOMAIN c.workspace
    BY <1>6 DEF Units, EventLevels, IsTarget
  <2>2. /\ r.events = c.events /\ r.environment = c.environment
        /\ DOMAIN r.workspace = DOMAIN c.workspace
        /\ \A f \in DOMAIN c.workspace :
               r.workspace[f] = IF f = t THEN kept ELSE c.workspace[f]
    BY <1>0, <1>6 DEF BuiltBeside
  <2>3. \A f \in DOMAIN r.workspace : Drawn(r.workspace[f], c.workspace[f])
    BY <2>1, <2>2, DrawnFromItself
  <2>4. QED
    BY <2>2, <2>3, RestBelow
<1>7. CASE name = "environment"
  <2>1. units = SetToSeq(c.environment)
    BY <1>7 DEF Units, EventLevels
  <2>2. Range(kept) \subseteq c.environment
    BY <1>1, <2>1, SetInOrder DEF IsCapsule
  <2>3. r.events = c.events /\ r.workspace = c.workspace /\ r.environment = Range(kept)
    BY <1>0, <1>7 DEF BuiltBeside
  <2>4. QED
    BY <2>2, <2>3, DrawnFromItself, RestBelow
<1> QED
  BY <1>3, <1>4, <1>5, <1>6, <1>7, LevelsAre DEF BulkLevels

-------------------------------------------------------------------------------
(* The deletions of a level, by target.                                      *)

\* The events that a level tries, whichever are left of them.
Offered(name, e) ==
    /\ name = "spans" => IsSpanUnit(Source, EventOf(Source, e.id))
    /\ name = "messages" => e.kind = "message"
    /\ name = "tool_pairs" => e.kind = "tool_call"
    /\ name = "model_pairs" => e.kind = "model_request"

\* `d' is what one deletion for the target `t' of a level leaves of `c'.
Deletes(c, name, t, d) ==
    \/ /\ name \in EventLevels /\ t = name
       /\ \E e \in Range(c.events) : Offered(name, e) /\ d = RemoveEvents(c, {e.id})
    \/ /\ name = "json_fields" /\ t \in KeysWith(c, {"text", "list"})
       /\ d = DeleteField(c, t.id, t.key)
    \/ /\ name = "json_items"
       /\ \E p \in KeysWith(c, {"list"}) : t \in AtomsAt(c, p) /\ d = DeleteAtom(c, t.id, t.key, t.at)
    \/ /\ name = "text_chunks" /\ t \in KeysWith(c, {"text"})
       /\ \E i \in DOMAIN AtomsOf(c, t) : d = DeleteAtom(c, t.id, t.key, i)
    \/ /\ name = "files" /\ t = name
       /\ \E f \in DOMAIN c.workspace :
              d = [c EXCEPT !.workspace = Restrict(@, DOMAIN @ \ {f})]
    \/ /\ name = "file_chunks" /\ t \in DOMAIN c.workspace
       /\ \E i \in DOMAIN c.workspace[t] : d = [c EXCEPT !.workspace[t] = RemoveAt(@, i)]
    \/ /\ name = "environment" /\ t = name
       /\ \E v \in c.environment : d = [c EXCEPT !.environment = @ \ {v}]

LEMMA DeletesCapsule ==
    ASSUME NEW c, IsCapsule(c), UniqueIds(c), NEW name, NEW t, NEW d, Deletes(c, name, t, d)
    PROVE  IsCapsule(d)
<1>0. c = [events |-> c.events, workspace |-> c.workspace, environment |-> c.environment]
  BY DEF IsCapsule
<1>1. CASE name \in EventLevels
  BY <1>1, RemovedEvents DEF Deletes, EventLevels
<1>2. CASE name = "json_fields"
  BY <1>2, KeysWithAreKeys, DeletedField DEF Deletes, EventLevels
<1>3. CASE name = "json_items"
  <2>1. PICK p \in KeysWith(c, {"list"}) : t \in AtomsAt(c, p) /\ d = DeleteAtom(c, t.id, t.key, t.at)
    BY <1>3 DEF Deletes, EventLevels
  <2>2. PICK i \in DOMAIN AtomsOf(c, p) : t.id = p.id /\ t.key = p.key /\ t.at = i
    BY <2>1 DEF AtomsAt
  <2>3. HasKey(c, p)
    BY KeysWithAreKeys
  <2>4. IsList(RemoveAt(AtomsOf(c, p), i))
    BY <2>2, <2>3, AtomsAreListed, WithoutItemIs
  <2>5. d = ReplaceAtoms(c, p.id, p.key, RemoveAt(AtomsOf(c, p), i))
    BY <2>1, <2>2 DEF DeleteAtom, AtomsOf
  <2>6. QED
    BY <2>3, <2>4, <2>5, ReplacedAtoms
<1>4. CASE name = "text_chunks"
  <2>1. t \in KeysWith(c, {"text"})
    BY <1>4 DEF Deletes, EventLevels
  <2>2. PICK i \in DOMAIN AtomsOf(c, t) : d = DeleteAtom(c, t.id, t.key, i)
    BY <1>4 DEF Deletes, EventLevels
  <2>3. HasKey(c, t)
    BY <2>1, KeysWithAreKeys
  <2>4. IsList(RemoveAt(AtomsOf(c, t), i))
    BY <2>2, <2>3, AtomsAreListed, WithoutItemIs
  <2>5. d = ReplaceAtoms(c, t.id, t.key, RemoveAt(AtomsOf(c, t), i))
    BY <2>2 DEF DeleteAtom, AtomsOf
  <2>6. QED
    BY <2>3, <2>4, <2>5, ReplacedAtoms
<1>5. CASE name = "files"
  <2>1. PICK f \in DOMAIN c.workspace : d = [c EXCEPT !.workspace = Restrict(@, DOMAIN @ \ {f})]
    BY <1>5 DEF Deletes, EventLevels
  <2>2. PICK w : w = Restrict(c.workspace, DOMAIN c.workspace \ {f})
    OBVIOUS
  <2>3. w = [g \in DOMAIN c.workspace \ {f} |-> c.workspace[g]]
    BY <2>2 DEF Restrict
  <2>4. IsFiniteSet(DOMAIN c.workspace \ {f})
    BY FS_Subset DEF IsCapsule
  <2>5. IsCapsule([c EXCEPT !.workspace = w])
    BY <2>3, <2>4, WorkspaceReplaced DEF IsCapsule
  <2>6. QED
    BY <2>1, <2>2, <2>5
<1>6. CASE name = "file_chunks"
  <2>1. t \in DOMAIN c.workspace
    BY <1>6 DEF Deletes, EventLevels
  <2>2. PICK i \in DOMAIN c.workspace[t] : d = [c EXCEPT !.workspace[t] = RemoveAt(@, i)]
    BY <1>6 DEF Deletes, EventLevels
  <2>3. PICK w : w = RemoveAt(c.workspace[t], i)
    OBVIOUS
  <2>4. IsList(w)
    BY <2>1, <2>3, WithoutItemIs DEF IsCapsule
  <2>5. d = [c EXCEPT !.workspace[t] = w]
    BY <2>1, <2>2, <2>3
  <2>6. QED
    BY <2>1, <2>4, <2>5, FileReplaced
<1>7. CASE name = "environment"
  <2>1. PICK v \in c.environment : d = [c EXCEPT !.environment = @ \ {v}]
    BY <1>7 DEF Deletes, EventLevels
  <2>2. PICK w : w = c.environment \ {v}
    OBVIOUS
  <2>3. d = [events |-> c.events, workspace |-> c.workspace, environment |-> w]
    BY <1>0, <2>1, <2>2
  <2>4. IsFiniteSet(w)
    BY <2>2, FS_Subset DEF IsCapsule
  <2>5. QED
    BY <2>3, <2>4 DEF IsCapsule
<1> QED
  BY <1>1, <1>2, <1>3, <1>4, <1>5, <1>6, <1>7 DEF Deletes

\* A deletion that is left later is no larger than one the level had before.
LEMMA DeletesCovered ==
    ASSUME NEW b, NEW c, IsCapsule(b), IsCapsule(c), Valid(b), Valid(c), Below(b, c),
           NEW name, NEW t, NEW d, Deletes(b, name, t, d)
    PROVE  \E s, e : /\ Deletes(c, name, s, e) /\ Covered(d, e)
                     /\ name \notin JsonLevels => s = t
<1>1. InOrder(b) /\ UniqueIds(b) /\ UniqueIds(c)
  BY ValidIsInOrder, ValidHasUniqueIds
<1>2. CASE name \in EventLevels
  <2>1. PICK e \in Range(b.events) : Offered(name, e) /\ d = RemoveEvents(b, {e.id})
    BY <1>2 DEF Deletes, EventLevels
  <2>2. PICK g \in Range(c.events) : Reduced(e, g)
    BY DEF Below
  <2>3. e.id = g.id /\ Offered(name, g) /\ e.id # None
    BY <2>1, <2>2 DEF Reduced, Offered, IsCapsule, IsEvent
  <2>4. Covered(d, RemoveEvents(c, {g.id}))
    BY <1>1, <2>1, <2>3, EventCovered
  <2>5. Deletes(c, name, t, RemoveEvents(c, {g.id}))
    <3>1. t = name
      BY <1>2 DEF Deletes, EventLevels
    <3>2. QED
      BY <1>2, <2>3, <3>1 DEF Deletes
  <2>6. QED
    BY <2>4, <2>5
<1>3. CASE name = "json_fields"
  <2>1. t \in KeysWith(b, {"text", "list"}) /\ d = DeleteField(b, t.id, t.key)
    BY <1>3 DEF Deletes, EventLevels
  <2>2. Covered(d, DeleteField(c, t.id, t.key)) /\ t \in KeysWith(c, {"text", "list"})
    BY <1>1, <2>1, FieldCovered, KeysBelow
  <2>3. Deletes(c, name, t, DeleteField(c, t.id, t.key))
    BY <1>3, <2>2 DEF Deletes
  <2>4. QED
    BY <2>2, <2>3
<1>4. CASE name = "json_items"
  <2>1. PICK p \in KeysWith(b, {"list"}) : t \in AtomsAt(b, p) /\ d = DeleteAtom(b, t.id, t.key, t.at)
    BY <1>4 DEF Deletes, EventLevels
  <2>2. PICK i \in DOMAIN AtomsOf(b, p) : t.id = p.id /\ t.key = p.key /\ t.at = i
    BY <2>1 DEF AtomsAt
  <2>3. PICK k \in DOMAIN AtomsOf(c, p) :
            Covered(DeleteAtom(b, p.id, p.key, i), DeleteAtom(c, p.id, p.key, k))
    BY <1>1, AtomCovered
  <2>4. PICK s : s = [id |-> p.id, key |-> p.key, at |-> k]
    OBVIOUS
  <2>5. s \in AtomsAt(c, p) /\ p \in KeysWith(c, {"list"})
    BY <1>1, <2>3, <2>4, KeysBelow DEF AtomsAt
  <2>6. s.id = p.id /\ s.key = p.key /\ s.at = k
    BY <2>4
  <2>7. Deletes(c, name, s, DeleteAtom(c, s.id, s.key, s.at))
    BY <1>4, <2>5 DEF Deletes
  <2>8. Covered(d, DeleteAtom(c, s.id, s.key, s.at))
    BY <2>1, <2>2, <2>3, <2>6
  <2>9. QED
    BY <1>4, <2>7, <2>8 DEF JsonLevels
<1>5. CASE name = "text_chunks"
  <2>1. t \in KeysWith(b, {"text"})
    BY <1>5 DEF Deletes, EventLevels
  <2>2. PICK i \in DOMAIN AtomsOf(b, t) : d = DeleteAtom(b, t.id, t.key, i)
    BY <1>5 DEF Deletes, EventLevels
  <2>3. PICK k \in DOMAIN AtomsOf(c, t) :
            Covered(DeleteAtom(b, t.id, t.key, i), DeleteAtom(c, t.id, t.key, k))
    BY <1>1, <2>1, AtomCovered
  <2>4. t \in KeysWith(c, {"text"})
    BY <1>1, <2>1, KeysBelow
  <2>5. Deletes(c, name, t, DeleteAtom(c, t.id, t.key, k))
    BY <1>5, <2>4 DEF Deletes
  <2>6. QED
    BY <2>2, <2>3, <2>5
<1>6. CASE name = "files"
  <2>1. PICK f \in DOMAIN b.workspace : d = [b EXCEPT !.workspace = Restrict(@, DOMAIN @ \ {f})]
    BY <1>6 DEF Deletes, EventLevels
  <2>2. PICK e : e = [c EXCEPT !.workspace = Restrict(@, DOMAIN @ \ {f})]
    OBVIOUS
  <2>3. f \in DOMAIN c.workspace /\ t = name
    BY <1>6 DEF Below, Deletes, EventLevels
  <2>4. Deletes(c, name, t, e)
    BY <1>6, <2>2, <2>3 DEF Deletes
  <2>5. PICK v, w : /\ v = [g \in DOMAIN b.workspace \ {f} |-> b.workspace[g]]
                    /\ w = [g \in DOMAIN c.workspace \ {f} |-> c.workspace[g]]
    OBVIOUS
  <2>6. /\ d = [events |-> b.events, workspace |-> v, environment |-> b.environment]
        /\ e = [events |-> c.events, workspace |-> w, environment |-> c.environment]
    <3>1. d = [b EXCEPT !.workspace = v] /\ e = [c EXCEPT !.workspace = w]
      BY <2>1, <2>2, <2>5 DEF Restrict
    <3>2. QED
      BY <3>1 DEF IsCapsule
  <2>7. IsCapsule(d) /\ IsCapsule(e)
    BY <1>1, <2>4, DeletesCapsule
  <2>8. /\ DOMAIN v \subseteq DOMAIN w /\ b.environment \subseteq c.environment
        /\ \A g \in DOMAIN v : Range(v[g]) \subseteq Range(w[g])
    BY <2>5 DEF Below, Drawn
  <2>9. Covered(d, e)
    BY <2>6, <2>7, <2>8, RestCovered
  <2>10. QED
    BY <2>4, <2>9
<1>7. CASE name = "file_chunks"
  <2>1. t \in DOMAIN b.workspace
    BY <1>7 DEF Deletes, EventLevels
  <2>2. PICK i \in DOMAIN b.workspace[t] : d = [b EXCEPT !.workspace[t] = RemoveAt(@, i)]
    BY <1>7 DEF Deletes, EventLevels
  <2>3. t \in DOMAIN c.workspace /\ Drawn(b.workspace[t], c.workspace[t])
    BY <2>1 DEF Below
  <2>4. PICK k \in DOMAIN c.workspace[t] : Others(b.workspace[t], i) \subseteq Others(c.workspace[t], k)
    BY <2>3 DEF Drawn
  <2>5. PICK e : e = [c EXCEPT !.workspace[t] = RemoveAt(@, k)]
    OBVIOUS
  <2>6. Deletes(c, name, t, e)
    BY <1>7, <2>3, <2>5 DEF Deletes
  <2>7. IsCapsule(d) /\ IsCapsule(e)
    BY <1>1, <2>6, DeletesCapsule
  <2>8. PICK x, y : x = RemoveAt(b.workspace[t], i) /\ y = RemoveAt(c.workspace[t], k)
    OBVIOUS
  <2>9. Range(x) \subseteq Range(y)
    <3>1. IsList(b.workspace[t]) /\ IsList(c.workspace[t])
      BY <2>1, <2>3 DEF IsCapsule
    <3>2. Range(x) = Others(b.workspace[t], i) /\ Range(y) = Others(c.workspace[t], k)
      BY <2>8, <3>1, WithoutItemIs
    <3>3. QED
      BY <2>4, <3>2
  <2>10. PICK v, w : v = [b.workspace EXCEPT ![t] = x] /\ w = [c.workspace EXCEPT ![t] = y]
    OBVIOUS
  <2>11. /\ d = [events |-> b.events, workspace |-> v, environment |-> b.environment]
         /\ e = [events |-> c.events, workspace |-> w, environment |-> c.environment]
    <3>1. d = [b EXCEPT !.workspace = v] /\ e = [c EXCEPT !.workspace = w]
      BY <2>2, <2>5, <2>8, <2>10
    <3>2. QED
      BY <3>1 DEF IsCapsule
  <2>12. /\ DOMAIN v = DOMAIN b.workspace
         /\ \A g \in DOMAIN v : v[g] = IF g = t THEN x ELSE b.workspace[g]
         /\ DOMAIN w = DOMAIN c.workspace
         /\ \A g \in DOMAIN w : w[g] = IF g = t THEN y ELSE c.workspace[g]
    BY <2>10
  <2>13. /\ DOMAIN v \subseteq DOMAIN w /\ b.environment \subseteq c.environment
         /\ \A g \in DOMAIN v : Range(v[g]) \subseteq Range(w[g])
    BY <2>9, <2>12 DEF Below, Drawn
  <2>14. Covered(d, e)
    BY <2>7, <2>11, <2>13, RestCovered
  <2>15. QED
    BY <2>6, <2>14
<1>8. CASE name = "environment"
  <2>1. PICK v \in b.environment : d = [b EXCEPT !.environment = @ \ {v}]
    BY <1>8 DEF Deletes, EventLevels
  <2>2. PICK e : e = [c EXCEPT !.environment = @ \ {v}]
    OBVIOUS
  <2>3. v \in c.environment /\ t = name
    BY <1>8 DEF Below, Deletes, EventLevels
  <2>4. Deletes(c, name, t, e)
    BY <1>8, <2>2, <2>3 DEF Deletes
  <2>5. IsCapsule(d) /\ IsCapsule(e)
    BY <1>1, <2>4, DeletesCapsule
  <2>6. /\ d = [events |-> b.events, workspace |-> b.workspace, environment |-> b.environment \ {v}]
        /\ e = [events |-> c.events, workspace |-> c.workspace, environment |-> c.environment \ {v}]
    BY <2>1, <2>2 DEF IsCapsule
  <2>7. /\ DOMAIN b.workspace \subseteq DOMAIN c.workspace
        /\ b.environment \ {v} \subseteq c.environment \ {v}
        /\ \A g \in DOMAIN b.workspace : Range(b.workspace[g]) \subseteq Range(c.workspace[g])
    BY DEF Below, Drawn
  <2>8. Covered(d, e)
    BY <2>5, <2>6, <2>7, RestCovered
  <2>9. QED
    BY <2>4, <2>8
<1> QED
  BY <1>2, <1>3, <1>4, <1>5, <1>6, <1>7, <1>8 DEF Deletes

LEMMA CoveredItself == \A d : Covered(d, d)
  BY DEF Covered

\* What a deletion leaves of a search's result was asked about, or more was.
LEMMA EventResult ==
    ASSUME NEW c, IsCapsule(c), InOrder(c), UniqueIds(c), NEW name \in EventLevels, NEW t,
           name = "spans" => c = Source,
           NEW kept, IsList(kept), Distinct(kept), Range(kept) \subseteq Range(Units(c, name, t)),
           NEW r, r = Build(c, name, t, Units(c, name, t), kept), IsCapsule(r), InOrder(r),
           NEW e \in Range(r.events), Offered(name, e)
    PROVE  \E i \in 1..Len(kept) :
               RemoveEvents(r, {e.id}) = Build(c, name, t, Units(c, name, t), WithoutItem(kept, i))
<1> DEFINE first == Range(Units(c, name, t)) \ Range(kept)
<1>1. PICK g \in Range(c.events) : Like(e, g)
  <2>1. r = RemoveEvents(c, first)
    BY DEF Build, EventLevels
  <2>2. PICK G : r.events = Resequence(Remaining(c.events, G))
    BY <2>1, RemovedIs
  <2>3. QED
    BY <2>2, LeftEvents
<1>2. IsLevelUnit(c, g, name)
  <2>1. EventOf(c, e.id) = g
    BY <1>1, EventOfId DEF Like
  <2>2. CASE name = "spans"
    BY <2>1, <2>2 DEF IsLevelUnit, Offered
  <2>3. CASE name = "messages"
    BY <1>1, <2>3 DEF IsLevelUnit, Offered, Like
  <2>4. CASE name = "tool_pairs"
    BY <1>1, <2>4 DEF IsLevelUnit, Offered, Like
  <2>5. CASE name = "model_pairs"
    BY <1>1, <2>5 DEF IsLevelUnit, Offered, Like
  <2> QED
    BY <2>2, <2>3, <2>4, <2>5 DEF EventLevels
<1>3. Units(c, name, t) = EventUnits(c, name)
  BY DEF Units, EventLevels
<1>4. e.id \in Range(Units(c, name, t))
  <2>1. e.id = g.id
    BY <1>1 DEF Like
  <2>2. Range(EventUnits(c, name)) = {h.id : h \in {h \in Range(c.events) : IsLevelUnit(c, h, name)}}
    BY EventUnitsAre
  <2>3. g.id \in Range(EventUnits(c, name))
    BY <1>2, <2>2
  <2>4. QED
    BY <1>3, <2>1, <2>3
<1>5. e.id \in Ids(r)
  BY DEF Ids, Range
<1>6. PICK x : x = e.id
  OBVIOUS
<1>7. x \in Ids(r) /\ x \in Range(Units(c, name, t))
  BY <1>4, <1>5, <1>6
<1> HIDE DEF first
<1>8. \E i \in 1..Len(kept) :
         RemoveEvents(r, {x}) = Build(c, name, t, Units(c, name, t), WithoutItem(kept, i))
  BY <1>7, EventDeletion
<1> QED
  BY <1>6, <1>8

\* What was put in is there.
LEMMA AtomsReplaced ==
    ASSUME NEW c, IsCapsule(c), NEW p, HasKey(c, p), EventOf(c, p.id).id = p.id, NEW atoms,
           NEW r, r = ReplaceAtoms(c, p.id, p.key, atoms), UniqueIds(r)
    PROVE  AtomsOf(r, p) = atoms
<1> DEFINE e == EventOf(c, p.id)
           payload == [e.payload EXCEPT ![p.key].atoms = atoms]
<1>1. e \in Range(c.events) /\ p.key \in DOMAIN e.payload
  BY DEF HasKey
<1>2. Replaced(r, c, p.id, payload)
  <2>1. r = ReplacePayload(c, p.id, payload)
    BY DEF ReplaceAtoms
  <2>2. QED
    BY <2>1, ReplacedIs
<1>3. WithAtoms(payload, e.payload, p.key, atoms)
  <2>1. IsPayload(e.payload)
    BY <1>1 DEF IsCapsule, IsEvent
  <2>2. QED
    BY <1>1, <2>1, AtomsReplacedIn
<1>4. PICK n \in 1..Len(c.events) : c.events[n] = e
  BY <1>1, ListIs DEF IsCapsule
<1> HIDE DEF payload, e
<1>5. r.events[n].id = p.id /\ r.events[n].payload = payload
  BY <1>2, <1>4 DEF Replaced, e
<1>6. r.events[n] \in Range(r.events)
  BY <1>2, ListIs DEF Replaced
<1>7. EventOf(r, p.id) = r.events[n]
  BY <1>5, <1>6, EventOfId
<1> QED
  BY <1>3, <1>5, <1>7 DEF AtomsOf, WithAtoms

LEMMA TextResult ==
    ASSUME NEW c, IsCapsule(c), UniqueIds(c), Valid(c), NEW t, IsTarget(c, "text_chunks", t),
           EventOf(c, t.id).id = t.id,
           NEW kept, IsList(kept), Drawn(kept, Units(c, "text_chunks", t)),
           NEW r, r = Build(c, "text_chunks", t, Units(c, "text_chunks", t), kept),
           IsCapsule(r), UniqueIds(r), Below(r, c),
           t \in KeysWith(r, {"text"}), NEW i \in DOMAIN AtomsOf(r, t)
    PROVE  /\ i \in 1..Len(kept)
           /\ Covered(DeleteAtom(r, t.id, t.key, i),
                      Build(c, "text_chunks", t, Units(c, "text_chunks", t), WithoutItem(kept, i)))
<1>1. HasKey(c, t)
  BY DEF IsTarget
<1>2. r = ReplaceAtoms(c, t.id, t.key, kept)
  BY DEF Build, EventLevels
<1>3. AtomsOf(r, t) = kept
  BY <1>1, <1>2, AtomsReplaced
<1>4. i \in 1..Len(kept) /\ i \in DOMAIN kept
  BY <1>3, ListIs
<1>5. IsList(WithoutItem(kept, i)) /\ RemoveAt(kept, i) = WithoutItem(kept, i)
  BY <1>4, WithoutItemIs
<1>6. DeleteAtom(r, t.id, t.key, i) = ReplaceAtoms(r, t.id, t.key, WithoutItem(kept, i))
  BY <1>3, <1>5 DEF DeleteAtom, AtomsOf
<1>7. Build(c, "text_chunks", t, Units(c, "text_chunks", t), WithoutItem(kept, i))
          = ReplaceAtoms(c, t.id, t.key, WithoutItem(kept, i))
  BY DEF Build, EventLevels
<1>8. Covered(ReplaceAtoms(r, t.id, t.key, WithoutItem(kept, i)),
              ReplaceAtoms(c, t.id, t.key, WithoutItem(kept, i)))
  BY <1>5, AtomsCovered
<1> QED
  BY <1>4, <1>6, <1>7, <1>8

LEMMA FilesResult ==
    ASSUME NEW c, IsCapsule(c), UniqueIds(c), Valid(c), NEW t,
           NEW kept, IsList(kept), Distinct(kept), Range(kept) \subseteq Range(Units(c, "files", t)),
           NEW r, r = Build(c, "files", t, Units(c, "files", t), kept),
           IsCapsule(r), UniqueIds(r), Below(r, c), NEW f \in DOMAIN r.workspace,
           NEW d, d = [r EXCEPT !.workspace = Restrict(@, DOMAIN @ \ {f})], IsCapsule(d)
    PROVE  \E i \in 1..Len(kept) :
               Covered(d, Build(c, "files", t, Units(c, "files", t), WithoutItem(kept, i)))
<1>1. BuiltBeside(r, c, "files", t, kept)
  BY RestBuilt
<1>2. DOMAIN r.workspace = Range(kept) /\ r.events = c.events /\ r.environment = c.environment
  BY <1>1 DEF BuiltBeside
<1>3. \A g \in Range(kept) : r.workspace[g] = c.workspace[g]
  BY <1>1 DEF BuiltBeside
<1>4. PICK i \in 1..Len(kept) : kept[i] = f
  BY SMTT(60), <1>2, ListIs
<1>5. IsList(WithoutItem(kept, i)) /\ Range(WithoutItem(kept, i)) = Range(kept) \ {f}
  BY <1>4, WithoutItemOfDistinct
<1>6. PICK s : s = Build(c, "files", t, Units(c, "files", t), WithoutItem(kept, i))
  OBVIOUS
<1>7. BuiltBeside(s, c, "files", t, WithoutItem(kept, i))
  BY <1>6, RestBuilt
<1>8. DOMAIN s.workspace = Range(kept) \ {f} /\ s.events = c.events /\ s.environment = c.environment
  BY <1>5, <1>7 DEF BuiltBeside
<1>9. \A g \in Range(kept) \ {f} : s.workspace[g] = c.workspace[g]
  BY <1>5, <1>7 DEF BuiltBeside
<1>10. IsCapsule(s)
  <2>1. "files" \in BulkLevels /\ IsTarget(c, "files", t)
    BY LevelsAre DEF BulkLevels, JsonLevels, IsTarget
  <2>2. Range(WithoutItem(kept, i)) \subseteq Range(Units(c, "files", t))
    BY <1>5
  <2>3. QED
    BY <1>5, <1>6, <2>1, <2>2, BuiltCapsule
<1>11. /\ d.events = r.events /\ d.environment = r.environment
       /\ d.workspace = Restrict(r.workspace, DOMAIN r.workspace \ {f})
  BY DEF IsCapsule
<1>12. /\ DOMAIN d.workspace = Range(kept) \ {f}
       /\ \A g \in Range(kept) \ {f} : d.workspace[g] = c.workspace[g]
  BY <1>2, <1>3, <1>11 DEF Restrict
<1>13. \A g \in DOMAIN d.workspace : Range(d.workspace[g]) \subseteq Range(s.workspace[g])
  BY <1>9, <1>12
<1>14. Covered(d, s)
  <2>1. IsCapsule(d) /\ d.events = r.events /\ s.events = c.events
    BY <1>8, <1>11
  <2>2. DOMAIN d.workspace \subseteq DOMAIN s.workspace /\ d.environment \subseteq s.environment
    BY <1>2, <1>8, <1>11, <1>12
  <2>3. QED
    BY <1>2, <1>10, <1>13, <2>1, <2>2, RestCovered
<1> QED
  BY <1>4, <1>6, <1>14

LEMMA EnvironmentResult ==
    ASSUME NEW c, IsCapsule(c), UniqueIds(c), Valid(c), NEW t,
           NEW kept, IsList(kept), Distinct(kept), Range(kept) \subseteq Range(Units(c, "environment", t)),
           NEW r, r = Build(c, "environment", t, Units(c, "environment", t), kept),
           IsCapsule(r), UniqueIds(r), Below(r, c), NEW v \in r.environment,
           NEW d, d = [r EXCEPT !.environment = @ \ {v}], IsCapsule(d)
    PROVE  \E i \in 1..Len(kept) :
               Covered(d, Build(c, "environment", t, Units(c, "environment", t), WithoutItem(kept, i)))
<1>1. BuiltBeside(r, c, "environment", t, kept)
  BY RestBuilt
<1>2. r.environment = Range(kept) /\ r.events = c.events /\ r.workspace = c.workspace
  BY <1>1 DEF BuiltBeside
<1>4. PICK i \in 1..Len(kept) : kept[i] = v
  BY <1>2, ListIs
<1>5. IsList(WithoutItem(kept, i)) /\ Range(WithoutItem(kept, i)) = Range(kept) \ {v}
  BY <1>4, WithoutItemOfDistinct
<1>6. PICK s : s = Build(c, "environment", t, Units(c, "environment", t), WithoutItem(kept, i))
  OBVIOUS
<1>7. BuiltBeside(s, c, "environment", t, WithoutItem(kept, i))
  BY <1>6, RestBuilt
<1>8. s.environment = Range(kept) \ {v} /\ s.events = c.events /\ s.workspace = c.workspace
  BY <1>5, <1>7 DEF BuiltBeside
<1>10. IsCapsule(s)
  <2>1. "environment" \in BulkLevels /\ IsTarget(c, "environment", t)
    BY LevelsAre DEF BulkLevels, JsonLevels, IsTarget
  <2>2. Range(WithoutItem(kept, i)) \subseteq Range(Units(c, "environment", t))
    BY <1>5
  <2>3. QED
    BY <1>5, <1>6, <2>1, <2>2, BuiltCapsule
<1>11. d.events = r.events /\ d.workspace = r.workspace /\ d.environment = Range(kept) \ {v}
  BY <1>2 DEF IsCapsule
<1>12. Covered(d, s)
  BY <1>2, <1>8, <1>10, <1>11, RestCovered
<1> QED
  BY <1>4, <1>6, <1>12

LEMMA ChunksResult ==
    ASSUME NEW c, IsCapsule(c), UniqueIds(c), Valid(c), NEW t \in DOMAIN c.workspace,
           NEW kept, IsList(kept), Range(kept) \subseteq Range(Units(c, "file_chunks", t)),
           NEW r, r = Build(c, "file_chunks", t, Units(c, "file_chunks", t), kept),
           IsCapsule(r), UniqueIds(r), Below(r, c), NEW i \in DOMAIN r.workspace[t],
           NEW d, d = [r EXCEPT !.workspace[t] = RemoveAt(@, i)], IsCapsule(d)
    PROVE  /\ i \in 1..Len(kept)
           /\ Covered(d, Build(c, "file_chunks", t, Units(c, "file_chunks", t), WithoutItem(kept, i)))
<1>1. BuiltBeside(r, c, "file_chunks", t, kept)
  BY RestBuilt
<1>2. DOMAIN r.workspace = DOMAIN c.workspace /\ r.events = c.events /\ r.environment = c.environment
  BY <1>1 DEF BuiltBeside
<1>3. \A g \in DOMAIN c.workspace : r.workspace[g] = IF g = t THEN kept ELSE c.workspace[g]
  BY <1>1 DEF BuiltBeside
<1>4. i \in 1..Len(kept) /\ i \in DOMAIN kept
  BY <1>3, ListIs
<1>5. /\ IsList(WithoutItem(kept, i)) /\ RemoveAt(kept, i) = WithoutItem(kept, i)
      /\ Range(WithoutItem(kept, i)) \subseteq Range(kept)
  BY <1>4, WithoutItemIs DEF Drawn
<1>6. PICK s : s = Build(c, "file_chunks", t, Units(c, "file_chunks", t), WithoutItem(kept, i))
  OBVIOUS
<1>7. BuiltBeside(s, c, "file_chunks", t, WithoutItem(kept, i))
  BY <1>6, RestBuilt
<1>8. DOMAIN s.workspace = DOMAIN c.workspace /\ s.events = c.events /\ s.environment = c.environment
  BY <1>7 DEF BuiltBeside
<1>9. \A g \in DOMAIN c.workspace :
          s.workspace[g] = IF g = t THEN WithoutItem(kept, i) ELSE c.workspace[g]
  BY <1>7 DEF BuiltBeside
<1>10. IsCapsule(s)
  <2>1. "file_chunks" \in BulkLevels /\ IsTarget(c, "file_chunks", t)
    BY LevelsAre DEF BulkLevels, JsonLevels, IsTarget
  <2>2. Range(WithoutItem(kept, i)) \subseteq Range(Units(c, "file_chunks", t))
    BY <1>5
  <2>3. QED
    BY <1>5, <1>6, <2>1, <2>2, BuiltCapsule
<1>11. d.events = r.events /\ d.environment = r.environment /\ DOMAIN d.workspace = DOMAIN r.workspace
  BY DEF IsCapsule
<1>12. /\ d.workspace[t] = RemoveAt(r.workspace[t], i)
       /\ \A g \in DOMAIN r.workspace : g # t => d.workspace[g] = r.workspace[g]
  BY <1>2 DEF IsCapsule
<1>13. r.workspace[t] = kept
  BY <1>3
<1>14. \A g \in DOMAIN d.workspace : Range(d.workspace[g]) \subseteq Range(s.workspace[g])
  <2> SUFFICES ASSUME NEW g \in DOMAIN c.workspace
               PROVE  d.workspace[g] = s.workspace[g]
    BY <1>2, <1>11
  <2>1. CASE g = t
    BY <1>5, <1>9, <1>12, <1>13, <2>1
  <2>2. CASE g # t
    BY <1>2, <1>3, <1>9, <1>12, <2>2
  <2> QED
    BY <2>1, <2>2
<1>15. Covered(d, s)
  BY <1>2, <1>8, <1>10, <1>11, <1>14, RestCovered
<1> QED
  BY <1>4, <1>6, <1>15

\* A single deletion from what a ddmin call returns leaves no more than that call's
\* last candidates.
LEMMA ResultDeletions ==
    ASSUME NEW c, IsCapsule(c), Valid(c), NEW name \in BulkLevels, NEW t, IsTarget(c, name, t),
           name = "spans" => c = Source, name = "text_chunks" => EventOf(c, t.id).id = t.id,
           NEW kept, IsList(kept), Drawn(kept, Units(c, name, t)),
           name \in SingleLevels => Distinct(kept),
           NEW r, r = Build(c, name, t, Units(c, name, t), kept), IsCapsule(r), Valid(r),
           NEW d, Deletes(r, name, t, d)
    PROVE  \E i \in 1..Len(kept) :
               Covered(d, Build(c, name, t, Units(c, name, t), WithoutItem(kept, i)))
<1>1. InOrder(c) /\ UniqueIds(c) /\ InOrder(r) /\ UniqueIds(r)
  BY ValidIsInOrder, ValidHasUniqueIds
<1>2. Below(r, c)
  BY <1>1, BuiltBelow
<1>3. Range(kept) \subseteq Range(Units(c, name, t))
  BY DEF Drawn
<1>4. IsCapsule(d)
  BY <1>1, DeletesCapsule
<1>5. name \notin JsonLevels
  BY DEF BulkLevels
<1>6. CASE name \in EventLevels
  <2>1. PICK e \in Range(r.events) : Offered(name, e) /\ d = RemoveEvents(r, {e.id})
    BY <1>6 DEF Deletes, EventLevels
  <2>2. Distinct(kept)
    BY <1>6 DEF SingleLevels
  <2>3. \E i \in 1..Len(kept) :
           RemoveEvents(r, {e.id}) = Build(c, name, t, Units(c, name, t), WithoutItem(kept, i))
    BY <1>1, <1>3, <1>6, <2>1, <2>2, EventResult
  <2>4. QED
    BY <2>1, <2>3, CoveredItself
<1>7. CASE name = "text_chunks"
  <2>1. /\ t \in KeysWith(r, {"text"})
        /\ \E i \in DOMAIN AtomsOf(r, t) : d = DeleteAtom(r, t.id, t.key, i)
    BY <1>7 DEF Deletes, EventLevels
  <2>2. PICK i \in DOMAIN AtomsOf(r, t) : d = DeleteAtom(r, t.id, t.key, i)
    BY <2>1
  <2>3. QED
    BY <1>1, <1>2, <1>7, <2>1, <2>2, TextResult
<1>8. CASE name = "files"
  <2>1. PICK f \in DOMAIN r.workspace : d = [r EXCEPT !.workspace = Restrict(@, DOMAIN @ \ {f})]
    BY <1>8 DEF Deletes, EventLevels
  <2>2. Distinct(kept)
    BY <1>8 DEF SingleLevels
  <2>3. QED
    BY <1>1, <1>2, <1>3, <1>4, <1>8, <2>1, <2>2, FilesResult
<1>9. CASE name = "file_chunks"
  <2>1. PICK i \in DOMAIN r.workspace[t] : d = [r EXCEPT !.workspace[t] = RemoveAt(@, i)]
    BY <1>9 DEF Deletes, EventLevels
  <2>2. t \in DOMAIN c.workspace
    BY <1>9 DEF IsTarget
  <2>3. QED
    BY <1>1, <1>2, <1>3, <1>4, <1>9, <2>1, <2>2, ChunksResult
<1>10. CASE name = "environment"
  <2>1. PICK v \in r.environment : d = [r EXCEPT !.environment = @ \ {v}]
    BY <1>10 DEF Deletes, EventLevels
  <2>2. Distinct(kept)
    BY <1>10 DEF SingleLevels
  <2>3. QED
    BY <1>1, <1>2, <1>3, <1>4, <1>10, <2>1, <2>2, EnvironmentResult
<1> QED
  BY <1>5, <1>6, <1>7, <1>8, <1>9, <1>10, LevelsAre DEF BulkLevels

\* What a level can delete is a target of the level.
LEMMA TargetsHold ==
    ASSUME NEW c, IsCapsule(c), InOrder(c), UniqueIds(c), NEW name, NEW t, NEW d, Deletes(c, name, t, d)
    PROVE  t \in Range(Targets(c, name))
<1>1. name \in Levels
  BY LevelsAre DEF Deletes, JsonLevels
<1>2. CASE name \in EventLevels \union {"files", "environment"}
  <2>1. t = name
    BY <1>2 DEF Deletes, EventLevels
  <2>2. Targets(c, name) = <<name>>
    BY <1>2 DEF Targets, EventLevels
  <2>3. QED
    BY <2>1, <2>2 DEF Range
<1>3. CASE name = "json_fields"
  <2>1. t \in KeysWith(c, {"text", "list"})
    BY <1>3 DEF Deletes, EventLevels
  <2>2. Targets(c, name) = FieldPaths(c)
    BY <1>3 DEF Targets, EventLevels
  <2>3. QED
    BY <2>1, <2>2, FieldPathsAre
<1>4. CASE name = "json_items"
  <2>1. \E p \in KeysWith(c, {"list"}) : t \in AtomsAt(c, p)
    BY <1>4 DEF Deletes, EventLevels
  <2>2. Targets(c, name) = ItemPaths(c)
    BY <1>4 DEF Targets, EventLevels
  <2>3. QED
    BY <2>1, <2>2, ItemPathsAre
<1>5. CASE name = "text_chunks"
  <2>1. t \in KeysWith(c, {"text"}) /\ DOMAIN AtomsOf(c, t) # {}
    BY <1>5 DEF Deletes, EventLevels
  <2>2. Targets(c, name) = TextPaths(c)
    BY <1>5 DEF Targets, EventLevels
  <2>3. AtomsOf(c, t) # <<>>
    BY <2>1
  <2>4. QED
    BY <2>1, <2>2, <2>3, TextPathsAre
<1>6. CASE name = "file_chunks"
  <2>1. t \in DOMAIN c.workspace /\ DOMAIN c.workspace[t] # {}
    BY <1>6 DEF Deletes, EventLevels
  <2>2. Targets(c, name) = SetToSeq({f \in DOMAIN c.workspace : c.workspace[f] # <<>>})
    BY <1>6 DEF Targets, EventLevels
  <2>3. IsFiniteSet({f \in DOMAIN c.workspace : c.workspace[f] # <<>>})
    <3>1. IsFiniteSet(DOMAIN c.workspace)
      BY DEF IsCapsule
    <3>2. QED
      BY <3>1, FS_Subset
  <2>4. c.workspace[t] # <<>>
    BY <2>1
  <2>5. QED
    BY <2>1, <2>2, <2>3, <2>4, SetInOrderDistinct
<1> QED
  BY <1>1, <1>2, <1>3, <1>4, <1>5, <1>6, LevelsAre DEF JsonLevels

\* Without units a level has nothing to delete.
LEMMA EmptyUnits ==
    ASSUME NEW c, IsCapsule(c), UniqueIds(c), NEW name \in BulkLevels, NEW t, IsTarget(c, name, t),
           name = "spans" => c = Source, Units(c, name, t) = <<>>, NEW d
    PROVE  ~Deletes(c, name, t, d)
<1> SUFFICES ASSUME Deletes(c, name, t, d) PROVE FALSE
  OBVIOUS
<1>0. Range(<<>>) = {} /\ DOMAIN <<>> = {}
  BY EmptyList DEF Range
<1>1. CASE name \in EventLevels
  <2>1. PICK e \in Range(c.events) : Offered(name, e)
    BY <1>1 DEF Deletes, EventLevels
  <2>2. IsLevelUnit(c, e, name)
    <3>1. EventOf(c, e.id) = e
      BY EventOfId
    <3>2. CASE name = "spans"
      BY <2>1, <3>1, <3>2 DEF IsLevelUnit, Offered
    <3>3. CASE name = "messages"
      BY <2>1, <3>3 DEF IsLevelUnit, Offered
    <3>4. CASE name = "tool_pairs"
      BY <2>1, <3>4 DEF IsLevelUnit, Offered
    <3>5. CASE name = "model_pairs"
      BY <2>1, <3>5 DEF IsLevelUnit, Offered
    <3> QED
      BY <1>1, <3>2, <3>3, <3>4, <3>5 DEF EventLevels
  <2>3. Range(EventUnits(c, name)) = {h.id : h \in {h \in Range(c.events) : IsLevelUnit(c, h, name)}}
    BY EventUnitsAre
  <2>4. e.id \in Range(EventUnits(c, name))
    BY <2>2, <2>3
  <2>5. Units(c, name, t) = EventUnits(c, name)
    BY <1>1 DEF Units, EventLevels
  <2>6. QED
    BY <1>0, <2>4, <2>5
<1>2. CASE name = "text_chunks"
  <2>1. DOMAIN AtomsOf(c, t) # {}
    BY <1>2 DEF Deletes, EventLevels
  <2>2. QED
    BY <1>0, <1>2, <2>1, UnitsList
<1>3. CASE name = "files"
  <2>1. DOMAIN c.workspace # {}
    BY <1>3 DEF Deletes, EventLevels
  <2>2. Units(c, name, t) = SetToSeq(DOMAIN c.workspace)
    BY <1>3 DEF Units, EventLevels
  <2>3. IsFiniteSet(DOMAIN c.workspace)
    BY DEF IsCapsule
  <2>4. QED
    BY <1>0, <2>1, <2>2, <2>3, SetInOrderDistinct
<1>4. CASE name = "file_chunks"
  <2>1. DOMAIN c.workspace[t] # {}
    BY <1>4 DEF Deletes, EventLevels
  <2>2. Units(c, name, t) = c.workspace[t]
    BY <1>4 DEF Units, EventLevels
  <2>3. QED
    BY <1>0, <2>1, <2>2
<1>5. CASE name = "environment"
  <2>1. c.environment # {}
    BY <1>5 DEF Deletes, EventLevels
  <2>2. Units(c, name, t) = SetToSeq(c.environment)
    BY <1>5 DEF Units, EventLevels
  <2>3. IsFiniteSet(c.environment)
    BY DEF IsCapsule
  <2>4. QED
    BY <1>0, <2>1, <2>2, <2>3, SetInOrderDistinct
<1> QED
  BY <1>1, <1>2, <1>3, <1>4, <1>5, LevelsAre DEF BulkLevels

\* A text value that is replaced leaves every event where it was.
SamePlaces(r, c) ==
    /\ Ids(r) = Ids(c)
    /\ \A id \in Ids(c) : Place(r, id) = Place(c, id) /\ Place(c, id) \in Nat

LEMMA ReplacedPlaces ==
    ASSUME NEW c, IsCapsule(c), InOrder(c), NEW id, NEW key, NEW atoms,
           NEW r, r = ReplaceAtoms(c, id, key, atoms), IsCapsule(r), InOrder(r)
    PROVE  SamePlaces(r, c)
<1>1. PICK payload : r = ReplacePayload(c, id, payload)
  BY DEF ReplaceAtoms
<1>2. Replaced(r, c, id, payload)
  BY <1>1, ReplacedIs
<1>3. /\ DOMAIN c.events = 1..Len(c.events) /\ DOMAIN r.events = 1..Len(c.events)
      /\ Len(c.events) \in Nat
  BY <1>2, ListIs DEF Replaced, IsCapsule
<1>4. \A i \in 1..Len(c.events) : r.events[i].id = c.events[i].id
  BY <1>2 DEF Replaced
<1>5. Ids(r) = Ids(c)
  BY <1>3, <1>4 DEF Ids
<1>6. ASSUME NEW x \in Ids(c)
      PROVE  Place(r, x) = Place(c, x) /\ Place(c, x) \in Nat
  <2>1. PICK i \in DOMAIN c.events : c.events[i].id = x
    BY DEF Ids
  <2>2. Place(c, x) = i
    BY <2>1, PlaceIs
  <2>3. i \in DOMAIN r.events /\ r.events[i].id = x
    BY <1>3, <1>4, <2>1
  <2>4. Place(r, x) = i
    BY <2>3, PlaceIs
  <2>5. QED
    BY <1>3, <2>1, <2>2, <2>4
<1> QED
  BY <1>5, <1>6 DEF SamePlaces

\* What is tried in a level of texts: values of events, from the first on.
InPlace(c, paths) == Placed(c, paths) /\ \A p \in Range(paths) : p.id \in Ids(c)

LEMMA TextsInPlace ==
    ASSUME NEW c, IsCapsule(c), InOrder(c)
    PROVE  InPlace(c, TextPaths(c))
<1>1. Placed(c, TextPaths(c)) /\ Range(TextPaths(c)) \subseteq KeysWith(c, {"text"})
  BY TextPathsAre
<1>2. \A p \in KeysWith(c, {"text"}) : p.id \in Ids(c)
  BY DEF KeysWith, Ids, Range
<1> QED
  BY <1>1, <1>2 DEF InPlace

LEMMA TextAfterIs ==
    ASSUME NEW c, IsCapsule(c), InOrder(c), NEW p
    PROVE  /\ Range(TextAfter(c, p)) =
                  {q \in Range(TextPaths(c)) : Place(c, q.id) >= Place(c, p.id)}
           /\ InPlace(c, TextAfter(c, p))
<1> DEFINE later == {q \in Range(TextPaths(c)) : Place(c, q.id) >= Place(c, p.id)}
<1>1. TextAfter(c, p) = Among(TextPaths(c), later)
  BY DEF TextAfter, Place
<1>2. IsList(TextPaths(c)) /\ InPlace(c, TextPaths(c))
  BY TextPathsAre, TextsInPlace
<1>3. Range(Among(TextPaths(c), later)) = Range(TextPaths(c)) \intersect later
  BY <1>2, AmongOfList
<1>4. Range(TextAfter(c, p)) = later
  BY <1>1, <1>3
<1>5. InTurn(TextAfter(c, p), TextPaths(c))
  BY <1>1, <1>2, AmongInTurn
<1>6. Placed(c, TextAfter(c, p))
  <2> SUFFICES ASSUME NEW i \in DOMAIN TextAfter(c, p), NEW j \in DOMAIN TextAfter(c, p), i < j
               PROVE  Place(c, TextAfter(c, p)[i].id) <= Place(c, TextAfter(c, p)[j].id)
    BY DEF Placed
  <2>1. PICK k \in DOMAIN TextPaths(c), l \in DOMAIN TextPaths(c) :
            k < l /\ TextAfter(c, p)[i] = TextPaths(c)[k] /\ TextAfter(c, p)[j] = TextPaths(c)[l]
    BY <1>5 DEF InTurn
  <2>2. QED
    BY <1>2, <2>1 DEF InPlace, Placed
<1> QED
  BY <1>2, <1>4, <1>6 DEF InPlace

LEMMA TailInPlace ==
    ASSUME NEW c, NEW r, SamePlaces(r, c), NEW paths, IsList(paths), paths # <<>>, InPlace(c, paths)
    PROVE  /\ InPlace(c, Tail(paths)) /\ InPlace(r, Tail(paths)) /\ Head(paths).id \in Ids(c)
           /\ \A p \in Range(Tail(paths)) : Place(c, Head(paths).id) <= Place(c, p.id)
<1>1. /\ Len(paths) \in Nat /\ DOMAIN paths = 1..Len(paths) /\ Len(paths) >= 1
      /\ Head(paths) = paths[1] /\ paths[1] \in Range(paths)
  <2>1. paths \in Seq(Range(paths))
    BY DEF IsList
  <2>2. QED
    BY <2>1, ListIs
<1>2. /\ IsList(Tail(paths)) /\ DOMAIN Tail(paths) = 1..(Len(paths) - 1)
      /\ \A i \in 1..(Len(paths) - 1) : Tail(paths)[i] = paths[i + 1]
      /\ Range(Tail(paths)) \subseteq Range(paths)
  <2>1. paths \in Seq(Range(paths))
    BY DEF IsList
  <2>2. QED
    BY <1>1, <2>1, TailOfList
<1>3. Placed(c, Tail(paths))
  <2> SUFFICES ASSUME NEW i \in DOMAIN Tail(paths), NEW j \in DOMAIN Tail(paths), i < j
               PROVE  Place(c, Tail(paths)[i].id) <= Place(c, Tail(paths)[j].id)
    BY DEF Placed
  <2>1. i + 1 \in DOMAIN paths /\ j + 1 \in DOMAIN paths /\ i + 1 < j + 1
    BY <1>1, <1>2
  <2>2. QED
    BY <1>2, <2>1 DEF InPlace, Placed
<1>4. \A p \in Range(Tail(paths)) : p.id \in Ids(c)
  BY <1>2 DEF InPlace
<1>5. Placed(r, Tail(paths))
  <2>1. \A i \in DOMAIN Tail(paths) : Tail(paths)[i].id \in Ids(c)
    BY <1>4 DEF Range
  <2>2. QED
    BY <1>3, <2>1 DEF Placed, SamePlaces
<1>6. \A p \in Range(Tail(paths)) : p.id \in Ids(r)
  BY <1>4 DEF SamePlaces
<1>7. ASSUME NEW p \in Range(Tail(paths))
      PROVE  Place(c, Head(paths).id) <= Place(c, p.id)
  <2>1. PICK i \in 1..(Len(paths) - 1) : p = Tail(paths)[i]
    BY <1>2 DEF Range
  <2>2. p = paths[i + 1] /\ 1 < i + 1 /\ 1 \in DOMAIN paths /\ i + 1 \in DOMAIN paths
    BY <1>1, <1>2, <2>1
  <2>3. QED
    BY <1>1, <2>2 DEF InPlace, Placed
<1> QED
  BY <1>1, <1>3, <1>4, <1>5, <1>6, <1>7 DEF InPlace

-------------------------------------------------------------------------------
(* The way through the levels.                                               *)

\* The first level, the spans, works on the source.
SourceFirst ==
    phase = "levels" =>
        /\ level = 0 => current = Source
        /\ level = 1 /\ todo # <<>> => current = Source /\ Tail(todo) = <<>>

\* What a search has kept was drawn from its units; the texts stand in order.
WayInv ==
    /\ SourceFirst
    /\ phase = "levels" /\ search # NoSearch => Drawn(search.kept, search.units)
    /\ phase = "levels" /\ level > 0 /\ Name = "text_chunks" => InPlace(current, todo)

LEMMA InitWay == Init => WayInv
  BY DEF Init, WayInv, SourceFirst

LEMMA NextLevelWay ==
    ASSUME HoldingInv, LevelsInv, WayInv, NextLevel, given' = given PROVE WayInv'
<1>1. /\ phase = "levels" /\ todo = <<>> /\ level \in 0..10 /\ search' = search /\ current' = current
      /\ LevelStands /\ IsCapsule(current) /\ InOrder(current)
  BY HeldIsInOrder DEF NextLevel, LevelsInv
<1>2. search' = NoSearch
  BY <1>1 DEF HoldingInv, SearchStands, InBulk
<1>3. CASE level < Len(LevelOrder)
  <2>1. level' = level + 1 /\ todo' = Targets(current, LevelOrder[level + 1])
    BY <1>3 DEF NextLevel
  <2>2. todo' = Targets(current, Name')
    BY <2>1 DEF Name
  <2>3. level' = 1 => current' = Source' /\ Tail(todo') = <<>>
    <3>1. SUFFICES ASSUME level' = 1 PROVE current = Source /\ Tail(todo') = <<>>
      BY <1>1 DEF Source
    <3>2. level = 0 /\ LevelOrder[level + 1] = "spans"
      BY <1>1, <2>1, <3>1 DEF LevelOrder
    <3>3. todo' = <<"spans">>
      BY <2>1, <3>2 DEF Targets, EventLevels
    <3>4. QED
      BY <1>1, <3>2, <3>3 DEF WayInv, SourceFirst
  <2>4. Name' = "text_chunks" => InPlace(current, todo')
    <3>1. SUFFICES ASSUME Name' = "text_chunks" PROVE InPlace(current, todo')
      OBVIOUS
    <3>2. PICK name : name = Name'
      OBVIOUS
    <3>3. todo' = TextPaths(current)
      BY <2>2, <3>1, <3>2 DEF Targets, EventLevels
    <3>4. QED
      BY <1>1, <3>3, TextsInPlace
  <2>5. level' # 0
    BY <1>1, <2>1
  <2>6. SourceFirst'
    BY <2>3, <2>5 DEF SourceFirst
  <2>7. (phase = "levels" /\ level > 0 /\ Name = "text_chunks" => InPlace(current, todo))'
    BY <1>1, <2>4
  <2>8. (phase = "levels" /\ search # NoSearch => Drawn(search.kept, search.units))'
    BY <1>2 DEF NoSearch
  <2>9. QED
    BY <2>6, <2>7, <2>8 DEF WayInv
<1>4. CASE ~(level < Len(LevelOrder))
  <2>1. phase' = "final"
    BY <1>4 DEF NextLevel
  <2>2. QED
    BY <2>1 DEF WayInv, SourceFirst
<1> QED
  BY <1>3, <1>4

LEMMA PathWay ==
    ASSUME HoldingInv, LevelsInv, WayInv, AcceptPath \/ RejectPath, given' = given PROVE WayInv'
<1>1. /\ phase = "levels" /\ Name \in JsonLevels /\ level' = level /\ search' = search /\ todo # <<>>
      /\ search = NoSearch
  BY DEF AcceptPath, RejectPath, InJson, HoldingInv, SearchStands, InBulk
<1>2. Name' = Name
  BY <1>1 DEF Name
<1>3. level \in 1..10
  BY <1>1 DEF LevelsInv, LevelStands
<1>4. level # 1
  BY <1>1, <1>3 DEF Name, LevelOrder, JsonLevels
<1>5. Name # "text_chunks"
  BY <1>1 DEF JsonLevels
<1>6. SourceFirst'
  BY <1>1, <1>3, <1>4 DEF SourceFirst
<1>7. (phase = "levels" /\ search # NoSearch => Drawn(search.kept, search.units))'
  BY <1>1 DEF NoSearch
<1> QED
  BY <1>2, <1>5, <1>6, <1>7 DEF WayInv

LEMMA BeginSearchWay ==
    ASSUME HoldingInv, LevelsInv, WayInv, BeginSearch, given' = given PROVE WayInv'
<1> DEFINE units == Units(current, Name, Head(todo))
<1>1. /\ phase = "levels" /\ phase' = phase /\ level' = level /\ todo # <<>> /\ search = NoSearch
      /\ current' = current
      /\ IF units = <<>> THEN todo' = Tail(todo) /\ search' = search
                         ELSE search' = SearchOver(units) /\ todo' = todo
  BY DEF BeginSearch, InBulk
<1>2. Name' = Name /\ level \in 1..10 /\ IsList(todo)
  BY <1>1 DEF Name, LevelsInv, LevelStands
<1>3. CASE units = <<>>
  <2>1. search' = NoSearch /\ todo' = Tail(todo)
    BY <1>1, <1>3
  <2>2. Name = "text_chunks" => InPlace(current, Tail(todo))
    <3>1. SUFFICES ASSUME Name = "text_chunks" PROVE InPlace(current, Tail(todo))
      OBVIOUS
    <3>2. InPlace(current, todo)
      BY <1>1, <1>2, <3>1 DEF WayInv
    <3>3. SamePlaces(current, current)
      <4>1. IsCapsule(current) /\ InOrder(current)
        BY <1>1, HeldIsInOrder DEF LevelsInv
      <4>2. DOMAIN current.events \subseteq Nat
        BY <4>1, ListIs DEF IsCapsule
      <4>3. \A i \in DOMAIN current.events : Place(current, current.events[i].id) \in Nat
        BY <4>1, <4>2, PlaceIs
      <4>4. QED
        BY <4>3 DEF SamePlaces, Ids
    <3>4. QED
      BY <1>1, <1>2, <3>2, <3>3, TailInPlace
  <2>3. SourceFirst'
    BY <1>1, <1>2, <2>1 DEF WayInv, SourceFirst
  <2>4. (phase = "levels" /\ search # NoSearch => Drawn(search.kept, search.units))'
    BY <2>1 DEF NoSearch
  <2>5. QED
    BY <1>1, <1>2, <2>1, <2>2, <2>3, <2>4 DEF WayInv
<1>4. CASE units # <<>>
  <2>1. search' = SearchOver(units) /\ todo' = todo
    BY <1>1, <1>4
  <2>2. search'.kept = units /\ search'.units = units
    BY <2>1 DEF SearchOver
  <2> HIDE DEF units
  <2>3. Drawn(search'.kept, search'.units)
    BY <2>2, DrawnFromItself
  <2>4. SourceFirst'
    BY <1>1, <1>2, <2>1 DEF WayInv, SourceFirst, Source
  <2>5. QED
    BY <1>1, <1>2, <2>1, <2>3, <2>4 DEF WayInv
<1> QED
  BY <1>3, <1>4

LEMMA SearchStepWay ==
    ASSUME HoldingInv, LevelsInv, WayInv, SearchStep, given' = given PROVE WayInv'
<1> DEFINE target == Head(todo)
           units == Units(current, Name, target)
<1>1. /\ phase = "levels" /\ phase' = phase /\ todo' = todo /\ todo # <<>> /\ level' = level
      /\ current' = current
      /\ Name \notin JsonLevels /\ search.phase \in {"initial", "scan", "linear"}
  BY DEF SearchStep, Searching, InBulk
<1>2. LevelStands /\ level \in 1..10 /\ IsCapsule(current)
  BY <1>1 DEF LevelsInv, LevelStands
<1>3. IsTarget(current, Name, target)
  BY <1>1, <1>2, TailOfList DEF LevelStands
<1>4. IsList(units)
  BY <1>1, <1>2, <1>3, LevelName, UnitsList
<1>5. SearchesWithin(search, units) /\ Drawn(search.kept, search.units)
  BY <1>1, <1>2 DEF LevelStands, NoSearch, WayInv
<1>6. search.units = units
  BY <1>5 DEF SearchesWithin, Within
<1> HIDE DEF units
<1>7. PICK r : search' = Advance(search, r = "reproduces")
  BY DEF SearchStep
<1>8. PICK reproduced \in BOOLEAN : reproduced <=> r = "reproduces"
  OBVIOUS
<1>9. search' = Advance(search, reproduced)
  BY <1>7, <1>8
<1>10. /\ search'.kept = SearchCandidate(search) \/ search'.kept = search.kept
       /\ search'.units = units
  <2>1. IsSearch(search) /\ (search.phase = "initial" => search.kept = search.units)
    BY <1>5 DEF SearchesWithin, Within
  <2>2. /\ reproduced => Advance(search, reproduced).kept = SearchCandidate(search)
        /\ ~reproduced => Advance(search, reproduced).kept = search.kept
        /\ Advance(search, reproduced).units = search.units
    BY <1>1, <2>1, AdvanceSearch
  <2>3. QED
    BY <1>6, <1>9, <2>2
<1>11. Drawn(SearchCandidate(search), units)
  BY <1>1, <1>4, <1>5, <1>6, CandidateDrawn
<1>12. Drawn(search'.kept, search'.units)
  BY <1>5, <1>6, <1>10, <1>11
<1>13. Name' = Name
  BY <1>1 DEF Name
<1>14. SourceFirst'
  BY <1>1 DEF WayInv, SourceFirst, Source
<1> QED
  BY <1>1, <1>12, <1>13, <1>14 DEF WayInv

LEMMA EndSearchWay ==
    ASSUME HoldingInv, HoldingInv', LevelsInv, LevelsInv', WayInv, EndSearch, given' = given
    PROVE  WayInv'
<1> DEFINE target == Head(todo)
           units == Units(current, Name, target)
<1>1. /\ phase = "levels" /\ phase' = phase /\ level' = level /\ todo # <<>>
      /\ Name \notin JsonLevels /\ search.phase = "done" /\ search' = NoSearch
      /\ current' = Result
      /\ todo' = IF Name = "text_chunks" /\ search.kept # search.units
                 THEN TextAfter(Result, target) ELSE Tail(todo)
  BY DEF EndSearch, InBulk
<1>2. Name' = Name
  BY <1>1 DEF Name
<1>3. LevelStands /\ level \in 1..10 /\ IsList(todo) /\ IsCapsule(current) /\ InOrder(current)
  BY <1>1, HeldIsInOrder DEF LevelsInv, LevelStands
<1>4. SourceFirst'
  <2>1. SUFFICES ASSUME level = 1 PROVE todo' = <<>>
    BY <1>1, <1>3 DEF SourceFirst
  <2>2. Name = "spans"
    BY <2>1 DEF Name, LevelOrder
  <2>3. QED
    BY <1>1, <2>1, <2>2 DEF WayInv, SourceFirst
<1>5. Name = "text_chunks" => InPlace(current', todo')
  <2>1. SUFFICES ASSUME Name = "text_chunks" PROVE InPlace(current', todo')
    OBVIOUS
  <2>2. PICK r : r = current'
    OBVIOUS
  <2>3. IsCapsule(r) /\ InOrder(r)
    <3>1. IsCapsule(r) /\ Valid(r)
      BY <1>1, <2>2 DEF LevelsInv, HoldingInv, CurrentIsHeld, Held
    <3>2. QED
      BY <3>1, ValidIsInOrder
  <2>4. r = ReplaceAtoms(current, target.id, target.key, search.kept)
    BY <1>1, <2>1, <2>2 DEF Result, Build, EventLevels
  <2>5. SamePlaces(r, current)
    BY <1>3, <2>3, <2>4, ReplacedPlaces
  <2>6. InPlace(current, todo)
    BY <1>1, <1>3, <2>1 DEF WayInv
  <2>7. CASE search.kept # search.units
    <3>1. todo' = TextAfter(r, target)
      BY <1>1, <2>1, <2>2, <2>7
    <3>2. QED
      BY <2>2, <2>3, <3>1, TextAfterIs
  <2>8. CASE search.kept = search.units
    <3>1. todo' = Tail(todo)
      BY <1>1, <2>8
    <3>2. QED
      BY <1>1, <1>3, <2>2, <2>5, <2>6, <3>1, TailInPlace
  <2>9. QED
    BY <2>7, <2>8
<1>6. (phase = "levels" /\ search # NoSearch => Drawn(search.kept, search.units))'
  BY <1>1 DEF NoSearch
<1> QED
  BY <1>1, <1>2, <1>4, <1>5, <1>6 DEF WayInv

LEMMA WayStep == HoldingInv /\ LevelsInv /\ WayInv /\ [Next]_vars => WayInv'
<1> SUFFICES ASSUME HoldingInv, LevelsInv, WayInv, [Next]_vars PROVE WayInv'
  OBVIOUS
<1>0. HoldingInv' /\ LevelsInv' /\ given' = given
  BY HoldingStep, LevelsStep DEF Next, vars
<1>1. CASE CheckSource
  <2>1. /\ current' = Source /\ level' = 0 /\ search' = NoSearch
    BY <1>1 DEF CheckSource, HoldingInv, CurrentIsHeld, SearchStands, LevelsInv
  <2>2. QED
    BY <1>0, <2>1 DEF WayInv, SourceFirst, Source, NoSearch
<1>2. CASE FinalEvaluation \/ VerifyDeletion \/ VerificationFails \/ AcceptResult \/ SearchRaises
  <2>1. phase' # "levels"
    BY <1>2 DEF FinalEvaluation, VerifyDeletion, VerificationFails, AcceptResult, SearchRaises
  <2>2. QED
    BY <2>1 DEF WayInv, SourceFirst
<1>3. CASE UNCHANGED vars
  BY <1>3 DEF vars, WayInv, SourceFirst, Source, Name, NoSearch
<1> QED
  BY <1>0, <1>1, <1>2, <1>3, NextLevelWay, PathWay, BeginSearchWay, SearchStepWay, EndSearchWay
     DEF Next, Step

-------------------------------------------------------------------------------
(* Monotone predicates.                                                      *)

\* What has lost the failure does not find it again in less.
StaysLost ==
    \A o, p \in DOMAIN answered :
        answered[o] # "reproduces" /\ Contents(p) \subseteq Contents(o) => answered[p] # "reproduces"

MonotoneInv == Monotone => timedOut = {} /\ StaysLost

LEMMA RunMonotone ==
    ASSUME Monotone, StaysLost, NEW c, Run(c)
    PROVE  StaysLost'
<1>1. CASE c \in DOMAIN answered
  <2>1. answered' = answered
    BY <1>1 DEF Run
  <2>2. QED
    BY <2>1 DEF StaysLost
<1>2. CASE c \notin DOMAIN answered
  <2>1. PICK r \in Answers(c) :
            answered' = [x \in DOMAIN answered \union {c} |-> IF x \in DOMAIN answered THEN answered[x] ELSE r]
    BY <1>2 DEF Run
  <2>2. given.predicate # "killer"
    BY DEF Monotone
  <2>3. \A o \in DOMAIN answered :
            answered[o] # "reproduces" /\ Contents(c) \subseteq Contents(o) => r # "reproduces"
    BY <2>1, <2>2 DEF Answers
  <2>4. \A o \in DOMAIN answered :
            answered[o] = "reproduces" /\ Contents(o) \subseteq Contents(c) => r = "reproduces"
    BY <2>1, <2>2 DEF Answers
  <2>5. /\ DOMAIN answered' = DOMAIN answered \union {c} /\ answered'[c] = r
        /\ \A x \in DOMAIN answered : answered'[x] = answered[x]
    BY <1>2, <2>1
  <2> SUFFICES ASSUME NEW o \in DOMAIN answered', NEW p \in DOMAIN answered',
                      answered'[o] # "reproduces", Contents(p) \subseteq Contents(o),
                      answered'[p] = "reproduces"
               PROVE  FALSE
    BY DEF StaysLost
  <2>6. CASE o = c /\ p = c
    BY <2>6
  <2>7. CASE o = c /\ p \in DOMAIN answered
    BY <2>4, <2>5, <2>7
  <2>8. CASE o \in DOMAIN answered /\ p = c
    BY <2>3, <2>5, <2>8
  <2>9. CASE o \in DOMAIN answered /\ p \in DOMAIN answered
    BY <2>5, <2>9 DEF StaysLost
  <2>10. QED
    BY <2>5, <2>6, <2>7, <2>8, <2>9
<1> QED
  BY <1>1, <1>2

LEMMA EvaluateMonotone ==
    ASSUME Monotone, timedOut = {}, StaysLost, NEW c, NEW r, Evaluate(c, r)
    PROVE  timedOut' = {} /\ StaysLost'
<1>1. CASE asked' = asked
  BY <1>1 DEF asked, StaysLost
<1>2. CASE asked' # asked
  <2>1. Run(c) /\ (timedOut' = timedOut \/ MayTimeOut)
    BY <1>2 DEF Evaluate
  <2>2. ~MayTimeOut
    BY DEF MayTimeOut, Monotone
  <2>3. QED
    BY <2>1, <2>2, RunMonotone
<1> QED
  BY <1>1, <1>2

LEMMA InitMonotone == Init => MonotoneInv
  BY DEF Init, MonotoneInv, StaysLost

LEMMA MonotoneStep == MonotoneInv /\ [Next]_vars => MonotoneInv'
<1> SUFFICES ASSUME MonotoneInv, [Next]_vars, Monotone PROVE timedOut' = {} /\ StaysLost'
  BY DEF MonotoneInv, Monotone, Next, vars
<1>0. timedOut = {} /\ StaysLost
  BY DEF MonotoneInv
<1>1. CASE UNCHANGED asked
  BY <1>0, <1>1 DEF asked, StaysLost
<1>2. CASE \E c, r : Evaluate(c, r)
  BY <1>0, <1>2, EvaluateMonotone
<1>3. CASE VerifyDeletion
  <2>1. UNCHANGED asked \/ \E c : Run(c) /\ timedOut' = timedOut
    BY <1>3 DEF VerifyDeletion
  <2>2. QED
    BY <1>0, <1>1, <2>1, RunMonotone
<1>4. CASE CheckSource \/ AcceptPath \/ RejectPath \/ SearchStep \/ FinalEvaluation
  <2>1. \E c, r : Evaluate(c, r)
    BY <1>4 DEF CheckSource, AcceptPath, RejectPath, SearchStep, FinalEvaluation
  <2>2. QED
    BY <1>2, <2>1
<1>5. CASE \/ NextLevel \/ BeginSearch \/ SearchRaises \/ EndSearch
           \/ VerificationFails \/ AcceptResult \/ UNCHANGED vars
  BY <1>1, <1>5 DEF NextLevel, BeginSearch, SearchRaises, EndSearch, VerificationFails, AcceptResult, vars
<1> QED
  BY <1>3, <1>4, <1>5 DEF Next, Step

-------------------------------------------------------------------------------
(* What no level can delete any more.                                        *)

\* Asked about `d', a monotone predicate can only say that the failure is lost.
Lost(d) ==
    Valid(d) => \E o \in DOMAIN answered :
                    answered[o] # "reproduces" /\ Contents(d) \subseteq Contents(o)

\* The level's target is still to come.
Pending(name, t) ==
    /\ phase = "levels"
    /\ \E n \in 1..10 : LevelOrder[n] = name /\ (n > level \/ (n = level /\ t \in Range(todo)))

Spent == \A name, t, d : Deletes(current, name, t, d) => Lost(d) \/ Pending(name, t)
SpentInv == Monotone /\ phase \notin {"initial", "raised"} => Spent

LEMMA LostRemains ==
    ASSUME NEW d, Lost(d), Remains
    PROVE  Lost(d)'
  BY DEF Lost, Remains

LEMMA CoveredLost ==
    ASSUME NEW d, NEW e, Covered(d, e), Lost(e)
    PROVE  Lost(d)
  BY DEF Covered, Lost

LEMMA RefusedLost ==
    ASSUME NEW d, Refused(d), timedOut = {}
    PROVE  Lost(d)
  BY DEF Refused, Lost, Cached

\* The deletions of the next capsule.
LEMMA DeletesNext ==
    ASSUME given' = given, NEW name, NEW t, NEW d, Deletes(current, name, t, d)',
           NEW r, r = current'
    PROVE  Deletes(r, name, t, d)
<1>1. Source' = Source
  BY DEF Source
<1>2. ASSUME NEW e PROVE Offered(name, e)' <=> Offered(name, e)
  BY <1>1 DEF Offered
<1> QED
  BY SMTT(60), <1>2 DEF Deletes

\* Where the capsule stays.
LEMMA SpentStays ==
    ASSUME given' = given, current' = current, Spent, Remains,
           \A name, t, d : Deletes(current, name, t, d) /\ Pending(name, t)
                               => Pending(name, t)' \/ Lost(d)'
    PROVE  Spent'
<1> SUFFICES ASSUME NEW name, NEW t, NEW d, Deletes(current, name, t, d)'
             PROVE  Lost(d)' \/ Pending(name, t)'
  BY DEF Spent
<1>1. PICK c : c = current
  OBVIOUS
<1>2. Deletes(c, name, t, d)
  BY <1>1, DeletesNext
<1>3. Deletes(current, name, t, d)
  BY <1>1, <1>2
<1>4. Lost(d) \/ Pending(name, t)
  BY <1>3 DEF Spent
<1> QED
  BY <1>3, <1>4, LostRemains

\* Where it gets smaller.
LEMMA SpentBelow ==
    ASSUME Spent, phase = "levels", IsCapsule(current), Valid(current),
           NEW r, IsCapsule(r), Valid(r), Below(r, current),
           NEW name, NEW t, NEW d, Deletes(r, name, t, d)
    PROVE  \/ Lost(d)
           \/ \E n \in 1..10 :
                  /\ LevelOrder[n] = name
                  /\ n > level \/ (n = level /\ (name \notin JsonLevels => t \in Range(todo)))
<1>1. PICK c : c = current
  OBVIOUS
<1>2. PICK s, e : /\ Deletes(c, name, s, e) /\ Covered(d, e)
                  /\ name \notin JsonLevels => s = t
  BY <1>1, DeletesCovered
<1>3. Lost(e) \/ Pending(name, s)
  BY <1>1, <1>2 DEF Spent
<1>4. CASE Lost(e)
  BY <1>2, <1>4, CoveredLost
<1>5. CASE Pending(name, s)
  BY <1>2, <1>5 DEF Pending
<1> QED
  BY <1>3, <1>4, <1>5

\* A deletion of a JSON level is the one it tries.
LEMMA DeletesByPath ==
    ASSUME NEW c, NEW name \in JsonLevels, NEW t, NEW d, Deletes(c, name, t, d)
    PROVE  d = DeletePath(c, name, t)
  BY DEF Deletes, DeletePath, JsonLevels, EventLevels

LEMMA HeldInLevels ==
    ASSUME HoldingInv, LevelsInv, phase \notin {"initial", "raised"}
    PROVE  IsCapsule(current) /\ Valid(current) /\ InOrder(current) /\ UniqueIds(current)
<1>1. IsCapsule(current) /\ Valid(current)
  BY DEF LevelsInv, HoldingInv, CurrentIsHeld, Held
<1> QED
  BY <1>1, ValidIsInOrder, ValidHasUniqueIds

\* Before the first level everything is still to come.
LEMMA CheckSourceSpent ==
    ASSUME LevelsInv, CheckSource, given' = given, phase' # "raised"
    PROVE  Spent'
<1>1. phase' = "levels" /\ level' = 0 /\ level = 0
  BY DEF CheckSource, LevelsInv
<1> SUFFICES ASSUME NEW name, NEW t, NEW d, Deletes(current, name, t, d)'
             PROVE  Pending(name, t)'
  BY DEF Spent
<1>2. PICK r : r = current'
  OBVIOUS
<1>3. Deletes(r, name, t, d)
  BY <1>2, DeletesNext
<1>4. name \in Levels
  BY <1>3, LevelsAre DEF Deletes, JsonLevels
<1>5. PICK n \in 1..10 : LevelOrder[n] = name
  BY <1>4, LevelsAre DEF Levels, Range, LevelOrder
<1> QED
  BY <1>1, <1>5 DEF Pending

LEMMA NextLevelSpent ==
    ASSUME HoldingInv, LevelsInv, Spent, NextLevel, given' = given
    PROVE  Spent'
<1>1. /\ phase = "levels" /\ todo = <<>> /\ level \in 0..10 /\ current' = current
      /\ answered' = answered /\ timedOut' = timedOut
  BY DEF NextLevel, LevelsInv, asked
<1>2. Remains
  BY <1>1 DEF Remains
<1>3. IsCapsule(current) /\ InOrder(current) /\ UniqueIds(current)
  BY <1>1, HeldInLevels
<1>4. ASSUME NEW name, NEW t, NEW d, Deletes(current, name, t, d), Pending(name, t)
      PROVE  Pending(name, t)'
  <2>1. PICK n \in 1..10 : LevelOrder[n] = name /\ n > level
    BY <1>1, <1>4, EmptyList DEF Pending
  <2>2. level < Len(LevelOrder)
    BY <1>1, <2>1, LevelsAre
  <2>3. level' = level + 1 /\ todo' = Targets(current, LevelOrder[level + 1]) /\ phase' = "levels"
    BY <1>1, <2>2 DEF NextLevel
  <2>4. CASE n = level + 1
    <3>1. PICK c : c = current
      OBVIOUS
    <3>2. t \in Range(Targets(c, name))
      BY <1>3, <1>4, <3>1, TargetsHold
    <3>3. t \in Range(todo')
      BY <2>1, <2>3, <2>4, <3>1, <3>2
    <3>4. QED
      BY <2>1, <2>3, <2>4, <3>3 DEF Pending
  <2>5. CASE n > level + 1
    BY <2>1, <2>3, <2>5 DEF Pending
  <2>6. QED
    BY <1>1, <2>1, <2>4, <2>5
<1> QED
  BY <1>1, <1>2, <1>4, SpentStays

LEMMA AcceptPathSpent ==
    ASSUME HoldingInv, HoldingInv', LevelsInv, LevelsInv', Spent, AcceptPath, given' = given
    PROVE  Spent'
<1>1. /\ phase = "levels" /\ phase' = phase /\ level' = level /\ todo # <<>> /\ Name \in JsonLevels
      /\ current' = DeletePath(current, Name, Head(todo))
      /\ todo' = Targets(current', Name)
  BY DEF AcceptPath, InJson
<1>2. Remains
  <2>1. \E c : Evaluate(c, "reproduces")
    BY DEF AcceptPath
  <2>2. QED
    BY <2>1, EvaluateRemains DEF HoldingInv
<1>3. IsCapsule(current) /\ Valid(current) /\ UniqueIds(current)
  BY <1>1, HeldInLevels
<1>4. PICK r : r = current'
  OBVIOUS
<1>5. IsCapsule(r) /\ Valid(r) /\ InOrder(r) /\ UniqueIds(r)
  <2>1. IsCapsule(r) /\ Valid(r)
    BY <1>1, <1>4 DEF LevelsInv, HoldingInv, CurrentIsHeld, Held
  <2>2. QED
    BY <2>1, ValidIsInOrder, ValidHasUniqueIds
<1>6. Below(r, current)
  <2>1. IsTarget(current, Name, Head(todo))
    BY <1>1, TailOfList DEF LevelsInv, LevelStands
  <2>2. PICK c, name, p : c = current /\ name = Name /\ p = Head(todo)
    OBVIOUS
  <2>3. Below(DeletePath(c, name, p), c)
    BY <1>1, <1>3, <2>1, <2>2, PathBelow
  <2>4. QED
    BY <1>1, <1>4, <2>2, <2>3
<1> SUFFICES ASSUME NEW name, NEW t, NEW d, Deletes(current, name, t, d)'
             PROVE  Lost(d)' \/ Pending(name, t)'
  BY DEF Spent
<1>7. Deletes(r, name, t, d)
  BY <1>4, DeletesNext
<1>8. \/ Lost(d)
      \/ \E n \in 1..10 : LevelOrder[n] = name /\ (n > level \/ n = level)
  <2>1. \/ Lost(d)
        \/ \E n \in 1..10 :
               /\ LevelOrder[n] = name
               /\ n > level \/ (n = level /\ (name \notin JsonLevels => t \in Range(todo)))
    BY <1>1, <1>3, <1>5, <1>6, <1>7, SpentBelow
  <2>2. QED
    BY <2>1
<1>9. CASE Lost(d)
  BY <1>2, <1>9, LostRemains
<1>10. CASE \E n \in 1..10 : LevelOrder[n] = name /\ n > level
  BY <1>1, <1>10 DEF Pending
<1>11. CASE \E n \in 1..10 : LevelOrder[n] = name /\ n = level
  <2>1. level \in 1..10 /\ LevelOrder[level] = name
    BY <1>11
  <2>2. name = Name
    BY <2>1 DEF Name
  <2>3. t \in Range(Targets(r, name))
    BY <1>5, <1>7, TargetsHold
  <2>4. t \in Range(todo')
    BY <1>1, <1>4, <2>2, <2>3
  <2>5. QED
    BY <1>1, <2>1, <2>4 DEF Pending
<1> QED
  BY <1>8, <1>9, <1>10, <1>11

LEMMA RejectPathSpent ==
    ASSUME HoldingInv, LevelsInv, Spent, RejectPath, timedOut' = {}, given' = given
    PROVE  Spent'
<1>1. /\ phase = "levels" /\ phase' = phase /\ level' = level /\ todo # <<>> /\ Name \in JsonLevels
      /\ current' = current /\ todo' = Tail(todo) /\ IsList(todo)
  BY DEF RejectPath, InJson, LevelsInv, LevelStands
<1>2. PICK candidate, r : /\ candidate = DeletePath(current, Name, Head(todo))
                          /\ r # "reproduces" /\ Evaluate(candidate, r)
  BY DEF RejectPath
<1>3. timedOut \subseteq DOMAIN answered
  BY DEF HoldingInv
<1>4. Remains
  BY <1>2, <1>3, EvaluateRemains
<1>5. Lost(candidate)'
  <2>1. Valid(candidate) => candidate \in DOMAIN answered' /\ (Cached(candidate) # "reproduces")'
    BY <1>2, <1>3, EvaluateRefuses
  <2>2. Valid(candidate) => candidate \in DOMAIN answered' /\ answered'[candidate] # "reproduces"
    BY <2>1 DEF Cached
  <2>3. QED
    BY <2>2 DEF Lost
<1>6. ASSUME NEW name, NEW t, NEW d, Deletes(current, name, t, d), Pending(name, t)
      PROVE  Pending(name, t)' \/ Lost(d)'
  <2>1. PICK n \in 1..10 : LevelOrder[n] = name /\ (n > level \/ (n = level /\ t \in Range(todo)))
    BY <1>6 DEF Pending
  <2>2. CASE n > level
    BY <1>1, <2>1, <2>2 DEF Pending
  <2>3. CASE n = level /\ t \in Range(Tail(todo))
    BY <1>1, <2>1, <2>3 DEF Pending
  <2>4. CASE n = level /\ t = Head(todo)
    <3>1. name = Name
      BY <2>1, <2>4 DEF Name
    <3>2. PICK c : c = current
      OBVIOUS
    <3>3. d = DeletePath(c, name, t)
      BY <1>1, <1>6, <3>1, <3>2, DeletesByPath
    <3>4. d = candidate
      BY <1>2, <2>4, <3>1, <3>2, <3>3
    <3>5. QED
      BY <1>5, <3>4
  <2>5. QED
    BY <1>1, <2>1, <2>2, <2>3, <2>4, TailOfList
<1> QED
  BY <1>1, <1>4, <1>6, SpentStays

\* The head of a bulk level's targets, as the lemmas on results need it.
LEMMA HeadTarget ==
    ASSUME HoldingInv, LevelsInv, WayInv, phase = "levels", todo # <<>>, Name \notin JsonLevels
    PROVE  /\ Name \in BulkLevels /\ level \in 1..10 /\ IsList(todo)
           /\ IsTarget(current, Name, Head(todo))
           /\ Name = "spans" => current = Source
           /\ Name = "text_chunks" => EventOf(current, Head(todo).id).id = Head(todo).id
<1>1. LevelStands /\ level \in 1..10 /\ IsList(todo)
  BY DEF LevelsInv, LevelStands
<1>2. Head(todo) \in Range(todo)
  BY <1>1, TailOfList
<1>3. IsTarget(current, Name, Head(todo))
  BY <1>1, <1>2 DEF LevelStands
<1>4. Name \in BulkLevels
  BY <1>1, LevelName
<1>5. Name = "spans" => current = Source
  <2>1. Name = "spans" => level = 1
    BY <1>1 DEF Name, LevelOrder
  <2>2. QED
    BY <2>1 DEF WayInv, SourceFirst
<1>6. Name = "text_chunks" => EventOf(current, Head(todo).id).id = Head(todo).id
  <2>1. SUFFICES ASSUME Name = "text_chunks"
                 PROVE  EventOf(current, Head(todo).id).id = Head(todo).id
    OBVIOUS
  <2>2. Head(todo).id \in Ids(current)
    BY <1>1, <1>2, <2>1 DEF WayInv, InPlace
  <2>3. PICK e \in Range(current.events) : e.id = Head(todo).id
    BY <2>2 DEF Ids, Range
  <2>4. UniqueIds(current)
    BY HeldInLevels
  <2>5. PICK c : c = current
    OBVIOUS
  <2>6. EventOf(c, e.id) = e
    BY <2>3, <2>4, <2>5, EventOfId
  <2>7. QED
    BY <2>3, <2>5, <2>6
<1> QED
  BY <1>1, <1>3, <1>4, <1>5, <1>6

LEMMA BeginSearchSpent ==
    ASSUME HoldingInv, LevelsInv, WayInv, Spent, BeginSearch, given' = given
    PROVE  Spent'
<1> DEFINE units == Units(current, Name, Head(todo))
<1>1. /\ phase = "levels" /\ phase' = phase /\ level' = level /\ todo # <<>>
      /\ Name \notin JsonLevels /\ current' = current /\ answered' = answered /\ timedOut' = timedOut
      /\ IF units = <<>> THEN todo' = Tail(todo) ELSE todo' = todo
  BY DEF BeginSearch, InBulk, asked
<1>2. Remains
  BY <1>1 DEF Remains
<1>3. /\ Name \in BulkLevels /\ IsList(todo) /\ IsTarget(current, Name, Head(todo))
      /\ Name = "spans" => current = Source
  BY <1>1, HeadTarget
<1>4. IsCapsule(current) /\ UniqueIds(current)
  BY <1>1, HeldInLevels
<1>5. ASSUME NEW name, NEW t, NEW d, Deletes(current, name, t, d), Pending(name, t)
      PROVE  Pending(name, t)'
  <2>1. PICK n \in 1..10 : LevelOrder[n] = name /\ (n > level \/ (n = level /\ t \in Range(todo)))
    BY <1>5 DEF Pending
  <2>2. CASE n > level \/ todo' = todo
    BY <1>1, <2>1, <2>2 DEF Pending
  <2>3. CASE n = level /\ t \in Range(Tail(todo)) /\ todo' = Tail(todo)
    BY <1>1, <2>1, <2>3 DEF Pending
  <2>4. CASE n = level /\ t = Head(todo) /\ units = <<>>
    <3>1. name = Name
      BY <2>1, <2>4 DEF Name
    <3>2. PICK c, h : c = current /\ h = Name
      OBVIOUS
    <3>3. ~Deletes(c, h, t, d)
      BY <1>3, <1>4, <2>4, <3>2, EmptyUnits
    <3>4. QED
      BY <1>5, <3>1, <3>2, <3>3
  <2>5. QED
    BY <1>1, <1>3, <2>1, <2>2, <2>3, <2>4, TailOfList
<1> QED
  BY <1>1, <1>2, <1>5, SpentStays

LEMMA EndSearchSpent ==
    ASSUME HoldingInv, HoldingInv', LevelsInv, LevelsInv', SearchInv, SingleInv, WayInv,
           Spent, timedOut = {}, EndSearch, given' = given
    PROVE  Spent'
<1> DEFINE target == Head(todo)
           units == Units(current, Name, target)
<1>1. /\ phase = "levels" /\ phase' = phase /\ level' = level /\ todo # <<>>
      /\ Name \notin JsonLevels /\ search.phase = "done" /\ search # NoSearch
      /\ current' = Result /\ answered' = answered /\ timedOut' = timedOut
      /\ todo' = IF Name = "text_chunks" /\ search.kept # search.units
                 THEN TextAfter(Result, target) ELSE Tail(todo)
  BY DEF EndSearch, InBulk, asked, NoSearch
<1>2. Remains
  BY <1>1 DEF Remains
<1>3. /\ Name \in BulkLevels /\ level \in 1..10 /\ IsList(todo) /\ IsTarget(current, Name, target)
      /\ Name = "spans" => current = Source
      /\ Name = "text_chunks" => EventOf(current, target.id).id = target.id
  BY <1>1, HeadTarget
<1>4. IsCapsule(current) /\ Valid(current) /\ InOrder(current) /\ UniqueIds(current)
  BY <1>1, HeldInLevels
<1>5. /\ SearchesWithin(search, units) /\ Tries(search, RefusedUnits)
      /\ Drawn(search.kept, search.units) /\ (Name \in SingleLevels => Distinct(search.kept))
  BY <1>1 DEF LevelsInv, LevelStands, SearchInv, SingleInv, KeptInv, WayInv
<1>6. search.units = units /\ IsList(search.kept)
  BY <1>5 DEF SearchesWithin, Within
<1>7. PICK r : r = current'
  OBVIOUS
<1>8. r = Build(current, Name, target, units, search.kept)
  BY <1>1, <1>6, <1>7 DEF Result
<1>9. IsCapsule(r) /\ Valid(r) /\ InOrder(r) /\ UniqueIds(r)
  <2>1. IsCapsule(r) /\ Valid(r)
    BY <1>1, <1>7 DEF LevelsInv, HoldingInv, CurrentIsHeld, Held
  <2>2. QED
    BY <2>1, ValidIsInOrder, ValidHasUniqueIds
<1>10. Drawn(search.kept, units)
  BY <1>5, <1>6
<1> HIDE DEF target, units
<1>11. PICK c, h, x, kept : c = current /\ h = Name /\ x = target /\ kept = search.kept
  OBVIOUS
<1>12. /\ IsCapsule(c) /\ Valid(c) /\ InOrder(c) /\ h \in BulkLevels /\ IsTarget(c, h, x)
       /\ h = "spans" => c = Source
       /\ h = "text_chunks" => EventOf(c, x.id).id = x.id
       /\ IsList(kept) /\ Drawn(kept, Units(c, h, x)) /\ (h \in SingleLevels => Distinct(kept))
       /\ r = Build(c, h, x, Units(c, h, x), kept)
  BY <1>3, <1>4, <1>5, <1>6, <1>8, <1>10, <1>11 DEF units
<1>13. Below(r, c)
  BY <1>12, BuiltBelow
<1> SUFFICES ASSUME NEW name, NEW t, NEW d, Deletes(current, name, t, d)'
             PROVE  Lost(d)' \/ Pending(name, t)'
  BY DEF Spent
<1>14. Deletes(r, name, t, d)
  BY <1>7, DeletesNext
<1>15. CASE Lost(d)
  BY <1>2, <1>15, LostRemains
<1>16. CASE name = Name /\ t = target
  <2>1. PICK i \in 1..Len(kept) : Covered(d, Build(c, h, x, Units(c, h, x), WithoutItem(kept, i)))
    BY <1>9, <1>11, <1>12, <1>14, <1>16, ResultDeletions
  <2>2. PICK e : e = Build(c, h, x, Units(c, h, x), WithoutItem(kept, i))
    OBVIOUS
  <2>3. WithoutItem(kept, i) \in RefusedUnits
    BY <1>1, <1>5, <1>11, <2>1 DEF Tries, AllTried
  <2>4. Refused(e)
    BY <1>6, <1>11, <2>2, <2>3 DEF RefusedUnits, units, target
  <2>5. Lost(d)
    BY <2>1, <2>2, <2>4, RefusedLost, CoveredLost
  <2>6. QED
    BY <1>15, <2>5
<1>17. CASE \E n \in 1..10 : LevelOrder[n] = name /\ n > level
  BY <1>1, <1>17 DEF Pending
<1>18. CASE /\ name = Name /\ t # target /\ LevelOrder[level] = name /\ level \in 1..10
            /\ t \in Range(todo)
  <2>1. t \in Range(Tail(todo))
    BY <1>1, <1>3, <1>18, TailOfList DEF target
  <2>2. CASE todo' = Tail(todo)
    BY <1>1, <1>18, <2>1, <2>2 DEF Pending
  <2>3. CASE Name = "text_chunks" /\ todo' = TextAfter(r, target)
    <3>1. InPlace(c, todo)
      BY <1>1, <1>3, <1>11, <2>3 DEF WayInv
    <3>2. r = ReplaceAtoms(c, target.id, target.key, kept)
      BY <1>11, <1>12, <2>3 DEF Build, EventLevels
    <3>3. SamePlaces(r, c)
      BY <1>9, <1>12, <3>2, ReplacedPlaces
    <3>4. /\ target.id \in Ids(c) /\ Place(c, target.id) <= Place(c, t.id)
          /\ t.id \in Ids(c)
      BY <1>1, <1>3, <2>1, <3>1, <3>3, TailInPlace DEF target, InPlace
    <3>5. Place(r, t.id) >= Place(r, target.id)
      BY <3>3, <3>4 DEF SamePlaces
    <3>6. t \in Range(TextPaths(r))
      <4>1. t \in Range(Targets(r, name))
        BY <1>9, <1>14, TargetsHold
      <4>2. Targets(r, "text_chunks") = TextPaths(r)
        BY DEF Targets, EventLevels
      <4>3. QED
        BY <1>18, <2>3, <4>1, <4>2
    <3>7. t \in Range(todo')
      BY <1>9, <2>3, <3>5, <3>6, TextAfterIs
    <3>8. QED
      BY <1>1, <1>18, <3>7 DEF Pending
  <2>4. QED
    BY <1>1, <1>7, <2>2, <2>3
<1>19. \/ Lost(d)
       \/ \E n \in 1..10 : LevelOrder[n] = name /\ n > level
       \/ name = Name /\ LevelOrder[level] = name /\ t \in Range(todo)
  <2>1. \/ Lost(d)
        \/ \E n \in 1..10 :
               /\ LevelOrder[n] = name
               /\ n > level \/ (n = level /\ (name \notin JsonLevels => t \in Range(todo)))
    BY <1>1, <1>4, <1>9, <1>11, <1>13, <1>14, SpentBelow
  <2>2. CASE \E n \in 1..10 : LevelOrder[n] = name /\ n = level /\ (name \notin JsonLevels => t \in Range(todo))
    <3>1. name = Name /\ LevelOrder[level] = name
      BY <2>2 DEF Name
    <3>2. QED
      BY <1>1, <2>2, <3>1
  <2>3. QED
    BY <2>1, <2>2
<1> QED
  BY <1>3, <1>15, <1>16, <1>17, <1>18, <1>19

LEMMA SpentStep ==
    /\ HoldingInv /\ LevelsInv /\ SearchInv /\ SingleInv /\ WayInv /\ MonotoneInv /\ SpentInv
    /\ [Next]_vars
    => SpentInv'
<1> SUFFICES ASSUME HoldingInv, LevelsInv, SearchInv, SingleInv, WayInv, MonotoneInv, SpentInv,
                    [Next]_vars, Monotone, (phase \notin {"initial", "raised"})'
             PROVE  Spent'
  BY DEF SpentInv, Monotone, Next, vars
<1>0. HoldingInv' /\ LevelsInv' /\ MonotoneInv' /\ given' = given /\ Monotone'
  BY HoldingStep, LevelsStep, MonotoneStep DEF Next, vars, Monotone
<1>1. timedOut = {} /\ timedOut' = {} /\ timedOut \subseteq DOMAIN answered
  BY <1>0 DEF MonotoneInv, HoldingInv
<1>2. CASE CheckSource
  BY <1>0, <1>2, CheckSourceSpent
<1>3. ASSUME phase \notin {"initial", "raised"}
      PROVE  Spent
  BY <1>3 DEF SpentInv
<1>4. CASE NextLevel
  BY <1>0, <1>3, <1>4, NextLevelSpent DEF NextLevel
<1>5. CASE AcceptPath
  BY <1>0, <1>3, <1>5, AcceptPathSpent DEF AcceptPath, InJson
<1>6. CASE RejectPath
  BY <1>0, <1>1, <1>3, <1>6, RejectPathSpent DEF RejectPath, InJson
<1>7. CASE BeginSearch
  BY <1>0, <1>3, <1>7, BeginSearchSpent DEF BeginSearch, InBulk
<1>8. CASE SearchStep
  <2>1. /\ phase = "levels" /\ phase' = phase /\ level' = level /\ todo' = todo /\ current' = current
        /\ \E c, r : Evaluate(c, r)
    BY <1>8 DEF SearchStep, Searching, InBulk
  <2>2. Remains
    BY <1>1, <2>1, EvaluateRemains
  <2>3. \A name, t : Pending(name, t) => Pending(name, t)'
    BY <2>1 DEF Pending
  <2>4. Spent
    BY <1>3, <2>1
  <2>5. QED
    BY <1>0, <2>1, <2>2, <2>3, <2>4, SpentStays
<1>9. CASE EndSearch
  BY <1>0, <1>1, <1>3, <1>9, EndSearchSpent DEF EndSearch, InBulk
<1>10. CASE FinalEvaluation \/ VerifyDeletion \/ VerificationFails \/ AcceptResult
  <2>1. current' = current /\ phase \in {"final", "verifying"}
    BY <1>10 DEF FinalEvaluation, VerifyDeletion, VerificationFails, AcceptResult
  <2>2. Remains
    <3>1. \/ \E c, r : Evaluate(c, r)
          \/ \E c : Run(c) /\ timedOut' = timedOut
          \/ asked' = asked
      BY <1>10 DEF FinalEvaluation, VerifyDeletion, VerificationFails, AcceptResult
    <3>2. asked' = asked => Remains
      BY DEF asked, Remains
    <3>3. QED
      BY <1>1, <3>1, <3>2, EvaluateRemains, RunRemains
  <2>3. \A name, t : ~Pending(name, t)
    BY <2>1 DEF Pending
  <2>4. Spent
    BY <1>3, <2>1
  <2>5. QED
    BY <1>0, <2>1, <2>2, <2>3, <2>4, SpentStays
<1>11. CASE SearchRaises
  BY <1>11 DEF SearchRaises
<1>12. CASE UNCHANGED vars
  <2>1. /\ phase' = phase /\ level' = level /\ todo' = todo /\ current' = current
        /\ answered' = answered /\ timedOut' = timedOut
    BY <1>12 DEF vars, asked
  <2>2. Remains
    BY <2>1 DEF Remains
  <2>3. \A name, t : Pending(name, t) => Pending(name, t)'
    BY <2>1 DEF Pending
  <2>4. Spent
    BY <1>3, <2>1
  <2>5. QED
    BY <1>0, <2>1, <2>2, <2>3, <2>4, SpentStays
<1> QED
  BY <1>2, <1>4, <1>5, <1>6, <1>7, <1>8, <1>9, <1>10, <1>11, <1>12 DEF Next, Step

\* The verifier has noticed nothing where it has not run.
NoticedInv == reproducing # {} => phase \in {"verifying", "accepted", "refused"}

LEMMA NoticedStep == VerdictInv /\ NoticedInv /\ [Next]_vars => NoticedInv'
<1> SUFFICES ASSUME VerdictInv, NoticedInv, [Next]_vars PROVE NoticedInv'
  OBVIOUS
<1>1. CASE CheckSource \/ NextLevel \/ AcceptPath \/ RejectPath \/ BeginSearch \/ SearchStep
           \/ SearchRaises \/ EndSearch \/ FinalEvaluation
  <2>1. reproducing' = reproducing /\ phase \in {"initial", "levels", "final"}
    BY <1>1 DEF CheckSource, NextLevel, AcceptPath, RejectPath, BeginSearch, SearchStep,
       SearchRaises, EndSearch, FinalEvaluation, InJson, InBulk, Searching
  <2>2. QED
    BY <2>1 DEF VerdictInv, NoticedInv
<1>2. CASE VerifyDeletion \/ VerificationFails \/ AcceptResult \/ UNCHANGED vars
  BY <1>2 DEF VerifyDeletion, VerificationFails, AcceptResult, vars, NoticedInv
<1> QED
  BY <1>1, <1>2 DEF Next, Step

\* What the verifier tries, unit by unit.
LEMMA TaggedIs ==
    ASSUME NEW kind, NEW paths, IsList(paths),
           NEW tagged, tagged = [i \in DOMAIN paths |-> [unit |-> kind, path |-> paths[i]]]
    PROVE  /\ IsList(tagged)
           /\ \A u \in Range(tagged) : u.unit = kind /\ u.path \in Range(paths)
<1>1. IsList(tagged)
  BY TaggedList
<1>2. ASSUME NEW u \in Range(tagged) PROVE u.unit = kind /\ u.path \in Range(paths)
  <2>1. PICK i \in DOMAIN paths : u = [unit |-> kind, path |-> paths[i]]
    BY DEF Range
  <2>2. QED
    BY <2>1 DEF Range
<1> QED
  BY <1>1, <1>2

LEMMA TextAtoms ==
    ASSUME NEW c, IsCapsule(c), InOrder(c), UniqueIds(c), NEW atoms,
           atoms = FlattenSeq([i \in DOMAIN TextPaths(c) |-> AtomPaths(c, TextPaths(c)[i])])
    PROVE  /\ IsList(atoms)
           /\ \A a \in Range(atoms) : \E p \in KeysWith(c, {"text"}) : a \in AtomsAt(c, p)
<1> DEFINE texts == TextPaths(c)
           P == UNION {AtomsAt(c, p) : p \in KeysWith(c, {"text"})}
           seqs == [i \in DOMAIN texts |-> AtomPaths(c, texts[i])]
<1>1. IsList(texts) /\ Range(texts) \subseteq KeysWith(c, {"text"})
  BY TextPathsAre
<1>2. ASSUME NEW p \in KeysWith(c, {"text"}) PROVE AtomPaths(c, p) \in Seq(P)
  <2>1. HasKey(c, p)
    BY KeysWithAreKeys
  <2>2. IsList(AtomPaths(c, p)) /\ Range(AtomPaths(c, p)) = AtomsAt(c, p)
    BY <2>1, AtomPathsAre
  <2>3. Range(AtomPaths(c, p)) \subseteq P
    BY <2>2
  <2>4. AtomPaths(c, p) \in Seq(Range(AtomPaths(c, p)))
    BY <2>2 DEF IsList
  <2> HIDE DEF P
  <2>5. QED
    BY <2>3, <2>4
<1> HIDE DEF texts, P
<1>3. Len(texts) \in Nat /\ DOMAIN texts = 1..Len(texts)
      /\ \A i \in 1..Len(texts) : texts[i] \in KeysWith(c, {"text"})
  BY <1>1, ListIs
<1>4. seqs \in Seq(Seq(P))
  BY <1>2, <1>3
<1>5. atoms \in Seq(P)
  BY <1>4, FlattenOfLists DEF texts
<1>6. IsList(atoms) /\ Range(atoms) \subseteq P
  BY <1>5, ListOf
<1> QED
  BY <1>6 DEF P

LEMMA FileChunks ==
    ASSUME NEW c, IsCapsule(c), NEW files, IsList(files), Range(files) \subseteq DOMAIN c.workspace,
           NEW chunks, chunks = FlattenSeq([i \in DOMAIN files |->
                           [j \in DOMAIN c.workspace[files[i]] |-> [file |-> files[i], at |-> j]]])
    PROVE  /\ IsList(chunks)
           /\ \A a \in Range(chunks) : a.file \in DOMAIN c.workspace /\ a.at \in DOMAIN c.workspace[a.file]
<1> DEFINE each(f) == [j \in DOMAIN c.workspace[f] |-> [file |-> f, at |-> j]]
           P == UNION {{[file |-> f, at |-> j] : j \in DOMAIN c.workspace[f]} : f \in DOMAIN c.workspace}
           all == [i \in DOMAIN files |-> each(files[i])]
<1>1. ASSUME NEW f \in DOMAIN c.workspace PROVE each(f) \in Seq(P)
  <2>1. Len(c.workspace[f]) \in Nat /\ DOMAIN c.workspace[f] = 1..Len(c.workspace[f])
    BY ListIs DEF IsCapsule
  <2>2. \A j \in DOMAIN c.workspace[f] : [file |-> f, at |-> j] \in P
    OBVIOUS
  <2> HIDE DEF P
  <2>3. QED
    BY <2>1, <2>2
<1>2. \A a \in P : a.file \in DOMAIN c.workspace /\ a.at \in DOMAIN c.workspace[a.file]
  OBVIOUS
<1>3. /\ Len(files) \in Nat /\ DOMAIN files = 1..Len(files)
      /\ \A i \in 1..Len(files) : files[i] \in DOMAIN c.workspace
  BY ListIs
<1> HIDE DEF P
<1>4. \A i \in 1..Len(files) : each(files[i]) \in Seq(P)
  BY <1>1, <1>3
<1> HIDE DEF each
<1>5. all \in Seq(Seq(P))
  BY <1>3, <1>4
<1>6. FlattenSeq(all) \in Seq(P)
  BY <1>5, FlattenOfLists
<1>7. chunks \in Seq(P)
  BY <1>6 DEF each
<1> QED
  BY <1>2, <1>7, ListOf

LEMMA VerifierUnitsAre ==
    ASSUME NEW c, IsCapsule(c), InOrder(c), UniqueIds(c), NEW u \in Range(VerifierUnits(c))
    PROVE  \/ u.unit = "event" /\ u.path \in Range(c.events)
           \/ u.unit = "json_field" /\ u.path \in KeysWith(c, {"text", "list"})
           \/ u.unit = "json_item" /\ \E p \in KeysWith(c, {"list"}) : u.path \in AtomsAt(c, p)
           \/ u.unit = "text_chunk" /\ \E p \in KeysWith(c, {"text"}) : u.path \in AtomsAt(c, p)
           \/ u.unit = "file" /\ u.path \in DOMAIN c.workspace
           \/ /\ u.unit = "file_chunk" /\ u.path.file \in DOMAIN c.workspace
              /\ u.path.at \in DOMAIN c.workspace[u.path.file]
           \/ u.unit = "environment" /\ u.path \in c.environment
<1> DEFINE events == Among(c.events, {e \in Range(c.events) : e.kind # "run"})
           texts == TextPaths(c)
           files == SetToSeq(DOMAIN c.workspace)
           entries == SetToSeq(c.environment)
           atoms == FlattenSeq([i \in DOMAIN texts |-> AtomPaths(c, texts[i])])
           chunks == FlattenSeq([i \in DOMAIN files |->
                         [j \in DOMAIN c.workspace[files[i]] |-> [file |-> files[i], at |-> j]]])
           tagged(kind, paths) == [i \in DOMAIN paths |-> [unit |-> kind, path |-> paths[i]]]
<1>1. VerifierUnits(c) = tagged("event", events)
                         \o tagged("json_field", FieldPaths(c))
                         \o tagged("json_item", ItemPaths(c))
                         \o tagged("text_chunk", atoms)
                         \o tagged("file", files)
                         \o tagged("file_chunk", chunks)
                         \o tagged("environment", entries)
  BY DEF VerifierUnits
<1>2. IsList(events) /\ Range(events) \subseteq Range(c.events)
  BY AmongOfList DEF IsCapsule
<1>3. /\ IsList(FieldPaths(c)) /\ Range(FieldPaths(c)) = KeysWith(c, {"text", "list"})
      /\ IsList(ItemPaths(c)) /\ Range(ItemPaths(c)) = UNION {AtomsAt(c, p) : p \in KeysWith(c, {"list"})}
  BY FieldPathsAre, ItemPathsAre, ItemPathsList, ListOf
<1>4. /\ IsList(atoms)
      /\ \A a \in Range(atoms) : \E p \in KeysWith(c, {"text"}) : a \in AtomsAt(c, p)
  BY TextAtoms
<1>5. /\ IsList(files) /\ Range(files) \subseteq DOMAIN c.workspace
      /\ IsList(entries) /\ Range(entries) \subseteq c.environment
  BY SetInOrder DEF IsCapsule
<1>6. /\ IsList(chunks)
      /\ \A a \in Range(chunks) : a.file \in DOMAIN c.workspace /\ a.at \in DOMAIN c.workspace[a.file]
  BY <1>5, FileChunks
<1> HIDE DEF events, texts, files, entries, atoms, chunks
<1>7. ASSUME NEW kind, NEW paths, IsList(paths)
      PROVE  /\ IsList(tagged(kind, paths))
             /\ \A v \in Range(tagged(kind, paths)) : v.unit = kind /\ v.path \in Range(paths)
  BY <1>7, TaggedIs
<1> HIDE DEF tagged
<1>8. /\ IsList(tagged("event", events)) /\ IsList(tagged("json_field", FieldPaths(c)))
      /\ IsList(tagged("json_item", ItemPaths(c))) /\ IsList(tagged("text_chunk", atoms))
      /\ IsList(tagged("file", files)) /\ IsList(tagged("file_chunk", chunks))
      /\ IsList(tagged("environment", entries))
  BY <1>2, <1>3, <1>4, <1>5, <1>6, <1>7
<1>9. Range(VerifierUnits(c)) =
          Range(tagged("event", events)) \union Range(tagged("json_field", FieldPaths(c)))
          \union Range(tagged("json_item", ItemPaths(c))) \union Range(tagged("text_chunk", atoms))
          \union Range(tagged("file", files)) \union Range(tagged("file_chunk", chunks))
          \union Range(tagged("environment", entries))
  BY <1>1, <1>8, ConcatOfLists
<1>10. CASE u \in Range(tagged("event", events))
  BY <1>2, <1>7, <1>10
<1>11. CASE u \in Range(tagged("json_field", FieldPaths(c)))
  BY <1>3, <1>7, <1>11
<1>12. CASE u \in Range(tagged("json_item", ItemPaths(c)))
  BY <1>3, <1>7, <1>12
<1>13. CASE u \in Range(tagged("text_chunk", atoms))
  BY <1>4, <1>7, <1>13
<1>14. CASE u \in Range(tagged("file", files))
  BY <1>5, <1>7, <1>14
<1>15. CASE u \in Range(tagged("file_chunk", chunks))
  BY <1>6, <1>7, <1>15
<1>16. CASE u \in Range(tagged("environment", entries))
  BY <1>5, <1>7, <1>16
<1> QED
  BY <1>9, <1>10, <1>11, <1>12, <1>13, <1>14, <1>15, <1>16

\* What the verifier deletes is a deletion of a level, but for the events no level has.
LEMMA UnitIsDeletion ==
    ASSUME NEW c, IsCapsule(c), InOrder(c), UniqueIds(c), NEW u \in Range(VerifierUnits(c)),
           ~(u.unit = "event" /\ Untried(u.path))
    PROVE  \E name, t : Deletes(c, name, t, Deleted(c, u))
<1> DEFINE d == Deleted(c, u)
<1>1. CASE u.unit = "event" /\ u.path \in Range(c.events)
  <2>1. d = RemoveEvents(c, {u.path.id})
    BY <1>1 DEF Deleted
  <2>2. PICK name \in EventLevels : Offered(name, u.path)
    BY <1>1 DEF Untried, Offered, EventLevels
  <2>3. QED
    BY <1>1, <2>1, <2>2 DEF Deletes
<1>2. CASE u.unit = "json_field" /\ u.path \in KeysWith(c, {"text", "list"})
  <2>1. d = DeleteField(c, u.path.id, u.path.key)
    BY <1>2 DEF Deleted
  <2>2. Deletes(c, "json_fields", u.path, d)
    BY <1>2, <2>1 DEF Deletes
  <2>3. QED
    BY <2>2
<1>3. CASE u.unit = "json_item" /\ \E p \in KeysWith(c, {"list"}) : u.path \in AtomsAt(c, p)
  <2>1. d = DeleteAtom(c, u.path.id, u.path.key, u.path.at)
    BY <1>3 DEF Deleted
  <2>2. Deletes(c, "json_items", u.path, d)
    BY <1>3, <2>1 DEF Deletes
  <2>3. QED
    BY <2>2
<1>4. CASE u.unit = "text_chunk" /\ \E p \in KeysWith(c, {"text"}) : u.path \in AtomsAt(c, p)
  <2>1. d = DeleteAtom(c, u.path.id, u.path.key, u.path.at)
    BY <1>4 DEF Deleted
  <2>2. PICK p \in KeysWith(c, {"text"}) : u.path \in AtomsAt(c, p)
    BY <1>4
  <2>3. PICK i \in DOMAIN AtomsOf(c, p) : u.path = [id |-> p.id, key |-> p.key, at |-> i]
    BY <2>2 DEF AtomsAt
  <2>4. d = DeleteAtom(c, p.id, p.key, i)
    BY <2>1, <2>3
  <2>5. Deletes(c, "text_chunks", p, d)
    BY <2>3, <2>4 DEF Deletes
  <2>6. QED
    BY <2>5
<1>5. CASE u.unit = "file" /\ u.path \in DOMAIN c.workspace
  <2>1. d = [c EXCEPT !.workspace = Restrict(@, DOMAIN @ \ {u.path})]
    BY <1>5 DEF Deleted
  <2>2. Deletes(c, "files", "files", d)
    BY <1>5, <2>1 DEF Deletes
  <2>3. QED
    BY <2>2
<1>6. CASE /\ u.unit = "file_chunk" /\ u.path.file \in DOMAIN c.workspace
           /\ u.path.at \in DOMAIN c.workspace[u.path.file]
  <2>1. d = [c EXCEPT !.workspace[u.path.file] = RemoveAt(@, u.path.at)]
    BY <1>6 DEF Deleted
  <2>2. Deletes(c, "file_chunks", u.path.file, d)
    BY <1>6, <2>1 DEF Deletes
  <2>3. QED
    BY <2>2
<1>7. CASE u.unit = "environment" /\ u.path \in c.environment
  <2>1. d = [c EXCEPT !.environment = @ \ {u.path}]
    BY <1>7 DEF Deleted
  <2>2. Deletes(c, "environment", "environment", d)
    BY <1>7, <2>1 DEF Deletes
  <2>3. QED
    BY <2>2
<1> QED
  BY <1>1, <1>2, <1>3, <1>4, <1>5, <1>6, <1>7, VerifierUnitsAre

LEMMA MonotoneIsSpent ==
    /\ HoldingInv /\ LevelsInv /\ VerdictInv /\ NoticedInv /\ MonotoneInv /\ SpentInv
    /\ given.predicate # "killer"
    => VerifierFindsWhatIsLeft
<1> SUFFICES ASSUME HoldingInv, LevelsInv, VerdictInv, NoticedInv, MonotoneInv, SpentInv,
                    given.predicate # "killer"
             PROVE  OnlyUntriedIsLeft
  BY VerdictInvImplies DEF VerifierFindsWhatIsLeft, DemoIsReduced
<1> SUFFICES ASSUME Monotone, NEW u \in reproducing, ~(u.unit = "event" /\ Untried(u.path))
             PROVE  FALSE
  BY DEF OnlyUntriedIsLeft, Monotone
<1>1. phase \in {"verifying", "accepted", "refused"}
  BY DEF NoticedInv
<1>2. u \in Range(VerifierUnits(current)) /\ StillReproduces(u)
  BY <1>1 DEF VerdictInv, VerifierStands
<1>3. PICK c : c = current
  OBVIOUS
<1>4. IsCapsule(c) /\ InOrder(c) /\ UniqueIds(c)
  BY <1>1, <1>3, HeldInLevels
<1>5. PICK name, t : Deletes(c, name, t, Deleted(c, u))
  BY <1>2, <1>3, <1>4, UnitIsDeletion
<1>6. PICK d : d = Deleted(current, u)
  OBVIOUS
<1>7. Lost(d)
  <2>1. Spent
    BY <1>1 DEF SpentInv
  <2>2. ~Pending(name, t)
    BY <1>1 DEF Pending
  <2>3. QED
    BY <1>3, <1>5, <1>6, <2>1, <2>2 DEF Spent
<1>8. Valid(d) /\ d \in DOMAIN answered /\ answered[d] = "reproduces"
  BY <1>2, <1>6 DEF StillReproduces
<1>9. PICK o \in DOMAIN answered : answered[o] # "reproduces" /\ Contents(d) \subseteq Contents(o)
  BY <1>7, <1>8 DEF Lost
<1> QED
  BY <1>8, <1>9 DEF MonotoneInv, StaysLost

LEMMA InitSpent == Init => SpentInv /\ NoticedInv
  BY DEF Init, SpentInv, NoticedInv

\* For a monotone predicate one pass over the levels is enough: all that the
\* independent verifier can still delete is an event that no level offers by itself,
\* whatever the capsule and the answers (hierarchy.py:481-627, verify.py:95-240).
\* What a predicate that runs out of time hides is found: in an accepted capsule, a
\* deletion that reproduces has run out of time in the verifier too.  The demo's
\* predicate is left out: it is about one capsule, and not monotone for every one.
THEOREM OnePassIsEnough == Spec => [](given.predicate # "killer" => VerifierFindsWhatIsLeft)
  BY InitHolding, HoldingStep, InitLevels, LevelsStep, InitSearchInv, SearchInvStep,
     InitSingle, SingleStep, InitVerdict, VerdictStep, InitWay, WayStep, InitMonotone, MonotoneStep,
     InitSpent, SpentStep, NoticedStep, MonotoneIsSpent, PTL DEF Spec
===============================================================================

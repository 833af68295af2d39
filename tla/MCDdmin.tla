------------------------------- MODULE MCDdmin --------------------------------
(***************************************************************************)
(* Ddmin for TLC.  Every two-valued predicate over four items is 2^16      *)
(* functions, over five 2^32, so longer arguments, on which parts are      *)
(* uneven and granularities 2, 4 and 6 occur, get a family of predicates   *)
(* instead: a candidate is INVALID if it keeps the consumer of a pair       *)
(* without what it consumes (what validate_capsule makes of a broken        *)
(* dependency), and reproduces if it keeps one of two sets of items.  Such  *)
(* predicates are not monotone: deleting more can turn INVALID into         *)
(* REPRODUCES.                                                             *)
(***************************************************************************)
EXTENDS Ddmin, FiniteSets

CONSTANT LongItems   \* the length of the arguments with structured predicates

Structured(n, consumer, consumed, left, right) ==
    [S \in SUBSET (1..n) |->
        IF consumer \in S /\ consumed \notin S THEN "invalid"
        ELSE IF left \subseteq S \/ right \subseteq S THEN "reproduces" ELSE "absent"]

StructuredInit ==
    /\ items = [i \in 1..LongItems |-> i]
    /\ \E consumer, consumed \in 1..LongItems, left, right \in SUBSET (1..LongItems) :
        /\ Cardinality(left) <= 2
        /\ verdict = Structured(LongItems, consumer, consumed, left, right)
    /\ current = items
    /\ granularity = 2
    /\ part = 0
    /\ start = 0
    /\ index = 0
    /\ phase = "initial"

MCSpec == (Init \/ StructuredInit) /\ [][Next]_vars /\ WF_vars(Next)
===============================================================================

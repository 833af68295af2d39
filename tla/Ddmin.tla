-------------------------------- MODULE Ddmin ---------------------------------
(***************************************************************************)
(* ddmin() of src/src/reprosieve/ddmin.py: delta debugging of a sequence   *)
(* of items by deletion, one action per call of the predicate.             *)
(*                                                                         *)
(* An item is its position in the argument, so that a candidate is the set *)
(* of positions it keeps and the predicate is a function of that set; this *)
(* loses nothing for arguments with equal items, whose predicates are the  *)
(* functions that agree on equal candidates.  The predicate is             *)
(* deterministic: minimize_capsule calls ddmin through _MemoizedPredicate, *)
(* which never answers the same candidate twice differently (module        *)
(* Reducer).  `items' and `verdict' are chosen once, in Init: a run ranges *)
(* over every length up to MaxItems and every predicate.                   *)
(***************************************************************************)
EXTENDS Deletion, Functions

CONSTANTS
    MaxItems,  \* the longest argument
    Results    \* the answers the predicate may give

Verdicts == {"reproduces", "absent", "invalid"}

ASSUME MaxItemsAssumption == MaxItems \in Nat
ASSUME ResultsAssumption == Results \subseteq Verdicts

VARIABLES
    items,        \* the argument, never assigned
    verdict,      \* the predicate, never assigned
    current,      \* the smallest reproducing candidate found so far
    granularity,  \* the number of parts a scan asks for
    part,         \* the index of the part the scan deletes next
    start,        \* the offset of that part
    index,        \* the offset the linear pass deletes next
    phase         \* where control is

vars == <<items, verdict, current, granularity, part, start, index, phase>>

Positions == 1..Len(items)
Length == Len(current)
Reproduces(seq) == verdict[Range(seq)] = "reproduces"

Init ==
    /\ \E n \in 0..MaxItems :
        /\ items = [i \in 1..n |-> i]
        /\ verdict \in [SUBSET (1..n) -> Results]
    /\ current = items
    /\ granularity = 2
    /\ part = 0
    /\ start = 0
    /\ index = 0
    /\ phase = "initial"

\* A mutant of EnterScan: the loop gives up with two items left.
EnterScanLate(length) ==
    /\ phase' = IF length > 2 THEN "scan" ELSE "linear"
    /\ part' = 0
    /\ start' = 0

\* The head of the scan loop: scan while at least two items are left.
EnterScan(length) ==
    /\ phase' = IF length >= 2 THEN "scan" ELSE "linear"
    /\ part' = 0
    /\ start' = 0

-------------------------------------------------------------------------------

\* The first call, on the whole argument.
InitialReproduces ==
    /\ phase = "initial"
    /\ Reproduces(current)
    /\ EnterScan(Length)
    /\ UNCHANGED <<items, verdict, current, granularity, index>>

\* raise ValueError("initial candidate does not reproduce the target failure")
InitialFails ==
    /\ phase = "initial"
    /\ ~Reproduces(current)
    /\ phase' = "raised"
    /\ UNCHANGED <<items, verdict, current, granularity, part, start, index>>

PartsNow == Parts(Length, granularity)
End == start + Width(Length, PartsNow, part)
ScanCandidate == Without(current, start, End)

\* Deleting the part keeps the failure: restart on what is left, one part coarser.
AcceptPart ==
    /\ phase = "scan"
    /\ Reproduces(ScanCandidate)
    /\ current' = ScanCandidate
    /\ granularity' = Larger(2, granularity - 1)
    /\ EnterScan(Len(ScanCandidate))
    /\ UNCHANGED <<items, verdict, index>>

\* ABSENT and INVALID alike: on to the next part of this scan.
RejectPart ==
    /\ phase = "scan"
    /\ ~Reproduces(ScanCandidate)
    /\ part + 1 < PartsNow
    /\ part' = part + 1
    /\ start' = End
    /\ UNCHANGED <<items, verdict, current, granularity, index, phase>>

\* A mutant of Refine: the parts are not made finer.
RefineToSame ==
    /\ phase = "scan"
    /\ ~Reproduces(ScanCandidate)
    /\ part + 1 = PartsNow
    /\ granularity < Length
    /\ EnterScan(Length)
    /\ UNCHANGED <<items, verdict, current, granularity, index>>

\* No part could be deleted and the parts can still be made finer.
Refine ==
    /\ phase = "scan"
    /\ ~Reproduces(ScanCandidate)
    /\ part + 1 = PartsNow
    /\ granularity < Length
    /\ granularity' = Smaller(Length, granularity * 2)
    /\ EnterScan(Length)
    /\ UNCHANGED <<items, verdict, current, index>>

\* No part could be deleted and every part is already a single item.
EndScan ==
    /\ phase = "scan"
    /\ ~Reproduces(ScanCandidate)
    /\ part + 1 = PartsNow
    /\ granularity >= Length
    /\ phase' = "linear"
    /\ UNCHANGED <<items, verdict, current, granularity, part, start, index>>

LinearCandidate == Without(current, index, index + 1)

AcceptItem ==
    /\ phase = "linear"
    /\ index < Length
    /\ Reproduces(LinearCandidate)
    /\ current' = LinearCandidate
    /\ UNCHANGED <<items, verdict, granularity, part, start, index, phase>>

RejectItem ==
    /\ phase = "linear"
    /\ index < Length
    /\ ~Reproduces(LinearCandidate)
    /\ index' = index + 1
    /\ UNCHANGED <<items, verdict, current, granularity, part, start, phase>>

\* A mutant of Return: the last item is never tried.
ReturnEarly ==
    /\ phase = "linear"
    /\ index + 1 >= Length
    /\ phase' = "done"
    /\ UNCHANGED <<items, verdict, current, granularity, part, start, index>>

Return ==
    /\ phase = "linear"
    /\ index >= Length
    /\ phase' = "done"
    /\ UNCHANGED <<items, verdict, current, granularity, part, start, index>>

Next ==
    \/ InitialReproduces
    \/ InitialFails
    \/ AcceptPart
    \/ RejectPart
    \/ Refine
    \/ EndScan
    \/ AcceptItem
    \/ RejectItem
    \/ Return

Spec == Init /\ [][Next]_vars

\* A sequential function runs until it returns: the predicate always answers
\* (every predicate process has a deadline, module PredicateRun).
FairSpec == Spec /\ WF_vars(Next)

-------------------------------------------------------------------------------

TypeOK ==
    /\ items \in Seq(Nat)
    /\ verdict \in [SUBSET Positions -> Verdicts]
    /\ current \in Seq(Positions)
    /\ granularity \in Nat /\ granularity >= 2
    /\ part \in Nat
    /\ start \in Nat
    /\ index \in Nat
    /\ phase \in {"initial", "scan", "linear", "done", "raised"}

\* What is kept is what was given, in the order it was given: ddmin deletes,
\* and never duplicates or reorders (the candidates are two slices of `current').
InOrder == \A i, j \in 1..Length : i < j => current[i] < current[j]

\* After the first call `current' has always been seen to reproduce: no
\* acceptance replaces it by a candidate that was ABSENT or INVALID.
NeverLosesFailure == phase \notin {"initial", "raised"} => Reproduces(current)

\* The docstring's promise, "Return a 1-minimal reproducing subsequence under
\* deletion": when ddmin returns, deleting any one item that is left loses the
\* failure.
OneMinimal ==
    phase = "done" => \A i \in 1..Length : ~Reproduces(WithoutItem(current, i))

\* The scan alone is already exhaustive: the linear pass, which the comment in
\* the code gives as the reason for 1-minimality, can only ever delete the last
\* remaining item.
LinearPassOnlyEmpties == [][AcceptItem => current' = <<>>]_vars

\* A scan deletes the parts in order and stays inside the candidate; a refused
\* last part means the parts have covered every item.
ScanStaysInside ==
    phase = "scan" =>
        /\ part < PartsNow
        /\ start < End
        /\ End <= Length
        /\ part + 1 = PartsNow => End = Length

\* ddmin returns or raises.
Terminates == <>(phase \in {"done", "raised"})

Contract ==
    INSTANCE Shrinking WITH
        kept <- Range(current),
        status <- CASE phase = "initial" -> "unchecked"
                    [] phase \in {"scan", "linear"} -> "shrinking"
                    [] OTHER -> phase

\* ddmin is a search by deletion: whatever part it deletes, whatever pass it is
\* in, it only moves to a smaller set that reproduces and only stops where no
\* single item can go.
ImplementsShrinking == Contract!Spec
===============================================================================

-------------------------------- MODULE Search --------------------------------
(***************************************************************************)
(* One call of ddmin as a value, for modules that run it as a part of      *)
(* their own step: the sequence under reduction with its loop counters.    *)
(* Module Ddmin has the same search as a specification of its own, and     *)
(* DdminProofs what it guarantees.                                         *)
(***************************************************************************)
EXTENDS Deletion

\* The loop heads: the scan goes on while two items are left, the linear pass
\* while there is an item it has not tried.
AtScan(search) ==
    [search EXCEPT !.phase = IF Len(search.kept) >= 2 THEN "scan" ELSE "linear",
                   !.part = 0, !.start = 0]

AtLinear(search) ==
    [search EXCEPT !.phase = IF search.index < Len(search.kept) THEN "linear" ELSE "done"]

SearchOver(units) ==
    [units |-> units, kept |-> units, granularity |-> 2,
     part |-> 0, start |-> 0, index |-> 0, phase |-> "initial"]

SearchParts(search) == Parts(Len(search.kept), search.granularity)
SearchEnd(search) == search.start + Width(Len(search.kept), SearchParts(search), search.part)

\* The units the predicate is asked about next.
SearchCandidate(search) ==
    CASE search.phase = "initial" -> search.units
      [] search.phase = "scan" -> Without(search.kept, search.start, SearchEnd(search))
      [] search.phase = "linear" -> WithoutItem(search.kept, search.index + 1)

Begun(search, reproduced) ==
    IF ~reproduced THEN [search EXCEPT !.phase = "raised"]
    ELSE IF Len(search.kept) >= 2 THEN AtScan(search) ELSE AtLinear(search)

Scanned(search, reproduced) ==
    LET length == Len(search.kept)
        next == CASE reproduced ->
                       AtScan([search EXCEPT !.kept = SearchCandidate(search),
                                             !.granularity = Larger(2, @ - 1)])
                  [] ~reproduced /\ search.part + 1 < SearchParts(search) ->
                       [search EXCEPT !.part = @ + 1, !.start = SearchEnd(search)]
                  [] OTHER ->
                       IF search.granularity >= length
                       THEN [search EXCEPT !.phase = "linear"]
                       ELSE AtScan([search EXCEPT !.granularity = Smaller(length, @ * 2)])
    IN IF next.phase = "linear" THEN AtLinear(next) ELSE next

LinearlyTried(search, reproduced) ==
    AtLinear(IF reproduced THEN [search EXCEPT !.kept = SearchCandidate(search)]
                           ELSE [search EXCEPT !.index = @ + 1])

\* The search after the predicate has answered on SearchCandidate.
Advance(search, reproduced) ==
    CASE search.phase = "initial" -> Begun(search, reproduced)
      [] search.phase = "scan" -> Scanned(search, reproduced)
      [] search.phase = "linear" -> LinearlyTried(search, reproduced)
===============================================================================

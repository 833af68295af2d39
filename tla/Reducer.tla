-------------------------------- MODULE Reducer -------------------------------
(***************************************************************************)
(* The reduction behind `reprosieve reduce': minimize_capsule             *)
(* (src/src/reprosieve/hierarchy.py) takes a capsule down the hierarchy of *)
(* units, verify_one_minimal (verify.py) tries every remaining deletion    *)
(* once more, and _reduce (cli.py) accepts the result or fails.            *)
(*                                                                         *)
(* One action asks the predicate one question.  The predicate is           *)
(* deterministic and otherwise arbitrary: its answer to a capsule it has   *)
(* not seen is chosen when it is asked, and kept in `answered', which is   *)
(* also the reducer's cache (_MemoizedPredicate.cache): every valid        *)
(* candidate the predicate is asked about is cached under its digest.  A    *)
(* fickle predicate has an answer too, but now and then runs out of time    *)
(* (PredicateRun) and is INVALID: the cache keeps that, the verifier, which *)
(* has no cache, asks again.                                               *)
(***************************************************************************)
EXTENDS Fixtures, Search

CONSTANTS
    Cases,     \* what there is to reduce: see Given
    Results,      \* the answers the predicate may give
    MaxTimeouts   \* bounds how often a fickle predicate runs out of time

\* The capsule to reduce, and its predicate: "any", a "monotone" one, which only
\* ever loses the failure when more is deleted, the "killer" of the demo, or "fickle".
Given(source, predicate) == [source |-> source, predicate |-> predicate]

ASSUME ResultsAssumption == Results \subseteq {"reproduces", "absent", "invalid"}
ASSUME CasesAssumption ==
    \A g \in Cases :
        /\ IsCapsule(g.source) /\ Valid(g.source)
        /\ g.predicate \in {"any", "monotone", "killer", "fickle"}

VARIABLES
    given,        \* one of Cases (rigid)
    phase,        \* the call of _reduce that is running
    level,        \* the level minimize_capsule is in
    todo,         \* what is still to be tried in this level, or by the verifier
    search,       \* the ddmin call in progress
    current,      \* the smallest reproducing capsule found so far
    answered,     \* the predicate's answers, by capsule
    timedOut,     \* the capsules that are INVALID in the cache for want of time
    reproducing,  \* the deletions the verifier found to reproduce
    unheard       \* those it has no answer to, for want of time

asked == <<answered, timedOut, unheard>>
vars == <<given, phase, level, todo, search, current, asked, reproducing>>

Source == given.source
Monotone == given.predicate = "monotone"

LevelOrder == <<"spans", "messages", "tool_pairs", "model_pairs", "json_fields",
                "json_items", "text_chunks", "files", "file_chunks", "environment">>
EventLevels == {"spans", "messages", "tool_pairs", "model_pairs"}
JsonLevels == {"json_fields", "json_items"}

Name == LevelOrder[level]
NoSearch == [phase |-> "none"]

-------------------------------------------------------------------------------
(* The units of the levels.                                                  *)

\* Trace spans are units only if something hangs below them or their payload
\* says so.
IsSpanUnit(capsule, e) ==
    /\ e.kind \in {"unknown", "handoff", "guardrail", "error"}
    /\ \/ \E child \in Range(capsule.events) : child.parent = e.id
       \/ "unit" \in DOMAIN e.payload /\ e.payload["unit"].atoms = <<"span">>

\* A mutant of IsLevelUnit: the level of tool pairs offers the results instead.
IsLevelUnitSwapped(capsule, e, name) ==
    CASE name = "spans" -> IsSpanUnit(capsule, e)
      [] name = "messages" -> e.kind = "message"
      [] name = "tool_pairs" -> e.kind = "tool_result"
      [] name = "model_pairs" -> e.kind = "model_request"

IsLevelUnit(capsule, e, name) ==
    CASE name = "spans" -> IsSpanUnit(capsule, e)
      [] name = "messages" -> e.kind = "message"
      [] name = "tool_pairs" -> e.kind = "tool_call"
      [] name = "model_pairs" -> e.kind = "model_request"

EventUnits(capsule, name) ==
    LET events == Among(capsule.events, {e \in Range(capsule.events) : IsLevelUnit(capsule, e, name)})
    IN [i \in DOMAIN events |-> events[i].id]

\* What the level's outer loop runs over.  Event levels, files and environment
\* are one ddmin call each; text and file chunks one call per value.
Targets(capsule, name) ==
    CASE name \in EventLevels -> <<name>>
      [] name = "json_fields" -> FieldPaths(capsule)
      [] name = "json_items" -> ItemPaths(capsule)
      [] name = "text_chunks" -> TextPaths(capsule)
      [] name = "files" -> <<name>>
      [] name = "file_chunks" ->
            SetToSeq({f \in DOMAIN capsule.workspace : capsule.workspace[f] # <<>>})
      [] name = "environment" -> <<name>>

Units(capsule, name, target) ==
    CASE name \in EventLevels -> EventUnits(capsule, name)
      [] name = "text_chunks" -> EventOf(capsule, target.id).payload[target.key].atoms
      [] name = "files" -> SetToSeq(DOMAIN capsule.workspace)
      [] name = "file_chunks" -> capsule.workspace[target]
      [] name = "environment" -> SetToSeq(capsule.environment)

\* The `build' callbacks: the capsule with only `kept' left of `units'.
Build(capsule, name, target, units, kept) ==
    CASE name \in EventLevels -> RemoveEvents(capsule, Range(units) \ Range(kept))
      [] name = "text_chunks" -> ReplaceAtoms(capsule, target.id, target.key, kept)
      [] name = "files" -> [capsule EXCEPT !.workspace = Restrict(@, Range(kept))]
      [] name = "file_chunks" -> [capsule EXCEPT !.workspace[target] = kept]
      [] name = "environment" -> [capsule EXCEPT !.environment = Range(kept)]

\* A deletion of the JSON levels.
DeletePath(capsule, name, path) ==
    IF name = "json_fields" THEN DeleteField(capsule, path.id, path.key)
                            ELSE DeleteAtom(capsule, path.id, path.key, path.at)

-------------------------------------------------------------------------------
(* The predicate.                                                            *)

\* What the predicate can answer to `capsule'.
Answers(capsule) ==
    LET contents == Contents(capsule)
        lost == \E other \in DOMAIN answered :
            answered[other] # "reproduces" /\ contents \subseteq Contents(other)
        kept == \E other \in DOMAIN answered :
            answered[other] = "reproduces" /\ Contents(other) \subseteq contents
    IN IF given.predicate = "killer" THEN {KillerPredicate(capsule)}
       ELSE {r \in Results :
           Monotone => (lost => r # "reproduces") /\ (kept => r = "reproduces")}

MayTimeOut ==
    given.predicate = "fickle" /\ Cardinality(timedOut) + Cardinality(unheard) < MaxTimeouts

\* The predicate runs on `capsule': its answer is what it was if it has run before.
Run(capsule) ==
    IF capsule \in DOMAIN answered THEN UNCHANGED answered
    ELSE \E r \in Answers(capsule) :
        answered' = [c \in DOMAIN answered \union {capsule} |->
                        IF c \in DOMAIN answered THEN answered[c] ELSE r]

Cached(capsule) == IF capsule \in timedOut THEN "invalid" ELSE answered[capsule]

\* _MemoizedPredicate.__call__ returns `result': from the cache, or from a run
\* whose answer, in time or not, is cached.  A candidate that does not validate
\* is INVALID without asking.
Evaluate(capsule, result) ==
    IF ~Valid(capsule) THEN result = "invalid" /\ UNCHANGED asked
    ELSE IF capsule \in DOMAIN answered THEN result = Cached(capsule) /\ UNCHANGED asked
    ELSE /\ Run(capsule)
         /\ \/ result = answered'[capsule] /\ UNCHANGED timedOut
            \/ MayTimeOut /\ result = "invalid" /\ timedOut' = timedOut \union {capsule}
         /\ UNCHANGED unheard

Verdicts == Results \union {"invalid"}

-------------------------------------------------------------------------------

Init ==
    /\ given \in Cases
    /\ phase = "initial"
    /\ level = 0
    /\ todo = <<>>
    /\ search = NoSearch
    /\ current = Source
    /\ answered = <<>>
    /\ timedOut = {}
    /\ reproducing = {}
    /\ unheard = {}

CheckSource ==
    /\ phase = "initial"
    /\ \E r \in Verdicts :
        /\ Evaluate(Source, r)
        /\ phase' = IF r = "reproduces" THEN "levels" ELSE "raised"
    /\ UNCHANGED <<level, todo, search, current, reproducing>>

\* The level has run to its end: on to the next, or to the final evaluation.
NextLevel ==
    /\ phase = "levels"
    /\ todo = <<>>
    /\ IF level < Len(LevelOrder)
       THEN level' = level + 1 /\ todo' = Targets(current, LevelOrder[level + 1]) /\ UNCHANGED phase
       ELSE phase' = "final" /\ UNCHANGED <<level, todo>>
    /\ UNCHANGED <<search, current, asked, reproducing>>

InJson == phase = "levels" /\ todo # <<>> /\ Name \in JsonLevels
InBulk == phase = "levels" /\ todo # <<>> /\ Name \notin JsonLevels

\* A mutant of AcceptPath: the paths after the accepted one are gone on with.
AcceptPathNoRestart ==
    /\ InJson
    /\ \E candidate \in {DeletePath(current, Name, Head(todo))} :
        /\ Evaluate(candidate, "reproduces")
        /\ current' = candidate
        /\ todo' = Among(Tail(todo), Range(Targets(candidate, Name)))
    /\ UNCHANGED <<phase, level, search, reproducing>>

\* The greedy JSON levels start over after every accepted deletion.
AcceptPath ==
    /\ InJson
    /\ \E candidate \in {DeletePath(current, Name, Head(todo))} :
        /\ Evaluate(candidate, "reproduces")
        /\ current' = candidate
        /\ todo' = Targets(candidate, Name)
    /\ UNCHANGED <<phase, level, search, reproducing>>

\* A mutant of RejectPath: a refused deletion starts the level over as well.
RejectPathRestarts ==
    /\ InJson
    /\ \E candidate \in {DeletePath(current, Name, Head(todo))}, r \in Verdicts \ {"reproduces"} :
        Evaluate(candidate, r)
    /\ todo' = Targets(current, Name)
    /\ UNCHANGED <<phase, level, search, current, reproducing>>

RejectPath ==
    /\ InJson
    /\ \E candidate \in {DeletePath(current, Name, Head(todo))}, r \in Verdicts \ {"reproduces"} :
        Evaluate(candidate, r)
    /\ todo' = Tail(todo)
    /\ UNCHANGED <<phase, level, search, current, reproducing>>

\* Call ddmin on the units of the next target; no units, no call.
BeginSearch ==
    /\ InBulk
    /\ search = NoSearch
    /\ LET units == Units(current, Name, Head(todo)) IN
        IF units = <<>>
        THEN todo' = Tail(todo) /\ UNCHANGED search
        ELSE search' = SearchOver(units) /\ UNCHANGED todo
    /\ UNCHANGED <<phase, level, current, asked, reproducing>>

Searching == InBulk /\ search.phase \in {"initial", "scan", "linear"}

\* ddmin asks about its next candidate.
SearchStep ==
    /\ Searching
    /\ \E candidate \in {Build(current, Name, Head(todo), search.units, SearchCandidate(search))},
         r \in Verdicts :
        /\ Evaluate(candidate, r)
        /\ search' = Advance(search, r = "reproduces")
    /\ UNCHANGED <<phase, level, todo, current, reproducing>>

\* ddmin raises: its first candidate keeps every unit, but an event level has
\* renumbered the events, which the predicate may not like.
SearchRaises ==
    /\ InBulk
    /\ search.phase = "raised"
    /\ phase' = "raised"
    /\ UNCHANGED <<level, todo, search, current, asked, reproducing>>

Result == Build(current, Name, Head(todo), search.units, search.kept)

\* The text values of the events from the reduced one on: the level starts the
\* event over, and goes on to the next when none of its values got smaller.
TextAfter(capsule, path) ==
    LET paths == TextPaths(capsule)
        position(id) == CHOOSE i \in DOMAIN capsule.events : capsule.events[i].id = id
    IN Among(paths, {p \in Range(paths) : position(p.id) >= position(path.id)})

\* A mutant of EndSearch: the result loses the last unit ddmin kept.
EndSearchDropsOne ==
    /\ InBulk
    /\ search.phase = "done"
    /\ search' = NoSearch
    /\ current' = Build(current, Name, Head(todo), search.units,
                        SubSeq(search.kept, 1, Len(search.kept) - 1))
    /\ todo' = Tail(todo)
    /\ UNCHANGED <<phase, level, asked, reproducing>>

\* A mutant of EndSearch: the result is built from the source, not from what the
\* earlier levels left of it.
EndSearchFromSource ==
    /\ InBulk
    /\ search.phase = "done"
    /\ search' = NoSearch
    /\ current' = Build(Source, Name, Head(todo), search.units, search.kept)
    /\ todo' = Tail(todo)
    /\ UNCHANGED <<phase, level, asked, reproducing>>

\* ddmin returns and the level goes on from its result.
EndSearch ==
    /\ InBulk
    /\ search.phase = "done"
    /\ search' = NoSearch
    /\ current' = Result
    /\ todo' = IF Name = "text_chunks" /\ search.kept # search.units
               THEN TextAfter(Result, Head(todo)) ELSE Tail(todo)
    /\ UNCHANGED <<phase, level, asked, reproducing>>

-------------------------------------------------------------------------------
(* The verifier and the caller.                                              *)

\* Every deletion verify_one_minimal tries: events one by one, whatever their
\* kind, then fields, items, text chunks, files, file chunks and environment.
VerifierUnits(capsule) ==
    LET events == Among(capsule.events, {e \in Range(capsule.events) : e.kind # "run"})
        texts == TextPaths(capsule)
        files == SetToSeq(DOMAIN capsule.workspace)
        entries == SetToSeq(capsule.environment)
        tagged(kind, paths) == [i \in DOMAIN paths |-> [unit |-> kind, path |-> paths[i]]]
    IN tagged("event", events)
       \o tagged("json_field", FieldPaths(capsule))
       \o tagged("json_item", ItemPaths(capsule))
       \o tagged("text_chunk", FlattenSeq([i \in DOMAIN texts |-> AtomPaths(capsule, texts[i])]))
       \o tagged("file", files)
       \o tagged("file_chunk", FlattenSeq([i \in DOMAIN files |->
              [j \in DOMAIN capsule.workspace[files[i]] |-> [file |-> files[i], at |-> j]]]))
       \o tagged("environment", entries)

Deleted(capsule, u) ==
    CASE u.unit = "event" -> RemoveEvents(capsule, {u.path.id})
      [] u.unit = "json_field" -> DeleteField(capsule, u.path.id, u.path.key)
      [] u.unit \in {"json_item", "text_chunk"} ->
            DeleteAtom(capsule, u.path.id, u.path.key, u.path.at)
      [] u.unit = "file" ->
            [capsule EXCEPT !.workspace = Restrict(@, DOMAIN @ \ {u.path})]
      [] u.unit = "file_chunk" ->
            [capsule EXCEPT !.workspace[u.path.file] = RemoveAt(@, u.path.at)]
      [] u.unit = "environment" -> [capsule EXCEPT !.environment = @ \ {u.path}]

\* The last lines of minimize_capsule and the first of verify_one_minimal: the
\* result is evaluated once more by each, of which the second has no cache and
\* raises if the predicate runs out of time.
FinalEvaluation ==
    /\ phase = "final"
    /\ \E r \in Verdicts :
        /\ Evaluate(current, r)
        /\ \/ phase' = IF r = "reproduces" THEN "verifying" ELSE "lost"
           \/ MayTimeOut /\ phase' = "raised"
    /\ todo' = VerifierUnits(current)
    /\ UNCHANGED <<level, search, current, reproducing>>

\* A mutant of VerifyDeletion: the verifier is given the reducer's cache.
VerifyFromCache ==
    /\ phase = "verifying"
    /\ todo # <<>>
    /\ \E candidate \in {Deleted(current, Head(todo))}, r \in Verdicts :
        /\ Evaluate(candidate, r)
        /\ reproducing' = IF r = "reproduces" THEN reproducing \union {Head(todo)} ELSE reproducing
    /\ todo' = Tail(todo)
    /\ UNCHANGED <<phase, level, search, current>>

\* _attempt: no cache, and a run that is INVALID counts as a deletion refused.
VerifyDeletion ==
    /\ phase = "verifying"
    /\ todo # <<>>
    /\ \E candidate \in {Deleted(current, Head(todo))} :
        IF ~Valid(candidate) THEN UNCHANGED <<asked, reproducing>>
        ELSE /\ Run(candidate)
             /\ \/ /\ reproducing' = reproducing \union
                         (IF answered'[candidate] = "reproduces" THEN {Head(todo)} ELSE {})
                   /\ UNCHANGED unheard
                \/ /\ MayTimeOut
                   /\ unheard' = unheard \union {Head(todo)}
                   /\ UNCHANGED reproducing
             /\ UNCHANGED timedOut
    /\ todo' = Tail(todo)
    /\ UNCHANGED <<phase, level, search, current>>

\* raise RuntimeError("independent 1-minimality verification failed")
VerificationFails ==
    /\ phase = "verifying"
    /\ todo = <<>>
    /\ reproducing # {}
    /\ phase' = "refused"
    /\ UNCHANGED <<level, todo, search, current, asked, reproducing>>

\* The verified capsule is decorated with its proof, which makes it a capsule
\* the predicate has not seen, and is asked about once more.
AcceptResult ==
    /\ phase = "verifying"
    /\ todo = <<>>
    /\ reproducing = {}
    /\ \E r \in Results : phase' = IF r = "reproduces" THEN "accepted" ELSE "raised"
    /\ UNCHANGED <<level, todo, search, current, asked, reproducing>>

Step ==
    \/ CheckSource
    \/ NextLevel
    \/ AcceptPath
    \/ RejectPath
    \/ BeginSearch
    \/ SearchStep
    \/ SearchRaises
    \/ EndSearch
    \/ FinalEvaluation
    \/ VerifyDeletion
    \/ VerificationFails
    \/ AcceptResult

Next == Step /\ UNCHANGED given

Spec == Init /\ [][Next]_vars

\* The reduction is one thread and every predicate process ends (PredicateRun).
\* The monotone predicates are among all predicates: fairness for the others is
\* enough to see that the reduction ends.
FairSpec == Spec /\ WF_vars(~Monotone /\ Next)

-------------------------------------------------------------------------------

TypeOK ==
    /\ phase \in {"initial", "levels", "final", "verifying", "accepted", "refused",
                  "raised", "lost"}
    /\ level \in 0..Len(LevelOrder)
    /\ search.phase \in {"none", "initial", "scan", "linear", "done", "raised"}
    /\ Contents(current) \subseteq Contents(Source)
    /\ Range(answered) \subseteq Verdicts
    /\ timedOut \subseteq DOMAIN answered

\* Whatever level the reducer is in, what it holds is a valid capsule that the
\* predicate was asked about and said to reproduce: rebuilding a level's result
\* from the units it kept never yields another capsule than the one tested.
\* "minimization lost the target failure" is unreachable.
HoldsTheFailure ==
    phase \notin {"initial", "raised"} =>
        /\ Valid(current)
        /\ current \in DOMAIN answered
        /\ Cached(current) = "reproduces"
        /\ phase # "lost"

\* The reducer only deletes: a step that changes the capsule drops something,
\* or only renumbers the events.
OnlyDeletes ==
    [][current' # current =>
        \/ Contents(current') \subseteq Contents(current) /\ Contents(current') # Contents(current)
        \/ Contents(current') = Contents(current)
           /\ current' = [current EXCEPT !.events = Resequence(@)]]_vars

\* The single deletions of a level.
LevelDeletions(capsule, name) ==
    CASE name \in EventLevels ->
            {RemoveEvents(capsule, {id}) : id \in Range(EventUnits(capsule, name))}
      [] name \in JsonLevels ->
            {DeletePath(capsule, name, p) : p \in Range(Targets(capsule, name))}
      [] OTHER ->
            UNION {LET units == Units(capsule, name, t)
                   IN {Build(capsule, name, t, units, WithoutItem(units, i)) : i \in DOMAIN units} :
                   t \in Range(Targets(capsule, name))}

\* A deletion was tried and lost the failure, or did not validate.
Refused(candidate) ==
    Valid(candidate) => candidate \in DOMAIN answered /\ Cached(candidate) # "reproduces"

LevelExhausted(name) ==
    phase = "levels" /\ todo = <<>> /\ level > 0 /\ Name = name
        => \A c \in LevelDeletions(current, name) : Refused(c)

\* When a level ends, every single deletion of its units has been refused with
\* everything else as it then is.  It holds for every predicate where the level
\* is one ddmin call or starts over after each acceptance.
SingleSearchLevelsExhausted ==
    \A name \in EventLevels \union JsonLevels \union {"files", "environment"} : LevelExhausted(name)

\* An event that no level offers for deletion by itself: what counts for the
\* spans is what their level, the first, finds.
Untried(e) ==
    /\ e.kind \notin {"message", "tool_call", "model_request"}
    /\ ~IsSpanUnit(Source, EventOf(Source, e.id))

\* For a predicate that is monotone the single pass over the levels is enough:
\* all that the verifier can still delete is an event that no level offers.
OnlyUntriedIsLeft ==
    given.predicate \in {"monotone", "killer"} =>
        \A u \in reproducing : u.unit = "event" /\ Untried(u.path)

\* The demo's capsule has no such event, and is reduced to the five events that
\* _run_demo asks for.
DemoIsReduced ==
    given.predicate = "killer" =>
        /\ phase \notin {"refused", "lost"}
        /\ phase = "accepted" => Len(current.events) = DemoEvents

\* A deletion that the reducer has given up for want of time is found by the
\* verifier: in a capsule that is accepted every deletion that reproduces has run
\* out of time in the verifier as well.
TimedOutIsFound ==
    phase = "accepted" =>
        \A u \in Range(VerifierUnits(current)) : LET c == Deleted(current, u) IN
            Valid(c) /\ answered[c] = "reproduces" => u \in unheard

\* The verifier finds what the levels have left, and nothing else.
VerifierFindsWhatIsLeft == OnlyUntriedIsLeft /\ DemoIsReduced /\ TimedOutIsFound

\* docs/PRODUCT_CONTRACT.md:5 promises that a capsule and a predicate it
\* satisfies are reduced to a capsule where deleting any remaining unit loses
\* the failure; the reducer's result may have deletable events left, and
\* `reprosieve reduce' then fails instead of deleting them.
ResultIsOneMinimal == phase # "refused"

\* The reduction ends: with a verified capsule or with an error.
Terminates == ~Monotone ~> (phase \in {"accepted", "refused", "raised", "lost"})
===============================================================================

------------------------------- MODULE Capsules -------------------------------
(***************************************************************************)
(* Capsules and what can be deleted from them                              *)
(* (src/src/reprosieve/schema.py, hierarchy.py, verify.py).                *)
(*                                                                         *)
(* A capsule is a record of                                                *)
(*   events       a sequence of [id, kind, parent, seq, deps, payload]     *)
(*   workspace    a function from file names to sequences of chunks        *)
(*   environment  a set of entries                                         *)
(* An event's payload is a JSON object one level deep: a function from its *)
(* keys to [type, atoms], where the atoms of a "text" are its 32-character *)
(* chunks and those of a "list" its elements.  Chunks keep their identity  *)
(* under deletion because all but the last are full.  Metadata, trace ID   *)
(* and limits are left out: no deletion touches them.                      *)
(***************************************************************************)
EXTENDS Integers, SequencesExt

None == "none"

\* The elements of `seq' that are in `set', in their order.
Among(seq, set) ==
    LET upto[n \in 0..Len(seq)] ==
          IF n = 0 THEN <<>>
          ELSE IF seq[n] \in set THEN Append(upto[n - 1], seq[n]) ELSE upto[n - 1]
    IN upto[Len(seq)]

Ids(capsule) == {capsule.events[i].id : i \in DOMAIN capsule.events}
EventOf(capsule, id) == CHOOSE e \in Range(capsule.events) : e.id = id

-------------------------------------------------------------------------------
(* What a capsule is made of.                                                *)

IsList(seq) == seq \in Seq(Range(seq))

IsPayload(payload) ==
    /\ payload = [k \in DOMAIN payload |-> payload[k]]
    /\ IsFiniteSet(DOMAIN payload)
    /\ \A k \in DOMAIN payload :
        /\ payload[k] = [type |-> payload[k].type, atoms |-> payload[k].atoms]
        /\ IsList(payload[k].atoms)

IsEvent(e) ==
    /\ e = [id |-> e.id, kind |-> e.kind, parent |-> e.parent, seq |-> e.seq,
            deps |-> e.deps, payload |-> e.payload]
    /\ e.id # None
    /\ IsPayload(e.payload)

IsCapsule(capsule) ==
    /\ capsule = [events |-> capsule.events, workspace |-> capsule.workspace,
                  environment |-> capsule.environment]
    /\ IsList(capsule.events) /\ \A e \in Range(capsule.events) : IsEvent(e)
    /\ capsule.workspace = [f \in DOMAIN capsule.workspace |-> capsule.workspace[f]]
    /\ IsFiniteSet(DOMAIN capsule.workspace)
    /\ \A f \in DOMAIN capsule.workspace : IsList(capsule.workspace[f])
    /\ IsFiniteSet(capsule.environment)

-------------------------------------------------------------------------------
(* Referential integrity.                                                    *)

\* The producers of kind `kind' among the events `earlier' that `e' depends on.
Producers(e, earlier, kind) == {p \in Range(earlier) : p.id \in e.deps /\ p.kind = kind}

\* What validate_capsule requires of `e', given the events before it.
ValidEvent(e, earlier) ==
    LET seen == {p.id : p \in Range(earlier)} IN
    /\ e.id \notin seen
    /\ \A p \in Range(earlier) : p.seq < e.seq
    /\ e.parent \in seen \union {None}
    /\ e.deps \subseteq seen
    /\ e.kind = "tool_result" => Cardinality(Producers(e, earlier, "tool_call")) = 1
    /\ e.kind = "model_response" => Cardinality(Producers(e, earlier, "model_request")) = 1

Valid(capsule) ==
    /\ capsule.events # <<>>
    /\ \A i \in DOMAIN capsule.events :
        ValidEvent(capsule.events[i], SubSeq(capsule.events, 1, i - 1))

-------------------------------------------------------------------------------
(* Deletions.                                                                *)

Resequence(events) == [i \in DOMAIN events |-> [events[i] EXCEPT !.seq = i - 1]]

\* The events to go when those in `removed' go.  The loop of remove_events runs
\* to a fixed point; in a valid capsule producers come first, so that one pass
\* reaches it.  (Here and below \in {x} binds x, so that
\* TLC evaluates it once.)
Consumers(capsule, removed, protected) ==
    LET events == capsule.events
        gone[n \in 0..Len(events)] ==
          IF n = 0 THEN removed
          ELSE UNION {before \union
                      {e.id : e \in {f \in {events[n]} :
                          f.id \notin protected /\ (f.parent \in before \/ f.deps \intersect before # {})}} :
                      before \in {gone[n - 1]}}
    IN gone[Len(events)]

\* The events whose ids are not in `gone', in their order.
Remaining(events, gone) ==
    LET upto[n \in 0..Len(events)] ==
          IF n = 0 THEN <<>>
          ELSE IF events[n].id \in gone THEN upto[n - 1] ELSE Append(upto[n - 1], events[n])
    IN upto[Len(events)]

Protected(capsule) == {e.id : e \in {f \in Range(capsule.events) : f.kind = "run"}}

\* Events of kind "run" are never removed, not even as consumers.
RemoveEvents(capsule, requested) ==
    LET gone == Consumers(capsule, requested \ Protected(capsule), Protected(capsule))
    IN [capsule EXCEPT !.events = Resequence(Remaining(@, gone))]

ReplacePayload(capsule, id, payload) ==
    [capsule EXCEPT !.events =
        [i \in DOMAIN @ |-> IF @[i].id = id THEN [@[i] EXCEPT !.payload = payload] ELSE @[i]]]

DeleteField(capsule, id, key) ==
    LET payload == EventOf(capsule, id).payload
    IN ReplacePayload(capsule, id, Restrict(payload, DOMAIN payload \ {key}))

ReplaceAtoms(capsule, id, key, atoms) ==
    ReplacePayload(capsule, id, [EventOf(capsule, id).payload EXCEPT ![key].atoms = atoms])

DeleteAtom(capsule, id, key, i) ==
    ReplaceAtoms(capsule, id, key, RemoveAt(EventOf(capsule, id).payload[key].atoms, i))

-------------------------------------------------------------------------------
(* What there is to delete, in the order it is tried.                        *)

\* The paths of an event's keys whose value has one of `types'.
KeysOf(e, types) ==
    LET keys == SetToSeq({k \in DOMAIN e.payload : e.payload[k].type \in types})
    IN [i \in DOMAIN keys |-> [id |-> e.id, key |-> keys[i]]]

\* json_field paths of a capsule.
FieldPaths(capsule) == FlattenSeq([i \in DOMAIN capsule.events |->
    KeysOf(capsule.events[i], {"text", "list"})])

\* The elements of one value, from the first to the last.
AtomPaths(capsule, path) ==
    [i \in DOMAIN EventOf(capsule, path.id).payload[path.key].atoms |->
        [id |-> path.id, key |-> path.key, at |-> i]]

\* json_item paths of a capsule.
ItemPaths(capsule) ==
    LET lists == FlattenSeq([i \in DOMAIN capsule.events |-> KeysOf(capsule.events[i], {"list"})])
    IN FlattenSeq([i \in DOMAIN lists |-> AtomPaths(capsule, lists[i])])

\* text paths of a capsule, those of empty strings left out.
TextPaths(capsule) ==
    LET texts == FlattenSeq([i \in DOMAIN capsule.events |-> KeysOf(capsule.events[i], {"text"})])
    IN Among(texts, {p \in Range(texts) : EventOf(capsule, p.id).payload[p.key].atoms # <<>>})

\* Everything a capsule holds, as a set: a deletion makes it smaller.
Contents(capsule) ==
    {<<id>> : id \in Ids(capsule)}
    \union {<<p.id, p.key>> : p \in Range(FieldPaths(capsule))}
    \union (UNION {{<<p.id, p.key, a>> : a \in Range(EventOf(capsule, p.id).payload[p.key].atoms)} :
                    p \in Range(FieldPaths(capsule))})
    \union {<<"file", f>> : f \in DOMAIN capsule.workspace}
    \union (UNION {{<<"file", f, c>> : c \in Range(capsule.workspace[f])} :
                    f \in DOMAIN capsule.workspace})
    \union {<<"env", v>> : v \in capsule.environment}
===============================================================================

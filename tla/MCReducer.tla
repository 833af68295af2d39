------------------------------ MODULE MCReducer -------------------------------
(***************************************************************************)
(* Capsules for Reducer.  Each is small enough for every predicate and     *)
(* together they have units on all ten levels.                             *)
(***************************************************************************)
EXTENDS Reducer

NoPayload == [k \in {} |-> k]
Event(id, kind, parent, seq, deps, payload) ==
    [id |-> id, kind |-> kind, parent |-> parent, seq |-> seq, deps |-> deps, payload |-> payload]
List(atoms) == [type |-> "list", atoms |-> atoms]
Capsule(events, workspace, environment) ==
    [events |-> events, workspace |-> workspace, environment |-> environment]

\* Every kind of event: a span with a child and a run below it, two turns, a tool
\* pair and a model pair that consumes it, with gaps in the numbering.
\* Removing the span leaves the protected run without its parent, which does
\* not validate.
EventSource == Capsule(
    <<Event("run", "run", None, 0, {}, NoPayload),
      Event("span", "unknown", "run", 2, {}, NoPayload),
      Event("turn", "message", "span", 3, {}, NoPayload),
      Event("nested", "run", "span", 4, {}, NoPayload),
      Event("call", "tool_call", "run", 5, {}, NoPayload),
      Event("result", "tool_result", "run", 6, {"call"}, NoPayload),
      Event("request", "model_request", "run", 7, {"result"}, NoPayload),
      Event("response", "model_response", "run", 8, {"request"}, NoPayload),
      Event("note", "message", "run", 9, {}, NoPayload),
      Event("spare", "error", "run", 10, {}, [unit |-> Text(<<"span">>)])>>,
    <<>>, {})

\* Fields, items and text chunks.
PayloadSource == Capsule(
    <<Event("run", "run", None, 0, {}, [text |-> Text(<<"a", "b", "c">>)]),
      Event("turn", "message", "run", 1, {}, [items |-> List(<<"x", "y">>)])>>,
    <<>>, {"LANG"})

\* Files of several chunks, an empty file and environment entries.
FileSource == Capsule(
    <<Event("run", "run", None, 0, {}, NoPayload)>>,
    [f |-> <<"f1", "f2", "f3">>, g |-> <<"g1", "g2">>, h |-> <<>>], {"LANG", "MODE"})

\* Units on nine of the ten levels, and events no level offers.
MixedSource == Capsule(
    <<Event("run", "run", None, 0, {}, NoPayload),
      Event("span", "guardrail", "run", 1, {}, NoPayload),
      Event("turn", "message", "span", 2, {}, [text |-> Text(<<"a", "b">>)]),
      Event("leaf", "handoff", "turn", 3, {}, NoPayload),
      Event("call", "tool_call", "run", 4, {}, NoPayload),
      Event("result", "tool_result", "run", 5, {"call"}, [items |-> List(<<"x">>)])>>,
    [f |-> <<"f1", "f2">>], {"LANG"})

\* A handoff that hands off to nothing, as handoff spans do.
LeafSource == Capsule(
    <<Event("run", "run", None, 0, {}, NoPayload),
      Event("handoff", "handoff", "run", 1, {}, NoPayload),
      Event("call", "tool_call", "run", 2, {}, NoPayload),
      Event("result", "tool_result", "run", 3, {"call"}, NoPayload)>>,
    <<>>, {})

\* A turn to delete, a result that no level offers and a value in two chunks.
FickleSource == Capsule(
    <<Event("run", "run", None, 0, {}, NoPayload),
      Event("turn", "message", "run", 1, {}, [text |-> Text(<<"a", "b">>)]),
      Event("call", "tool_call", "run", 2, {}, NoPayload),
      Event("result", "tool_result", "run", 3, {"call"}, NoPayload)>>,
    <<>>, {"LANG"})

\* Every predicate on the first three, the monotone ones on the fourth, the fickle
\* ones on the fifth, and the demo's on its own capsules.
AllCases == {Given(EventSource, "any"), Given(PayloadSource, "any"),
             Given(FileSource, "any"), Given(MixedSource, "monotone"), Given(FickleSource, "fickle")}
            \union {Given(KillerCapsule(b, c, m), "killer") : b, c, m \in 1..2}
LeafCase == {Given(LeafSource, "any")}
===============================================================================

------------------------------- MODULE Fixtures -------------------------------
(***************************************************************************)
(* The capsule of `reprosieve demo' (fixtures.py): five events that lead to *)
(* a failure, and noise around them.  The code has 20 branches of 5         *)
(* messages and 122 messages; here the numbers are parameters.  Nested      *)
(* objects are flattened, and a text is as long as it is tried in chunks.   *)
(***************************************************************************)
EXTENDS Capsules, TLC

Text(atoms) == [type |-> "text", atoms |-> atoms]

\* Event(...): the next of `events'.
More(events, id, kind, parent, deps, payload) ==
    Append(events, [id |-> id, kind |-> kind, parent |-> parent, seq |-> Len(events),
                    deps |-> deps, payload |-> payload])

Target ==
    <<[id |-> "run", kind |-> "run", parent |-> None, seq |-> 0, deps |-> {},
       payload |-> [workflow_name |-> Text(<<"killer-fixture">>)]],
      [id |-> "target-request", kind |-> "model_request", parent |-> "run", seq |-> 1,
       deps |-> {}, payload |-> [input |-> [type |-> "list", atoms |-> <<"inspect">>]]],
      [id |-> "target-response", kind |-> "model_response", parent |-> "run", seq |-> 2,
       deps |-> {"target-request"},
       payload |-> [output |-> [type |-> "list", atoms |-> <<"probe call">>]]],
      [id |-> "target-call", kind |-> "tool_call", parent |-> "run", seq |-> 3,
       deps |-> {"target-response"},
       payload |-> [name |-> Text(<<"probe">>), noise |-> Text(<<"discard">>)]],
      [id |-> "target-result", kind |-> "tool_result", parent |-> "run", seq |-> 4,
       deps |-> {"target-call"},
       payload |-> [name |-> Text(<<"probe">>), failure |-> Text(<<"needle">>),
                    diagnostic |-> Text(<<"synthetic">>)]]>>

\* A span with its messages.
Branch(events, children) ==
    LET branch == "noise-branch-" \o ToString(Len(events))
        span == More(events, branch, "unknown", "run", {}, [unit |-> Text(<<"span">>)])
        Child(more, i) == More(more, branch \o "-message-" \o ToString(i), "message", branch, {},
                               [text |-> Text(<<"irrelevant">>)])
    IN FoldLeft(Child, span, [i \in 1..children |-> i])

KillerCapsule(branches, children, messages) ==
    LET Message(events, i) == More(events, "noise-message-" \o ToString(i), "message", "run", {},
                                   [text |-> Text(<<"independent">>)])
        branched == FoldLeft(LAMBDA events, i : Branch(events, children), Target,
                             [i \in 1..branches |-> i])
    IN [events |-> FoldLeft(Message, branched, [i \in 1..messages |-> i]),
        workspace |-> ("verify_failure.py" :> <<"data=", "raise SystemExit">>),
        environment |-> {}]

\* verify_failure.py over the materialized tool outputs; a script that is not
\* there, or not whole, is no predicate (killer_predicate asks the same of the
\* events alone).
KillerPredicate(capsule) ==
    IF capsule.workspace # ("verify_failure.py" :> <<"data=", "raise SystemExit">>) THEN "invalid"
    ELSE IF \E e \in Range(capsule.events) :
               /\ e.kind = "tool_result"
               /\ "failure" \in DOMAIN e.payload
               /\ e.payload["failure"].atoms = <<"needle">>
    THEN "reproduces" ELSE "absent"

\* What the demo, and its release gate, ask of the reduction.
DemoEvents == 5
===============================================================================

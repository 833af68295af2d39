----------------------------- MODULE MCReproducer -----------------------------
(* Instances of Reproducer.                                                *)
EXTENDS Reproducer

-----------------------------------------------------------------------------
(* Documents.                                                              *)

Ev(id, kind, parent, seq, deps) ==
    [id |-> id, kind |-> kind, parent |-> parent, seq |-> seq, deps |-> deps,
     payload |-> <<>>]

\* Two requests and two calls, an error, an output that is no object, and one
\* that is missing.
GoodEvents ==
    <<Ev("r", "run", None, 0, {}), Ev("q", "model_request", "r", 1, {}),
      Ev("c", "tool_call", "r", 2, {"q"}),
      [Ev("t", "tool_result", "r", 3, {"c", "q"}) EXCEPT
          !.payload = [name |-> "probe", error |-> "failed", time |-> "1"]],
      [Ev("p", "model_response", "r", 5, {"q", "t"}) EXCEPT !.payload = [id |-> "1"]],
      Ev("d", "tool_call", "r", 6, {"p"}), Ev("s", "model_request", "r", 7, {"p", "t"}),
      [Ev("u", "tool_result", "r", 8, {"d", "s", "t"}) EXCEPT !.payload = [scalar |-> "out"]],
      [Ev("v", "model_response", "r", 9, {"s", "u"}) EXCEPT !.payload = [output |-> "over"]]>>

\* The good events, and one defect at a time.
EventNames ==
    {"events", "none", "same ID", "same sequence", "later parent",
     "later dependency", "own dependency", "no call", "two requests"}

SomeEvents ==
    [d \in EventNames |->
        CASE d = "events" -> GoodEvents
          [] d = "none" -> <<>>
          [] d = "same ID" -> [GoodEvents EXCEPT ![5].id = "t"]
          [] d = "same sequence" -> [GoodEvents EXCEPT ![4].seq = 2]
          [] d = "later parent" -> [GoodEvents EXCEPT ![2].parent = "c"]
          [] d = "later dependency" -> [GoodEvents EXCEPT ![2].deps = {"t"}]
          [] d = "own dependency" -> [GoodEvents EXCEPT ![3].deps = {"c"}]
          [] d = "no call" -> [GoodEvents EXCEPT ![4].deps = {"q"}]
          [] d = "two requests" -> [GoodEvents EXCEPT ![3].kind = "model_request"]]

IndexNames ==
    {"index", "index of two", "index of none", "index twice",
     "index collision", "index unsafe"}

SomeIndexes ==
    [d \in IndexNames |->
        CASE d = "index" -> <<"a">>
          [] d = "index of two" -> <<"a", "b">>
          [] d = "index of none" -> <<>>
          [] d = "index twice" -> <<"a", "a">>
          [] d = "index collision" -> <<"A", "a">>
          [] d = "index unsafe" -> <<"a", "bad">>]

GoodSpec == [fields |-> "exact", timeout |-> "ok", output_limit |-> "ok",
             process_limit |-> "ok", trials |-> Trials, required |-> Required,
             python |-> TRUE, script |-> "a"]

SpecNames ==
    {"predicate", "spec with more fields", "spec of no time",
     "spec of much output", "spec of no process", "spec of no trials",
     "spec of more than all", "spec of a shell", "spec of another file",
     "spec of an unsafe path"}

SomeSpecs ==
    [d \in SpecNames |->
        CASE d = "predicate" -> GoodSpec
          [] d = "spec with more fields" -> [GoodSpec EXCEPT !.fields = "more"]
          [] d = "spec of no time" -> [GoodSpec EXCEPT !.timeout = "below"]
          [] d = "spec of much output" -> [GoodSpec EXCEPT !.output_limit = "above"]
          [] d = "spec of no process" -> [GoodSpec EXCEPT !.process_limit = "below"]
          [] d = "spec of no trials" -> [GoodSpec EXCEPT !.trials = 0, !.required = 0]
          [] d = "spec of more than all" -> [GoodSpec EXCEPT !.required = Trials + 1]
          [] d = "spec of a shell" -> [GoodSpec EXCEPT !.python = FALSE]
          [] d = "spec of another file" -> [GoodSpec EXCEPT !.script = "b"]
          [] d = "spec of an unsafe path" -> [GoodSpec EXCEPT !.script = "bad"]]

-----------------------------------------------------------------------------
(* Archives: a good one, and one edit at a time.                            *)

GoodCapsule ==
    [events |-> "events", metadata |-> "metadata", environment |-> "environment",
     redaction |-> "redaction", predicate |-> "predicate",
     workspace |-> [p \in {"a"} |-> "text"]]
Good == CapsuleBytes(GoodCapsule)
Members == PayloadMembers(GoodCapsule)

\* The manifest fits the members, whatever they are.
Sealed(edited) == Archive(edited @@ Members, edited @@ Members)

BadContents ==
    [events |-> (EventNames \ {"events"}) \union {"not JSON"},
     index |-> (IndexNames \ {"index"}) \union {"not an array"},
     predicate |-> (SpecNames \ {"predicate"}) \union {"not an object"},
     metadata |-> {"application replay", "over a limit"}]

ArchiveNames ==
    {"good", "second", "two files", "undeclared file", "unsafe file", "not UTF-8",
     "unknown member", "no redaction", "many members", "unsealed", "uncovered",
     "overcovered", "undigested", "other format", "other schema", "no manifest",
     "member twice", "not zip", "large", "symlink", "encrypted", "too dense",
     "too large"} \union UNION {BadContents[m] : m \in DOMAIN BadContents}

SomeArchives ==
    [n \in ArchiveNames |->
        CASE n = "good" -> Good
          [] n = "second" -> CapsuleBytes([GoodCapsule EXCEPT
                !.workspace = [p \in {"a", "b"} |-> "other text"],
                !.predicate = "spec of another file"])
          [] n = "two files" -> Sealed("index" :> "index collision" @@ "file:A" :> "text")
          [] n = "undeclared file" -> Sealed("file:b" :> "text")
          [] n = "unsafe file" -> Sealed("file:bad" :> "text")
          [] n = "not UTF-8" -> Sealed("file:a" :> "not UTF-8")
          [] n = "unknown member" -> Sealed("another" :> "text")
          [] n = "no redaction" -> LET kept == Restrict(Members, DOMAIN Members \ {"redaction"})
                                   IN Archive(kept, kept)
          [] n = "many members" -> Sealed("file:b" :> "text" @@ "file:A" :> "text"
                                          @@ "index" :> "index of two")
          [] n = "unsealed" -> Archive(("file:a" :> "other text") @@ Members, Members)
          [] n = "uncovered" -> Archive(("file:b" :> "text") @@ Members, Members)
          [] n = "overcovered" -> Archive(Members, ("file:b" :> "text") @@ Members)
          [] n = "undigested" -> [Good EXCEPT !.manifest.digest = <<>>]
          [] n = "other format" -> [Good EXCEPT !.manifest.form = "other"]
          [] n = "other schema" -> [Good EXCEPT !.manifest.schema = "2"]
          [] n = "no manifest" -> [Good EXCEPT !.members = Members]
          [] n = "member twice" -> [Good EXCEPT !.twice = {"file:a"}]
          [] n = "not zip" -> [Good EXCEPT !.zip = FALSE]
          [] n = "large" -> [Good EXCEPT !.large = TRUE]
          [] n \in {"symlink", "encrypted", "too dense", "too large"} ->
                [Good EXCEPT !.marks = {n}]
          [] OTHER -> Sealed((CHOOSE m \in DOMAIN BadContents : n \in BadContents[m]) :> n)]

-----------------------------------------------------------------------------
(* Children and worlds.                                                    *)

Script(out, err, end) == [writes |-> <<out, err>>, end |-> end]

\* Silent, at the limit, over it on both streams, over it and hanging, dead of a
\* signal and hanging, before a second trial of each verdict.
TwoTrials ==
    {<<first, Script(0, 0, end)>> :
        first \in {Script(0, 0, "exit_1"), Script(1, 1, "exit_0"),
                   Script(2, 1, "exit_0"), Script(2, 2, "hang"),
                   Script(0, 1, "signal"), Script(0, 0, "hang")},
        end \in {"exit_0", "exit_1", "exit_2"}}

Calm == [source |-> "good", beside |-> "exported", runs |-> TRUE, taken |-> FALSE, layout |-> "plain",
         captured |-> {"LANG", "DATA"}, plan |-> <<Script(0, 0, "exit_1"), Script(0, 0, "exit_0")>>,
         top |-> "dir1", name |-> "file1", moves |-> 0]

\* Every child; every workspace and environment; every archive, exported or put
\* beside the script; every first path, disturbed
\* (nothing is written then).
SomeWorlds ==
    {[Calm EXCEPT !.plan = p] : p \in TwoTrials}
    \union {[Calm EXCEPT !.layout = l, !.captured = c] :
        l \in Layouts, c \in {{}, {"DATA"}, {"OPENAI_KEY", "HTTP_PROXY", "HOME", "DATA"}}}
    \union {[Calm EXCEPT !.source = a] : a \in ArchiveNames}
    \union {[Calm EXCEPT !.beside = a, !.runs = (a # "spec of another file" /\ a # "application replay")] :
                a \in ArchiveNames}
    \union {[Calm EXCEPT !.top = t, !.name = n, !.moves = Moves, !.taken = TRUE] :
                t \in Tops, n \in Things}
===============================================================================

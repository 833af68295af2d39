------------------------------- MODULE Archives -------------------------------
(***************************************************************************)
(* The capsule archive: how capsule.py writes one and what it accepts, and  *)
(* what the loader of the exported reproduce.py accepts (export.py), which   *)
(* repeats the rules without the package.  Pure operators; Reproducer.tla    *)
(* puts an archive in the file the export command reads.                    *)
(*                                                                         *)
(* A member's content is the name of a document; EventDocs, IndexDocs and    *)
(* SpecDocs say what the documents with a structure hold.  Digests are       *)
(* ideal: the digest of a content is the content.                           *)
(***************************************************************************)
EXTENDS Capsules

CONSTANTS EventDocs, IndexDocs, SpecDocs,
          MaxMembers        \* max_members and MAX_MEMBERS

\* Members that every capsule has, and workspace files: "a" and "A" are one
\* path on a file system that ignores case, "bad" is no safe relative path.
Required6 == {"events", "metadata", "environment", "index", "redaction", "predicate"}
Paths == {"a", "A", "b", "bad"}
FileMember == [a |-> "file:a", A |-> "file:A", b |-> "file:b", bad |-> "file:bad"]
FileMembers == {FileMember[p] : p \in Paths}
UnsafeNames == {"file:bad"}

\* What the documents that are read hold: events in a row, paths in a row.  A
\* document over one of the limits is none of these.
ASSUME DocsAssumption ==
    /\ \A d \in DOMAIN EventDocs :
          /\ EventDocs[d] \in Seq(Range(EventDocs[d]))
          /\ \A e \in Range(EventDocs[d]) : e.seq \in Int
    /\ \A d \in DOMAIN IndexDocs : IndexDocs[d] \in Seq(Paths)
    /\ "over a limit" \notin DOMAIN IndexDocs

\* safe_relative_path and its twin safe_path.
SafePath(path) == path # "bad"

\* Components are compared in the case-folded form.
Identity(path) == IF path = "A" THEN "a" ELSE path
MemberIdentity(name) == IF name = "file:A" THEN "file:a" ELSE name

-----------------------------------------------------------------------------
(* Writing.                                                                *)

\* A capsule here: the names of its documents and its workspace, a function
\* from paths to contents.  The workspace index holds the sorted paths.
IndexOf(workspace) ==
    CHOOSE d \in DOMAIN IndexDocs :
        Range(IndexDocs[d]) = DOMAIN workspace /\ IsInjective(IndexDocs[d])

PayloadMembers(capsule) ==
    [n \in Required6 \union {FileMember[p] : p \in DOMAIN capsule.workspace} |->
        CASE n = "events" -> capsule.events
          [] n = "metadata" -> capsule.metadata
          [] n = "environment" -> capsule.environment
          [] n = "index" -> IndexOf(capsule.workspace)
          [] n = "redaction" -> capsule.redaction
          [] n = "predicate" -> capsule.predicate
          [] OTHER -> capsule.workspace[CHOOSE p \in Paths : FileMember[p] = n]]

\* An archive: its members, the names that occur twice and what marks some
\* member.  Its manifest names `entries' with their digests and has the digest
\* of all of them.
Archive(members, entries) ==
    [zip |-> TRUE, large |-> FALSE,
     members |-> [n \in DOMAIN members \union {"manifest"} |->
                    IF n = "manifest" THEN "manifest" ELSE members[n]],
     twice |-> {}, marks |-> {},
     manifest |-> [form |-> "current", schema |-> "1",
                   entries |-> entries, digest |-> entries]]

\* A mutant of CapsuleBytes: the predicate is left out of the manifest.
CapsuleBytesPartial(capsule) ==
    LET members == PayloadMembers(capsule)
    IN Archive(members, Restrict(members, DOMAIN members \ {"predicate"}))

CapsuleBytes(capsule) ==
    LET members == PayloadMembers(capsule) IN Archive(members, members)

-----------------------------------------------------------------------------
(* What both loaders look at.                                              *)

NamesOf(archive) == DOMAIN archive.members
ContentOf(archive, name) == archive.members[name]
Declared(archive) == IndexDocs[ContentOf(archive, "index")]

Limited(archive) ==
    /\ archive.zip /\ ~archive.large
    /\ Cardinality(NamesOf(archive)) <= MaxMembers
    /\ NamesOf(archive) \intersect UnsafeNames = {}
    /\ archive.marks \intersect {"symlink", "too large", "too dense"} = {}

\* Sizes and digests of the members, and the digest over all of them.
ManifestCovers(archive) ==
    LET contents == Restrict(archive.members, NamesOf(archive) \ {"manifest"})
    IN /\ archive.manifest.form = "current"
       /\ archive.manifest.entries = contents
       /\ archive.manifest.digest = contents

KnownMembers(archive) ==
    /\ Required6 \subseteq NamesOf(archive)
    /\ NamesOf(archive) \subseteq Required6 \union {"manifest"} \union FileMembers

ObjectDoc(content) == content \notin {"not JSON", "not an object"}

\* The workspace index and the workspace files are in one-to-one relation.
IndexMatches(archive) ==
    /\ \A i \in DOMAIN Declared(archive) :
          /\ SafePath(Declared(archive)[i])
          /\ FileMember[Declared(archive)[i]] \in NamesOf(archive)
          /\ ContentOf(archive, FileMember[Declared(archive)[i]]) # "not UTF-8"
    /\ \A i, j \in DOMAIN Declared(archive) :
          i # j => Identity(Declared(archive)[i]) # Identity(Declared(archive)[j])
    /\ NamesOf(archive) \intersect FileMembers =
          {FileMember[p] : p \in Range(Declared(archive))}

-----------------------------------------------------------------------------
(* capsule.py.                                                             *)

\* A mutant of ValidatedMembers: the manifest need not name every member.
ValidatedMembersLoose(archive) ==
    /\ Limited(archive)
    /\ archive.twice = {}
    /\ "encrypted" \notin archive.marks
    /\ "manifest" \in NamesOf(archive)
    /\ archive.manifest.form = "current"
    /\ \A n \in DOMAIN archive.manifest.entries :
          n \in NamesOf(archive) /\ ContentOf(archive, n) = archive.manifest.entries[n]

ValidatedMembers(archive) ==
    /\ Limited(archive)
    /\ archive.twice = {}
    /\ "encrypted" \notin archive.marks
    /\ "manifest" \in NamesOf(archive)
    /\ ManifestCovers(archive)

\* _capsule_from_members ends with validate_capsule on what it has built.
CapsuleFromMembers(archive) ==
    /\ KnownMembers(archive)
    /\ \A d \in {"metadata", "environment", "redaction", "predicate"} :
          ObjectDoc(ContentOf(archive, d))
    /\ ContentOf(archive, "events") \in DOMAIN EventDocs
    /\ ContentOf(archive, "index") \in DOMAIN IndexDocs
    /\ IndexMatches(archive)
    /\ archive.manifest.schema = "1"
    /\ Valid([events |-> EventDocs[ContentOf(archive, "events")]])
    /\ \A n \in NamesOf(archive) : ContentOf(archive, n) # "over a limit"

Loads(archive) == ValidatedMembers(archive) /\ CapsuleFromMembers(archive)

Loaded(archive) ==
    [events |-> ContentOf(archive, "events"),
     metadata |-> ContentOf(archive, "metadata"),
     environment |-> ContentOf(archive, "environment"),
     redaction |-> ContentOf(archive, "redaction"),
     predicate |-> ContentOf(archive, "predicate"),
     workspace |-> [p \in Range(Declared(archive)) |-> ContentOf(archive, FileMember[p])]]

-----------------------------------------------------------------------------
(* The recorded outputs, as `materialize' and a predicate's replay.json have *)
(* them.  A payload is an object, a function from its keys, or no object:     *)
(* the value of the one key "scalar".                                       *)

IsObject(payload) == "scalar" \notin DOMAIN payload
OutputOf(payload) ==
    IF ~IsObject(payload) THEN payload.scalar
    ELSE IF "output" \in DOMAIN payload THEN payload.output ELSE None

\* An output names its event and the one producer it has in a valid capsule.
ProducerId(events, e, kind) ==
    (CHOOSE p \in Range(events) : p.id \in e.deps /\ p.kind = kind).id

ModelOutput(events, e) ==
    [event |-> e.id, request |-> ProducerId(events, e, "model_request"),
     output |-> OutputOf(e.payload)]

\* What is copied of a tool's result.
Copied(payload, keys) ==
    IF IsObject(payload) THEN Restrict(payload, DOMAIN payload \intersect keys)
                         ELSE [output |-> payload.scalar]

ToolOutput(events, e) ==
    [event |-> e.id, call |-> ProducerId(events, e, "tool_call"),
     item |-> Copied(e.payload, {"name", "output", "error"})]

\* offline_replay: the outputs of either kind, in the order of the events.
OfflineReplay(events) ==
    LET OfKind(kind) == Among(events, {e \in Range(events) : e.kind = kind})
        responses == OfKind("model_response")
        results == OfKind("tool_result")
    IN [replayed |-> Len(events),
        models |-> [i \in DOMAIN responses |-> ModelOutput(events, responses[i])],
        tools |-> [i \in DOMAIN results |-> ToolOutput(events, results[i])]]

-----------------------------------------------------------------------------
(* The predicate document.  Numbers are at, below or above their bounds.    *)

InBounds(spec) ==
    /\ spec.timeout = "ok" /\ spec.output_limit = "ok" /\ spec.process_limit = "ok"
    /\ 1 <= spec.trials /\ spec.trials <= 100
    /\ 1 <= spec.required /\ spec.required <= spec.trials

\* predicate_spec_from_json and PredicateSpec.__post_init__.
PredicateSpecFromJson(content) ==
    /\ content \in DOMAIN SpecDocs
    /\ LET spec == SpecDocs[content]
       IN /\ spec.fields = "exact"
          /\ InBounds(spec)
          /\ spec.python /\ spec.script \in Paths /\ SafePath(spec.script)

\* export_reproduction refuses what reproduce.py could not run.
Exportable(archive) ==
    /\ Loads(archive)
    /\ ContentOf(archive, "metadata") # "application replay"
    /\ PredicateSpecFromJson(ContentOf(archive, "predicate"))
    /\ SpecDocs[ContentOf(archive, "predicate")].script \in Range(Declared(archive))

-----------------------------------------------------------------------------
(* load, validate_capsule_documents and predicate_spec of reproduce.py.     *)

\* A mutant of StandaloneEvents: dependencies on later events are allowed.
StandaloneEventsForward(events) ==
    /\ events # <<>>
    /\ \A i \in DOMAIN events :
          LET earlier == SubSeq(events, 1, i - 1)
              seen == {p.id : p \in Range(earlier)}
              Kinds(k) == {p \in Range(earlier) : p.id \in events[i].deps /\ p.kind = k}
          IN /\ events[i].id \notin seen
             /\ i > 1 => events[i].seq > events[i - 1].seq
             /\ events[i].parent = None \/ events[i].parent \in seen
             /\ events[i].kind = "tool_result" => Kinds("tool_call") # {}
             /\ events[i].kind = "model_response" => Kinds("model_request") # {}

\* One pass with the events seen so far, the last sequence number and the
\* kinds.
StandaloneEvents(events) ==
    /\ events # <<>>
    /\ \A i \in DOMAIN events :
          LET earlier == SubSeq(events, 1, i - 1)
              seen == {p.id : p \in Range(earlier)}
              Kinds(k) == {p \in Range(earlier) : p.id \in events[i].deps /\ p.kind = k}
          IN /\ events[i].id \notin seen
             /\ i > 1 => events[i].seq > events[i - 1].seq
             /\ events[i].parent = None \/ events[i].parent \in seen
             /\ events[i].deps \subseteq seen
             /\ events[i].kind = "tool_result" => Cardinality(Kinds("tool_call")) = 1
             /\ events[i].kind = "model_response" => Cardinality(Kinds("model_request")) = 1

StandaloneMembers(archive) ==
    /\ Limited(archive)
    /\ archive.twice = {}
    /\ \A m, n \in NamesOf(archive) : m # n => MemberIdentity(m) # MemberIdentity(n)
    /\ "encrypted" \notin archive.marks      \* read() needs a password
    /\ "manifest" \in NamesOf(archive)
    /\ ManifestCovers(archive)
    /\ KnownMembers(archive)

StandaloneDocuments(archive) ==
    /\ archive.manifest.schema = "1"
    /\ ContentOf(archive, "events") \in DOMAIN EventDocs
    /\ StandaloneEvents(EventDocs[ContentOf(archive, "events")])
    /\ \A d \in {"metadata", "environment", "redaction", "predicate"} :
          ObjectDoc(ContentOf(archive, d))
    /\ ContentOf(archive, "index") \in DOMAIN IndexDocs
    /\ IndexMatches(archive)
    /\ \A n \in NamesOf(archive) : ContentOf(archive, n) # "over a limit"

\* predicate_spec asks for the same fields and bounds; whether the script is in
\* the workspace is asked by each trial.
StandaloneSpec(content) ==
    /\ content \in DOMAIN SpecDocs
    /\ LET spec == SpecDocs[content]
       IN /\ spec.fields = "exact"
          /\ InBounds(spec)
          /\ spec.python /\ spec.script \in Paths /\ SafePath(spec.script)

StandaloneLoads(archive) ==
    StandaloneMembers(archive) /\ StandaloneDocuments(archive)

\* A mutant of StandaloneKeys: the errors of tools are not replayed.
StandaloneKeysOfSuccess == {"name", "output"}
StandaloneKeys == {"name", "output", "error"}

FirstProducer(events, e, kind) == (CHOOSE p \in Producers(e, events, kind) : TRUE).id

\* The next event's output is added to the list of its kind.
Added(lists, events, e) ==
    LET model == [event |-> e.id, request |-> FirstProducer(events, e, "model_request"),
                  output |-> OutputOf(e.payload)]
        tool == [call |-> FirstProducer(events, e, "tool_call"), event |-> e.id,
                 item |-> Copied(e.payload, StandaloneKeys)]
    IN CASE e.kind = "model_response" -> [lists EXCEPT !.models = Append(@, model)]
         [] e.kind = "tool_result" -> [lists EXCEPT !.tools = Append(@, tool)]
         [] OTHER -> lists

\* replay of the script: one pass, the two lists growing.
StandaloneReplay(events) ==
    LET upto[n \in 0..Len(events)] ==
          IF n = 0 THEN [replayed |-> Len(events), models |-> <<>>, tools |-> <<>>]
                   ELSE Added(upto[n - 1], events, events[n])
    IN upto[Len(events)]

TrialRuns(archive) ==
    /\ SpecDocs[ContentOf(archive, "predicate")].script \in Range(Declared(archive))
    /\ ContentOf(archive, "metadata") # "application replay"
===============================================================================

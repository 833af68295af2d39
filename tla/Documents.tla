------------------------------- MODULE Documents -------------------------------
(***************************************************************************)
(* The walks over one document: _validate_json (schema.py), its twin         *)
(* validate_json in the exported script (export.py), and the redactor        *)
(* (redact.py), with the test of user patterns.  A document is a heap of      *)
(* Python objects: an object may be referred to twice, or contain itself.     *)
(*                                                                         *)
(* Texts, keys and patterns are sequences of letters.  A marker is an atom of *)
(* its own: no configured text occurs in one.  A token is the letter "t", a   *)
(* secret key has the letter "s", and a key that is no string is <<"1st">>.   *)
(***************************************************************************)
EXTENDS Integers, SequencesExt

CONSTANTS
    MaxNodes, MaxDepth,  \* the limits of SchemaLimits and RedactionLimits
    Letters,             \* the atoms of texts, keys and patterns
    Index,               \* the steps of a path to the items of a list, in order
    Jobs                 \* what a behaviour is about:
                         \*   who     "schema", "script", "redactor" or "pattern"
                         \*   heap    a sequence of objects, the document first
                         \*   policy  of the redactor
                         \*   pattern of the user

\* Objects: containers have items, [key, to], the keys of a list are numbers.
Containers == {"list", "dict"}
NotStr == <<"1st">>
NoKey == <<"none">>            \* the key of what is in no mapping
Str(key) == IF key = NotStr THEN <<"k">> ELSE key

MarkerAtoms == {"#1", "#2", "#t"}
Marker == <<"typed marker">>
Types == Containers \union {"text", "number", "bytes", "long", "other"}
Plain == Types \union {"1st", "none", "typed marker"}

IsHeapObject(object, size) ==
    /\ object.type \in Types /\ object.text \in Seq(Letters)
    /\ object.items \in Seq([key : Seq(Letters) \union {NotStr, NoKey}, to : 1..size])
    /\ object.type \notin Containers => object.items = <<>>
    /\ object.type = "dict" =>
          \A i \in DOMAIN object.items : object.items[i].key # NoKey
    /\ object.type = "list" => Len(object.items) <= Len(Index)

ASSUME LimitsAssumption == MaxNodes \in Nat /\ MaxDepth \in Nat
ASSUME LettersAssumption ==
    /\ {"k", "s", "t"} \subseteq Letters
    /\ Letters \intersect (MarkerAtoms \union Plain) = {}
ASSUME IndexAssumption ==
    /\ Index \in Seq(Range(Index)) /\ IsInjective(Index)
    /\ \A i \in DOMAIN Index : /\ Index[i] \in Seq(Range(Index[i])) /\ Len(Index[i]) = 1
                               /\ Index[i][1] \notin Letters
ASSUME JobsAssumption == \A j \in Jobs :
    /\ j.who \in {"schema", "script", "redactor", "pattern"}
    /\ j.heap \in Seq(Range(j.heap))
    /\ \A n \in DOMAIN j.heap : IsHeapObject(j.heap[n], Len(j.heap))
    /\ j.heap = <<>> <=> j.who = "pattern"
    /\ j.policy.texts \in Seq([text : Seq(Letters), marker : MarkerAtoms])
    /\ j.pattern \in Seq(Letters)

VARIABLES
    job,          \* one of Jobs (rigid)
    stack,        \* what is still to be visited, the next one last
    nodes,        \* the count that is held against MaxNodes
    active,       \* the containers that are being visited
    out,          \* the redacted values, each with where it comes from
    replacements, \* of the report
    verdict       \* "none", "accepted" or "raised"

walkVars == <<job, stack, nodes, active, out, replacements, verdict>>

Obj(n) == job.heap[n]
Running(who) == verdict = "none" /\ job.who \in who /\ stack # <<>>
Top == Last(stack)

Leaving(n) == [leave |-> TRUE, node |-> n]
Visit(n, key, raw, path, depth) ==
    [leave |-> FALSE, node |-> n, key |-> key, raw |-> raw, path |-> path, depth |-> depth]

Raise ==
    /\ verdict' = "raised"
    /\ UNCHANGED <<job, stack, nodes, active, out, replacements>>

-----------------------------------------------------------------------------
(* _validate_json, and the walk of the script, which knows no _Leave and      *)
(* counts a container twice at once.                                        *)

Children(frame) ==
    [i \in DOMAIN Obj(frame.node).items |->
        Visit(Obj(frame.node).items[i].to, NoKey, <<>>, <<>>, frame.depth + 1)]

\* What JSON has: not a string over the limit, bytes or any other object.
JsonObject(n) ==
    /\ Obj(n).type \in Containers \union {"text", "number"}
    /\ Obj(n).type = "dict" => \A i \in DOMAIN Obj(n).items : Obj(n).items[i].key # NotStr

\* A mutant of LeaveContainer: what was visited once counts as being visited.
LeaveContainerNever ==
    /\ Running({"schema"}) /\ Top.leave
    /\ IF nodes + 1 > MaxNodes THEN Raise
       ELSE /\ nodes' = nodes + 1
            /\ stack' = Front(stack)
            /\ UNCHANGED <<job, active, out, replacements, verdict>>

LeaveContainer ==
    /\ Running({"schema"}) /\ Top.leave
    /\ IF nodes + 1 > MaxNodes THEN Raise
       ELSE /\ nodes' = nodes + 1
            /\ active' = active \ {Top.node}
            /\ stack' = Front(stack)
            /\ UNCHANGED <<job, out, replacements, verdict>>

ValidateNode ==
    /\ Running({"schema"}) /\ ~Top.leave
    /\ IF \/ nodes + 1 > MaxNodes \/ Top.depth > MaxDepth
          \/ ~JsonObject(Top.node) \/ Top.node \in active
       THEN Raise
       ELSE /\ nodes' = nodes + 1
            /\ IF Obj(Top.node).type \in Containers
               THEN /\ active' = active \union {Top.node}
                    /\ stack' = Front(stack) \o <<Leaving(Top.node)>> \o Reverse(Children(Top))
               ELSE stack' = Front(stack) /\ UNCHANGED active
            /\ UNCHANGED <<job, out, replacements, verdict>>

\* A container is counted when it is entered and when it is left.
Cost(n) == IF Obj(n).type \in Containers THEN 2 ELSE 1

\* Children are taken from the last to the first; only json.loads is walked.
ScriptNode ==
    /\ Running({"script"})
    /\ LET cost == Cost(Top.node)
       IN IF nodes + cost > MaxNodes \/ Top.depth > MaxDepth \/ ~JsonObject(Top.node)
          THEN Raise
          ELSE /\ nodes' = nodes + cost
               /\ stack' = Front(stack) \o Children(Top)
               /\ UNCHANGED <<job, active, out, replacements, verdict>>

-----------------------------------------------------------------------------
(* The redactor.                                                           *)

\* One atom more of a text: a match that it completes is replaced.
Scanned(done, atom, configured) ==
    LET more == Append(done, atom)
        rest == Len(more) - Len(configured.text)
    IN IF /\ configured.text # <<>> /\ rest >= 0
          /\ SubSeq(more, rest + 1, Len(more)) = configured.text
       THEN Append(SubSeq(more, 1, rest), configured.marker) ELSE more

\* str.replace and re.sub: the matches from left to right, none overlapping.
ReplaceText(text, configured) ==
    LET done[n \in 0..Len(text)] ==
            IF n = 0 THEN <<>> ELSE Scanned(done[n - 1], text[n], configured)
    IN done[Len(text)]

Token == [text |-> <<"t">>, marker |-> "#t"]

\* A mutant of ReplacedText: the search ends with the first text that is found.
ReplacedTextOnce(text) ==
    LET found == SelectSeq(job.policy.texts, LAMBDA c : ReplaceText(text, c) # text)
    IN ReplaceText(IF found = <<>> THEN text ELSE ReplaceText(text, Head(found)), Token)

\* _replace_text: every canary and pattern, in order, and then the tokens.
Configured == Append(job.policy.texts, Token)
ReplacedText(text) ==
    LET done[n \in 0..Len(Configured)] ==
            IF n = 0 THEN text ELSE ReplaceText(done[n - 1], Configured[n])
    IN done[Len(Configured)]

\* One call of _record for each match.
MarkersAt(text) == {i \in DOMAIN text : text[i] \in MarkerAtoms}
Markers(text) == Cardinality(MarkersAt(text))

Covered(path, configured) == \E p \in configured : IsPrefix(p, path)

\* Deny paths and secret keys, as visit sees them: both after replacement.
Hidden(path, key) ==
    \/ path # <<>> /\ Covered(path, job.policy.deny)
    \/ key # NoKey /\ Contains(key, "s") /\ ~Covered(path, job.policy.allow)

\* The new keys of a mapping's items.
NewKeys(n) == [i \in DOMAIN Obj(n).items |->
    IF Obj(n).type = "dict" THEN ReplacedText(Str(Obj(n).items[i].key)) ELSE <<>>]

KeyReplacements(n) ==
    Cardinality(UNION {{i} \X MarkersAt(NewKeys(n)[i]) : i \in DOMAIN NewKeys(n)})

RedactedChildren(frame) ==
    LET items == Obj(frame.node).items
        isDict == Obj(frame.node).type = "dict"
        keys == NewKeys(frame.node)
    IN [i \in DOMAIN items |->
            Visit(items[i].to, IF isDict THEN keys[i] ELSE NoKey,
                  Append(frame.raw, IF isDict THEN Str(items[i].key) ELSE Index[i]),
                  Append(frame.path, IF isDict THEN keys[i] ELSE Index[i]),
                  frame.depth + 1)]

\* The value that visit returns for what holds no other value, and how often it
\* calls _record.
Redacted(frame) ==
    LET object == Obj(frame.node)
        text == ReplacedText(object.text)
    IN IF Hidden(frame.path, frame.key) THEN [value |-> Marker, records |-> 1]
       ELSE CASE object.type = "number" -> [value |-> <<"number">>, records |-> 0]
              [] object.type = "text" -> [value |-> text, records |-> Markers(text)]
              [] object.type = "bytes" /\ text # object.text ->
                     [value |-> text, records |-> Markers(text)]
              [] OTHER -> [value |-> Marker, records |-> 1]

\* A mutant of RecordValue: what is replaced as a whole is not counted.
RecordParts(frame, value, records) ==
    /\ out' = out \union {[node |-> frame.node, key |-> frame.key, raw |-> frame.raw,
                           path |-> frame.path, value |-> value]}
    /\ replacements' = replacements + (IF value = Marker THEN 0 ELSE records)

RecordValue(frame, value, records) ==
    /\ out' = out \union {[node |-> frame.node, key |-> frame.key, raw |-> frame.raw,
                           path |-> frame.path, value |-> value]}
    /\ replacements' = replacements + records

RedactLeave ==
    /\ Running({"redactor"}) /\ Top.leave
    /\ active' = active \ {Top.node}
    /\ stack' = Front(stack)
    /\ UNCHANGED <<job, nodes, out, replacements, verdict>>

Enters == Obj(Top.node).type \in Containers /\ ~Hidden(Top.path, Top.key)

RedactNode ==
    /\ Running({"redactor"}) /\ ~Top.leave
    /\ IF \/ nodes + 1 > MaxNodes \/ Top.depth > MaxDepth
          \/ Enters /\ Top.node \in active
          \/ Enters /\ Obj(Top.node).type = "dict" /\ ~IsInjective(NewKeys(Top.node))
          \/ Obj(Top.node).type = "long" /\ ~Hidden(Top.path, Top.key)
       THEN Raise
       ELSE /\ nodes' = nodes + 1
            /\ IF Enters
               THEN /\ active' = active \union {Top.node}
                    /\ stack' = Front(stack) \o <<Leaving(Top.node)>>
                                  \o Reverse(RedactedChildren(Top))
                    /\ RecordValue(Top, <<Obj(Top.node).type>>, KeyReplacements(Top.node))
               ELSE /\ stack' = Front(stack)
                    /\ RecordValue(Top, Redacted(Top).value, Redacted(Top).records)
                    /\ UNCHANGED active
            /\ UNCHANGED <<job, verdict>>

-----------------------------------------------------------------------------
(* _compile_user_pattern.                                                  *)

Quantifiers == {"*", "+", "?"}

\* A mutant of QuantifierStep: a "[" in a class opens another one.
QuantifierStepNested(s, c) ==
    CASE s.escaped -> [s EXCEPT !.escaped = FALSE]
      [] ~s.escaped /\ c = "\\" -> [s EXCEPT !.escaped = TRUE]
      [] ~s.escaped /\ c = "[" -> [s EXCEPT !.class = @ + 1]
      [] ~s.escaped /\ c = "]" /\ s.class > 0 -> [s EXCEPT !.class = @ - 1]
      [] ~s.escaped /\ s.class = 0 /\ c \in Quantifiers -> [s EXCEPT !.count = @ + 1]
      [] OTHER -> s

QuantifierStep(s, c) ==
    CASE s.escaped -> [s EXCEPT !.escaped = FALSE]
      [] ~s.escaped /\ c = "\\" -> [s EXCEPT !.escaped = TRUE]
      [] ~s.escaped /\ c = "[" /\ s.class = 0 -> [s EXCEPT !.class = 1]
      [] ~s.escaped /\ c = "]" /\ s.class > 0 -> [s EXCEPT !.class = 0]
      [] ~s.escaped /\ s.class = 0 /\ c \in Quantifiers -> [s EXCEPT !.count = @ + 1]
      [] OTHER -> s

QuantifierCount(pattern) ==
    LET state[n \in 0..Len(pattern)] ==
            IF n = 0 THEN [escaped |-> FALSE, class |-> 0, count |-> 0]
            ELSE QuantifierStep(state[n - 1], pattern[n])
    IN state[Len(pattern)].count

Digits == {"1", "2", "3", "4", "5", "6", "7", "8", "9"}
\* re.search(r"\\[1-9]", pattern).
HasBackreference(pattern) ==
    \E i \in 2..Len(pattern) : pattern[i - 1] = "\\" /\ pattern[i] \in Digits

CompileUserPattern ==
    /\ verdict = "none" /\ job.who = "pattern"
    /\ verdict' = IF \/ job.pattern = <<>>
                     \/ Range(job.pattern) \intersect {"(", ")", "|", "{", "}"} # {}
                     \/ HasBackreference(job.pattern)
                     \/ QuantifierCount(job.pattern) > 1
                  THEN "raised" ELSE "accepted"
    /\ UNCHANGED <<job, stack, nodes, active, out, replacements>>

-----------------------------------------------------------------------------
Accept ==
    /\ verdict = "none" /\ job.who # "pattern" /\ stack = <<>>
    /\ verdict' = "accepted"
    /\ UNCHANGED <<job, stack, nodes, active, out, replacements>>

WalkInit ==
    /\ job \in Jobs
    /\ stack = <<Visit(1, NoKey, <<>>, <<>>, 0)>>
    /\ nodes = 0
    /\ active = {}
    /\ out = {}
    /\ replacements = 0
    /\ verdict = "none"

WalkEnds == verdict # "none" /\ UNCHANGED walkVars

WalkNext ==
    \/ LeaveContainer \/ ValidateNode \/ ScriptNode
    \/ RedactLeave \/ RedactNode
    \/ CompileUserPattern \/ Accept \/ WalkEnds

WalkSpec == WalkInit /\ [][WalkNext]_walkVars

-----------------------------------------------------------------------------
(* Properties.                                                             *)

Walked(who) == verdict # "none" /\ job.who \in who

Below(n) == [i \in DOMAIN Obj(n).items |-> Obj(n).items[i].to]

\* The objects that are of JSON and, as trees, at most so many levels deep.
Fits[levels \in 0..MaxDepth + 1] ==
    IF levels = 0 THEN {}
    ELSE {n \in DOMAIN job.heap : JsonObject(n) /\ Range(Below(n)) \subseteq Fits[levels - 1]}

SumOf(numbers) ==
    LET sum[n \in 0..Len(numbers)] == IF n = 0 THEN 0 ELSE sum[n - 1] + numbers[n]
    IN sum[Len(numbers)]

\* The size of the tree of so many levels below an object, which counts what is
\* shared once for each path to it, and containers twice.
Size[levels \in 0..MaxDepth + 1] ==
    [n \in DOMAIN job.heap |->
        IF levels = 0 THEN 0
        ELSE Cost(n) + SumOf([i \in DOMAIN Below(n) |-> Size[levels - 1][Below(n)[i]]])]

WithinLimits == 1 \in Fits[MaxDepth + 1] /\ Size[MaxDepth + 1][1] <= MaxNodes

\* Both walks accept exactly the documents within the limits: what is shared
\* but not cyclic is no cycle, what is cyclic is refused, and what the package
\* writes the exported script accepts.
WalkIsExact ==
    Walked({"schema", "script"}) => (verdict = "accepted" <=> WithinLimits)

Occurs(part, text) ==
    \E i \in 1..Len(text) : /\ part # <<>> /\ i + Len(part) - 1 <= Len(text)
                            /\ SubSeq(text, i, i + Len(part) - 1) = part

\* No configured text and no token is left, in a value or a name, wherever
\* replacing one cuts another; and of a denied path, and of what has a secret
\* key on a path that is not allowed, the value is gone.  (Unless a configured
\* text occurs in a name on that path: the rules see the replaced name.)
NothingSecretIsLeft ==
    Walked({"redactor"}) /\ verdict = "accepted" => \A o \in out :
        LET clean == \A name \in Range(o.raw) : ReplacedText(name) = name
            secret == o.key # NoKey /\ Contains(Last(o.raw), "s")
                      /\ ~Covered(o.raw, job.policy.allow)
        IN /\ \A text \in Range(o.path) \union {o.value} :
                 \A c \in Range(job.policy.texts) \union {Token} : ~Occurs(c.text, text)
           /\ clean /\ o.raw # <<>> /\ (Covered(o.raw, job.policy.deny) \/ secret) =>
                 o.value = Marker

PlainValue(object) ==
    IF object.type \in Containers THEN <<object.type>>
    ELSE IF object.type = "text" THEN object.text ELSE <<object.type>>

\* A report of no replacements, which makes a recording eligible for replay, is
\* made exactly when names and values are all the original ones; and no two
\* fields become one.
ReportIsTrue ==
    Walked({"redactor"}) /\ verdict = "accepted" =>
        /\ replacements = 0 <=>
              \A o \in out : o.path = o.raw /\ o.value = PlainValue(Obj(o.node))
        /\ Cardinality({o.path : o \in out}) = nodes

\* Python's reading of a pattern: in a class, a "]" that comes first, or after
\* the "^" that comes first, is one of the class.
PythonClass(s, c) ==
    CASE ~s.escaped /\ c = "\\" -> s.class
      [] ~s.escaped /\ c = "[" /\ s.class = "out" -> "first"
      [] ~s.escaped /\ c = "^" /\ s.class = "first" -> "after ^"
      [] ~s.escaped /\ c = "]" /\ s.class = "in" -> "out"
      [] OTHER -> IF s.class = "out" THEN "out" ELSE "in"

PythonStep(s, c) ==
    [escaped |-> ~s.escaped /\ c = "\\",
     class |-> PythonClass(s, c),
     count |-> IF ~s.escaped /\ s.class = "out" /\ c \in Quantifiers THEN s.count + 1 ELSE s.count]

PythonCount(pattern) ==
    LET state[n \in 0..Len(pattern)] ==
            IF n = 0 THEN [escaped |-> FALSE, class |-> "out", count |-> 0]
            ELSE PythonStep(state[n - 1], pattern[n])
    IN state[Len(pattern)].count

\* An accepted pattern has one quantifier at most as Python reads it, although
\* the code does not read classes as Python does.
QuantifiersAreNotMissed ==
    Walked({"pattern"}) /\ verdict = "accepted" => PythonCount(job.pattern) <= 1
===============================================================================

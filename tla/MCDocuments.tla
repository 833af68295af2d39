------------------------------ MODULE MCDocuments ------------------------------
(* Instances of Documents.                                                 *)
EXTENDS Documents

Leaf(type, text) == [type |-> type, items |-> <<>>, text |-> text]
Holds(type, items) == [type |-> type, items |-> items, text |-> <<>>]
Item(key, to) == [key |-> key, to |-> to]

AllLetters == {"k", "l", "s", "c", "d", "e", "t", "x", "\\", "[", "]", "*", "^", "(", ")", "1"}
Positions == <<<<"[0]">>, <<"[1]">>>>

NoPolicy == [texts |-> <<>>, deny |-> {}, allow |-> {}]
Job(who, heap, policy, pattern) ==
    [who |-> who, heap |-> heap, policy |-> policy, pattern |-> pattern]

-----------------------------------------------------------------------------
(* Walks.                                                                  *)

\* Lists of at most two of the objects in `to'.
Lists(to) ==
    {Holds("list", <<>>)}
    \union {Holds("list", <<Item(NoKey, a)>>) : a \in to}
    \union {Holds("list", <<Item(NoKey, a), Item(NoKey, b)>>) : a, b \in to}

\* Four objects that refer to later ones alone, and three that refer to any.
Trees ==
    {<<a, b, c, d>> :
        a \in Lists(2..4), b \in Lists(3..4) \union {Leaf("text", <<>>)},
        c \in Lists({4}), d \in {Leaf("text", <<>>), Leaf("bytes", <<>>), Leaf("list", <<>>),
                                 Leaf("long", <<>>), Holds("dict", <<Item(NotStr, 4)>>)}}
Graphs3 == {<<a, b, c>> : a \in Lists(1..3), b \in Lists(1..3), c \in Lists({1, 2})}

\* What json.loads gives has string keys and no bytes.
Loaded(heap) == heap[4].type \in {"text", "list", "long"}

Walks ==
    {Job("schema", h, NoPolicy, <<>>) : h \in Trees \union Graphs3}
    \union {Job("script", h, NoPolicy, <<>>) : h \in {t \in Trees : Loaded(t)}}

-----------------------------------------------------------------------------
(* Redactions.                                                             *)

Keys == {<<"k">>, <<"l">>, <<"s">>, <<"c", "d">>, <<"c", "s">>, NotStr}
Texts == {<<"l">>, <<"c", "d", "e">>, <<"d", "c", "d", "c", "d">>, <<"t", "l", "c", "d">>}
Leaves == {Leaf("text", t) : t \in Texts} \union {Leaf("bytes", t) : t \in {<<"l">>, <<"t">>}}
          \union {Leaf("number", <<>>), Leaf("other", <<>>), Leaf("long", <<>>)}

\* A field of its own and a value below another field, in a list or a mapping;
\* or a mapping that holds itself.
Fields ==
    {<<Holds("dict", <<Item(k, 2), Item(l, 3)>>), v, w>> :
        k \in Keys, l \in {<<"l">>, <<"t">>}, v \in Leaves,
        w \in {Leaf("text", <<"c">>), Holds("list", <<Item(NoKey, 2)>>),
               Holds("dict", <<Item(<<"k">>, 2), Item(NotStr, 2)>>),
               Holds("dict", <<Item(<<"s">>, 2), Item(<<"l">>, 1)>>)}}

First == [text |-> <<"c", "d">>, marker |-> "#1"]
Policies ==
    {NoPolicy}
    \union {[texts |-> t, deny |-> d, allow |-> a] :
        t \in {<<First>>, <<First, [text |-> <<"d", "c">>, marker |-> "#2"]>>,
               <<[text |-> <<"d", "e">>, marker |-> "#2"], [text |-> <<"c">>, marker |-> "#1"]>>,
               <<[text |-> <<>>, marker |-> "#2"], First>>},
        d \in {{}, {<<<<"l">>>>}, {<<<<"l">>, <<"[0]">>>>, <<<<"c", "d">>>>}},
        a \in {{}, {<<<<"s">>>>, <<<<"l">>>>}}}

Redactions == {Job("redactor", h, p, <<>>) : h \in Fields, p \in Policies}

-----------------------------------------------------------------------------
(* Patterns of at most five characters.                                    *)

Characters == {"\\", "[", "]", "*", "^"}
Patterns == UNION {[1..n -> Characters] : n \in 0..5}

SomeJobs ==
    Walks \union Redactions
    \union {Job("pattern", <<>>, NoPolicy, p) : p \in Patterns \union {<<"(", "x", ")">>, <<"\\", "1">>}}
===============================================================================

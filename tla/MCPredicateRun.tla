--------------------------- MODULE MCPredicateRun ---------------------------
(* Instances of PredicateRun: what the children of a call do.              *)
EXTENDS PredicateRun

Script(out, err, end) == [writes |-> <<out, err>>, end |-> end]

\* Silent, within the limit of two units, at it on one stream and on both, one
\* unit over it, more than the pipes and the drain threads hold, and every way
\* to end.
FirstScripts ==
    {Script(1, 1, "exit_0"), Script(0, 2, "exit_1"), Script(1, 0, "exit_2"),
     Script(2, 1, "exit_0"), Script(0, 1, "signal"), Script(0, 0, "hang"),
     Script(3, 2, "hang"), Script(0, 0, "unexpected_exit")}

\* Every script in the first trial, before a trial of each verdict.
TwoTrials ==
    {<<first, Script(0, 0, end)>> :
        first \in FirstScripts, end \in {"exit_0", "exit_1", "exit_2"}}
=============================================================================

---------------------------- MODULE MCTraceCapture ----------------------------
(* Traces are interchangeable.                                               *)
EXTENDS CaptureCommand

Name(word, upper, secret) == [word |-> word, upper |-> upper, secret |-> secret]
A == Name("a", FALSE, FALSE)
UpperA == Name("a", TRUE, FALSE)
Secret == Name("s", FALSE, TRUE)
UpperSecret == Name("s", TRUE, TRUE)

Request(target, flaw, files, names) ==
    [target |-> target, flaw |-> flaw, files |-> files, names |-> names]

SomeRequests ==
    {Request(t, f, <<>>, <<>>) : t \in {"python", "launcher"},
                                 f \in {"none"} \union CommandFlaws \union BootstrapFlaws}
    \union {Request("python", "none", f, <<A, Secret>>) :
               f \in {<<A, Secret>>, <<A, UpperA>>, <<Secret, UpperSecret>>, <<A, A>>}}

\* A file may have grown, or be missing, by the end of the trace.
SomeDisks ==
    {[n \in {A, UpperA, Secret, UpperSecret} |-> 1],
     [n \in {A, UpperA, Secret, UpperSecret} |-> IF n = A THEN 3 ELSE 1],
     [n \in {A, Secret} |-> IF n = A THEN 2 ELSE 1],
     [n \in {A} |-> 0]}

EventNames == [n \in 0..2 * MaxStarts |-> "e" \o ToString(n)]

Symmetry == Permutations(Trace)
===============================================================================

---------------------------- MODULE MCPublication ----------------------------
(* Invocations, capsules and outputs are interchangeable.                    *)
EXTENDS Commands, TLC

Symmetry == Permutations(Process) \union Permutations(Digest)
                \union Permutations(Output)
===============================================================================

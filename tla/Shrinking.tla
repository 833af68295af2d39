------------------------------ MODULE Shrinking -------------------------------
(***************************************************************************)
(* What delta debugging promises, with nothing of how it searches: starting *)
(* from a set of items that reproduces the failure, each step replaces it   *)
(* by a smaller set that reproduces it too, and the search stops only where *)
(* no single item can be deleted.  Contract of ddmin() in                   *)
(* src/src/reprosieve/ddmin.py, which module Ddmin implements.              *)
(***************************************************************************)
VARIABLES
    verdict,  \* the predicate: what is answered for each set of items
    kept,     \* the items not deleted yet
    status

Init == status = "unchecked"

\* The first call decides whether there is a failure to shrink at all.
Start ==
    /\ status = "unchecked"
    /\ verdict[kept] = "reproduces"
    /\ status' = "shrinking"
    /\ UNCHANGED <<verdict, kept>>

Refuse ==
    /\ status = "unchecked"
    /\ verdict[kept] # "reproduces"
    /\ status' = "raised"
    /\ UNCHANGED <<verdict, kept>>

Shrink ==
    /\ status = "shrinking"
    /\ kept' \subseteq kept
    /\ kept' # kept
    /\ verdict[kept'] = "reproduces"
    /\ UNCHANGED <<verdict, status>>

Finish ==
    /\ status = "shrinking"
    /\ \A x \in kept : verdict[kept \ {x}] # "reproduces"
    /\ status' = "done"
    /\ UNCHANGED <<verdict, kept>>

Next == Start \/ Refuse \/ Shrink \/ Finish

Spec == Init /\ [][Next]_<<verdict, kept, status>>
===============================================================================

------------------------------ MODULE MCAppReplay ------------------------------
(* The plain requests are interchangeable: none of them is secret.  The odd   *)
(* ones have something each that is not supported.                           *)
EXTENDS AppReplay

CONSTANTS Plain

PlainAndOdd == Plain \union OddRequests
Shapes == [ask \in PlainAndOdd |-> IF ask \in Plain THEN PlainRequest ELSE ask]
Symmetry == Permutations(Plain)
===============================================================================

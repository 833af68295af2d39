----------------------------- MODULE MCToolClaims -----------------------------
(* Sessions, tools and handlers are interchangeable.                         *)
EXTENDS ToolClaims, TLC

Symmetry == Permutations(Session) \union Permutations(Tool)
                \union Permutations(Handler)
===============================================================================

--------------------------- MODULE MCNodeCounter ---------------------------
(***************************************************************************)
(* Two calls of Optimize, the searches of which enter decompose two and    *)
(* three times.                                                            *)
(***************************************************************************)
EXTENDS NodeCounter

CONSTANTS g1, g2

MCEntries == [g \in {g1, g2} |-> IF g = g1 THEN 2 ELSE 3]
=============================================================================

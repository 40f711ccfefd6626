--------------------------- MODULE MCProjectPool ----------------------------
(* ProjectPool on small instances, for TLC: the values are in the cfgs.    *)
EXTENDS ProjectPool

CONSTANTS m1, m2

\* A model that fills a batch exactly, and one that fills none.
MCObjects == [m \in Models |-> IF m = m1 THEN 2 ELSE 1]
=============================================================================

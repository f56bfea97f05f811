------------------------------ MODULE MCEdges ------------------------------
(* Instances of Edges for TLC. *)
EXTENDS Edges

CONSTANTS x, y, ydot   \* ydot is y with a dot for its underscore

MCSafe(k) == IF k = ydot THEN y ELSE k
=============================================================================

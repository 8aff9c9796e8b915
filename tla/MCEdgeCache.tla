---------------------------- MODULE MCEdgeCache ----------------------------
(* Two writers and two requests over one document of each kind. *)
EXTENDS EdgeCache, TLC

CONSTANTS e1, e2, v1, v2

MCEditors  == {e1, e2}
MCVisitors == {v1, v2}
MCSymmetry == Permutations(MCEditors) \cup Permutations(MCVisitors)
=============================================================================

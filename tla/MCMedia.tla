------------------------------- MODULE MCMedia -------------------------------
(* Small instances of Media for TLC. *)
EXTENDS Media, TLC

CONSTANTS f1, f2, p1, g1, r1, r2, w1, w2

\* Files, rows and workers are told apart by nothing but their names.
MediaSymmetry == Permutations({f1, f2}) \cup Permutations({w1, w2})
                 \cup Permutations({r1, r2})
=============================================================================

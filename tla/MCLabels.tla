------------------------------ MODULE MCLabels ------------------------------
(***************************************************************************)
(* Small instances of Labels: two requests at a time, a few purchases.     *)
(***************************************************************************)
EXTENDS Labels, TLC

CONSTANTS w1, w2 \* workers

WorkerSymmetry == Permutations(Workers)
=============================================================================

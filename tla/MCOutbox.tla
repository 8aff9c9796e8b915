------------------------------ MODULE MCOutbox ------------------------------
(***************************************************************************)
(* Small instances of Outbox: two passes at a time and one reissue.        *)
(***************************************************************************)
EXTENDS Outbox, TLC

CONSTANTS w1, w2 \* workers

WorkerSymmetry == Permutations(Workers)
=============================================================================

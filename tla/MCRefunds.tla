----------------------------- MODULE MCRefunds -----------------------------
(***************************************************************************)
(* Small instances of Refunds: a charge of three units, refunded in part   *)
(* and then in full, and one or two requests at a time.                    *)
(***************************************************************************)
EXTENDS Refunds, TLC

CONSTANTS part, full, odd, \* events
          w1, w2           \* workers

WorkerSymmetry == Permutations(Workers)

MCCum == part :> 2 @@ full :> 3
MCCumFull == full :> 3
MCCumOdd == odd :> 1 @@ full :> 3
=============================================================================

---------------------------- MODULE RefundLedger ----------------------------
(***************************************************************************)
(* What the refund code promises of one paid order, without saying how: a  *)
(* total that follows what the provider returned and never runs ahead of   *)
(* it; what people returned by hand, which fits the balance when it is     *)
(* recorded and may be voided; an order that is closed exactly while the   *)
(* two cover it; and a customer who is told of each cent once, after it    *)
(* was recognised.  Refunds.tla is shown to implement this module.         *)
(***************************************************************************)
EXTENDS Integers

CONSTANT Total \* what was paid

VARIABLES returned,   \* what the provider has returned
          counted,    \* what the order says of that
          byHand,     \* what people returned, as far as it stands
          recognised, \* all that was ever counted or recorded
          covered,    \* the order is closed as refunded
          told        \* what the customer was told of

refundVars == <<returned, counted, byHand, recognised, covered, told>>

RefundInit ==
    /\ returned = 0 /\ counted = 0 /\ byHand = 0 /\ recognised = 0
    /\ covered = FALSE
    /\ told = 0

\* Whatever moves a total says at once whether the two cover the order.
Close == covered' = (counted' + byHand' >= Total)

\* In the provider's dashboard, or for a form of the store.
Return ==
    /\ returned' \in (returned + 1) .. Total
    /\ UNCHANGED <<counted, byHand, recognised, covered, told>>

\* Up to what was returned, at once or in part, and never back.
Count ==
    /\ counted' \in (counted + 1) .. returned
    /\ recognised' = recognised + (counted' - counted)
    /\ Close
    /\ UNCHANGED <<returned, byHand, told>>

Record ==
    /\ byHand' \in (byHand + 1) .. (Total - counted)
    /\ recognised' = recognised + (byHand' - byHand)
    /\ Close
    /\ UNCHANGED <<returned, counted, told>>

\* What was recorded in error no longer stands, though it was recognised.
Void ==
    /\ byHand' \in 0 .. (byHand - 1)
    /\ Close
    /\ UNCHANGED <<returned, counted, recognised, told>>

Tell ==
    /\ told' \in (told + 1) .. recognised
    /\ UNCHANGED <<returned, counted, byHand, recognised, covered>>

RefundNext == Return \/ Count \/ Record \/ Void \/ Tell

RefundSpec == RefundInit /\ [][RefundNext]_refundVars
=============================================================================

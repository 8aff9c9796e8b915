--------------------------- MODULE MCCheckoutLive ---------------------------
(***************************************************************************)
(* Two buyers of the last unit of one product, for the liveness of         *)
(* Checkout: a Stripe session, and beside it a Lightning invoice or an     *)
(* OpenNode charge, whichever buyer comes first.                           *)
(***************************************************************************)
EXTENDS Checkout, TLC

CONSTANTS invoice, charge, session, \* checkouts
          p                         \* the product

MCCart == [c \in Checkouts |-> p :> 1]
MCInitial == p :> 1
MCRails == invoice :> "lightning" @@ charge :> "opennode" @@ session :> "stripe"

\* A bound of the run.  No fair action starts a checkout, so fairness asks for no step
\* that the bound cuts off.
TwoBuyers == stage[invoice] = "new" \/ stage[charge] = "new"
=============================================================================

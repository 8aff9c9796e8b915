----------------------------- MODULE MCCheckout -----------------------------
(***************************************************************************)
(* Small instances of Checkout: three buyers, one scarce product and one   *)
(* variant, one rail per buyer.                                            *)
(***************************************************************************)
EXTENDS Checkout, TLC

CONSTANTS a, b, d, \* checkouts
          p, v     \* stock targets

\* Two units of p are enough for two of the three carts, one of v for one.
MCCart == a :> (p :> 1 @@ v :> 1) @@ b :> (p :> 1 @@ v :> 0)
            @@ d :> (p :> 1 @@ v :> 1)
MCInitial == p :> 2 @@ v :> 1

\* Two self-rendered buyers compete for the last unit of v.
MCRailsMixed == a :> "lightning" @@ b :> "opennode" @@ d :> "demo"
=============================================================================

---------------------------- MODULE StockLedger ----------------------------
(***************************************************************************)
(* What the reservation code promises about finite stock, without saying   *)
(* how: a checkout takes its whole cart off the shelf or nothing; what it  *)
(* took is either sold once or given back once; and a sale that arrives    *)
(* after the units were given back takes no more than the shelf still      *)
(* holds.  Checkout.tla is shown to implement this module.                 *)
(***************************************************************************)
EXTENDS Naturals

CONSTANTS Checkouts, \* one per attempted sale
          Targets,   \* finite stock rows: a product or a variant
          Cart,      \* Cart[c][t]: units of t that checkout c asks for
          Initial    \* Initial[t]: units on the shelf to begin with

VARIABLES shelf,     \* shelf[t]: units not promised to anybody
          phase      \* phase[c]: where the units of checkout c are

ledgerVars == <<shelf, phase>>

Phases == {"idle", "held", "sold", "returned"}

LedgerInit == /\ shelf = Initial
              /\ phase = [c \in Checkouts |-> "idle"]

\* The whole cart or nothing.
Hold(c) == /\ phase[c] = "idle"
           /\ \A t \in Targets : shelf[t] >= Cart[c][t]
           /\ shelf' = [t \in Targets |-> shelf[t] - Cart[c][t]]
           /\ phase' = [phase EXCEPT ![c] = "held"]

GiveBack(c) == /\ phase[c] = "held"
               /\ shelf' = [t \in Targets |-> shelf[t] + Cart[c][t]]
               /\ phase' = [phase EXCEPT ![c] = "returned"]

\* The units left the shelf when they were held.
Sell(c) == /\ phase[c] = "held"
           /\ phase' = [phase EXCEPT ![c] = "sold"]
           /\ UNCHANGED shelf

\* A payment confirmed after the units went back: at most the cart, and
\* never more than there is.
SellLate(c) == /\ phase[c] = "returned"
               /\ phase' = [phase EXCEPT ![c] = "sold"]
               /\ shelf' = [t \in Targets |-> shelf'[t]]
               /\ \A t \in Targets :
                    /\ shelf'[t] \in Nat
                    /\ shelf'[t] <= shelf[t]
                    /\ shelf[t] <= shelf'[t] + Cart[c][t]

LedgerNext == \E c \in Checkouts :
                 Hold(c) \/ GiveBack(c) \/ Sell(c) \/ SellLate(c)

LedgerSpec == LedgerInit /\ [][LedgerNext]_ledgerVars
=============================================================================

---------------------------- MODULE LabelPurchase ----------------------------
(***************************************************************************)
(* What the label code promises of one order, without saying how: one      *)
(* purchase at a time; each ends once, in a trail that says what became of *)
(* the money; one that was bought is for good; and only a purchase that    *)
(* has not ended may be sent to the carrier, or one that a person gave up  *)
(* without knowing.  Labels.tla is shown to implement this module.         *)
(***************************************************************************)

CONSTANTS Claims, \* purchases attempted
          NoClaim

VARIABLES current, \* the purchase under way, or the one that was bought
          outcome, \* outcome[c]: what the trail says of c, or "none"
          money    \* money[c]: what became of the charge for c

purchaseVars == <<current, outcome, money>>

Charges == {"unasked", "possible", "refused", "taken", "returned"}

PurchaseInit ==
    /\ current = NoClaim
    /\ outcome = [c \in Claims |-> "none"]
    /\ money = [c \in Claims |-> "unasked"]

\* A purchase begins when there is none, and one is not begun again.
Begin(c) ==
    /\ current = NoClaim
    /\ outcome[c] = "none" /\ money[c] = "unasked"
    /\ current' = c
    /\ UNCHANGED <<outcome, money>>

Charge(c, from, to) ==
    /\ money[c] \in from
    /\ money' = [money EXCEPT ![c] = to]
    /\ UNCHANGED <<current, outcome>>

Ask(c) ==
    /\ \/ current = c /\ outcome[c] = "none"
       \/ outcome[c] = "force_discarded"
    /\ Charge(c, {"unasked"}, "possible")

Judge(c) == Charge(c, {"possible"}, "taken") \/ Charge(c, {"possible"}, "refused")
Return(c) == Charge(c, {"taken"}, "returned")

\* The purchase ends: what the trail says of it is so, and stays so.
Finish(c, as, known, next) ==
    /\ current = c /\ outcome[c] = "none"
    /\ money[c] \in known
    /\ outcome' = [outcome EXCEPT ![c] = as]
    /\ current' = next
    /\ UNCHANGED money

Bought(c) == Finish(c, "purchased", {"taken", "returned"}, c)
Failed(c) == Finish(c, "failed", {"unasked", "refused"}, NoClaim)
Refunded(c) == Finish(c, "refunded", {"returned"}, NoClaim)

\* A person gives it up, whatever became of the money.
GiveUp(c) == Finish(c, "force_discarded", Charges, NoClaim)

PurchaseNext ==
    \E c \in Claims :
        \/ Begin(c) \/ Ask(c) \/ Judge(c) \/ Return(c)
        \/ Bought(c) \/ Failed(c) \/ Refunded(c) \/ GiveUp(c)

PurchaseSpec == PurchaseInit /\ [][PurchaseNext]_purchaseVars
=============================================================================

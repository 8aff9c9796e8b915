------------------------------ MODULE Checkout ------------------------------
(***************************************************************************)
(* Checkout, reservation and settlement of a store order.                  *)
(*                                                                         *)
(* A checkout claims an order identity, takes a hold on its stock, opens a *)
(* payment with one of four rails and hands the buyer a URL.  The order is *)
(* written by whoever first learns of the payment: a provider webhook, the *)
(* self-rendered pay page, or the demo form.  Meanwhile holds are given    *)
(* back by provider events, by the clock, and by a checkout that undoes    *)
(* itself.  All of them are requests of a Worker over one D1 database:     *)
(* a single statement or a db.batch is atomic, and everything else         *)
(* interleaves at each await.  One action below is one such atomic step.   *)
(***************************************************************************)
EXTENDS Naturals, FiniteSets, Functions

CONSTANTS Checkouts,    \* checkout attempts; each has one ord_ public id
          Targets,      \* finite stock rows: a product or a variant
          Cart,         \* Cart[c][t]: quantity, lines of one target combined
          Initial,      \* Initial[t]: stock before the first checkout
          Rail,         \* Rail[c]: the payment method of checkout c
          LateRails,    \* rails that may report a payment after its expiry
          Members,      \* checkouts priced with a membership benefit
          MaxInFlight   \* bound: settlements between their read and batch

Rails == {"stripe", "opennode", "lightning", "demo"}

ASSUME CheckoutAssumption ==
    /\ Cart \in [Checkouts -> [Targets -> Nat]]
    /\ Initial \in [Targets -> Nat]
    /\ Rail \in [Checkouts -> Rails]
    /\ LateRails \subseteq {"stripe", "opennode"}
    /\ Members \subseteq Checkouts
    /\ MaxInFlight \in Nat \ {0}

VARIABLES
    stock,     \* products.stock / product_variants.stock
    hold,      \* checkout_reservations.status, "none" without a row
    orders,    \* checkouts with a row in orders
    sale,      \* what the order row and its item rows carry
    pending,   \* pending_payments.status, "none" without a row
    guest,     \* the order_guest_access row
    stage,     \* where the POST /api/checkout request of c stands
    listed,    \* due holds that request has read and has yet to release
    due,       \* checkouts whose reservation.expires_at has passed
    closed,    \* checkouts whose pending_payments.expires_at has passed
    pay,       \* the provider's own view of the payment
    events,    \* provider events of c that may be delivered, and again
    inFlight   \* settlements that have read and have yet to run their batch

dbVars == <<stock, hold, orders, sale, pending, guest>>
requestVars == <<stage, listed, inFlight>>
worldVars == <<due, closed, pay, events>>
vars == <<stock, hold, orders, sale, pending, guest, stage, listed, due,
          closed, pay, events, inFlight>>

-----------------------------------------------------------------------------
(* Vocabulary *)

Live == {"active", "payment_pending"}
SettleableNotExpired == Live \cup {"failed"} \* a slip: see the next section
Settleable == Live \cup {"expired", "failed"}
HoldStates == Settleable \cup {"none", "settled", "released"}

\* Rails that are settled on the store's own /pay page, and whose holds the
\* store may therefore expire by its own clock.
SelfRendered == {"lightning", "demo"}

\* Rails whose checkout is a row of pending_payments.
PendingRails == {"opennode", "lightning", "demo"}

Running == {"claimed", "sweeping", "held", "session", "ready", "undo", "undone"}
Stages == Running \cup {"new", "open", "ended"}
Events == {"paid", "pending", "expired", "failed"}

\* A settlement between its read and its batch.  "seen" is the reservation
\* status it read; the pay page of the Lightning rail reads none.
Settlements == [who : Checkouts,
                path : {"webhook", "onload", "demo"},
                seen : Settleable \cup {"unread"}]

Nothing == [t \in Targets |-> 0]
Least(a, b) == IF a <= b THEN a ELSE b

\* taken: units that left the shelf for this order; short: the shortfall of
\* its inventory exceptions; items: whose line snapshot was written (only the
\* reservation's has file keys and published item ids); member: whether the
\* membership snapshot reached the order.
Sales == [taken : [Targets -> Nat], short : [Targets -> Nat],
          items : {"none", "reservation", "pending"}, member : BOOLEAN]
NoSale == [taken |-> Nothing, short |-> Nothing, items |-> "none",
           member |-> FALSE]

TypeOK ==
    /\ stock \in [Targets -> Nat]
    /\ hold \in [Checkouts -> HoldStates]
    /\ orders \subseteq Checkouts
    /\ sale \in [Checkouts -> Sales]
    /\ pending \in [Checkouts -> {"none", "pending", "settled"}]
    /\ guest \in [Checkouts -> {"absent", "open", "hidden"}]
    /\ stage \in [Checkouts -> Stages]
    /\ listed \in [Checkouts -> SUBSET Checkouts]
    /\ due \subseteq Checkouts
    /\ closed \subseteq Checkouts
    /\ pay \in [Checkouts -> {"none", "open", "processing", "paid", "dead"}]
    /\ events \in [Checkouts -> SUBSET Events]
    /\ inFlight \subseteq Settlements

Init ==
    /\ stock = Initial
    /\ hold = [c \in Checkouts |-> "none"]
    /\ orders = {}
    /\ sale = [c \in Checkouts |-> NoSale]
    /\ pending = [c \in Checkouts |-> "none"]
    /\ guest = [c \in Checkouts |-> "absent"]
    /\ stage = [c \in Checkouts |-> "new"]
    /\ listed = [c \in Checkouts |-> {}]
    /\ due = {}
    /\ closed = {}
    /\ pay = [c \in Checkouts |-> "none"]
    /\ events = [c \in Checkouts |-> {}]
    /\ inFlight = {}

-----------------------------------------------------------------------------
(* Giving a hold back: one guarded batch, whoever asks for it *)

\* Slips a change to this code could make; each breaks a property below, and
\* none of them is used by the specification.
ReleaseUnguarded(c, terminal) ==
    /\ stock' = [t \in Targets |-> stock[t] + Cart[c][t]]
    /\ hold' = IF hold[c] \in Live THEN [hold EXCEPT ![c] = terminal] ELSE hold
ReleaseAnyStatus(c, terminal) ==
    /\ stock' = [t \in Targets |-> stock[t] + Cart[c][t]]
    /\ hold' = [hold EXCEPT ![c] = terminal]
DueHoldsOfAnyRail == {c \in Checkouts : hold[c] = "active" /\ c \in due}
DueHoldsOfDemo == {c \in DueHoldsOfAnyRail : Rail[c] = "demo"}
AvailableSomewhere(c) == \E t \in Targets : stock[t] >= Cart[c][t]
NoGrace(c) == TRUE
BeginMarksPending(c, path, seen) ==
    /\ inFlight' = inFlight \cup {[who |-> c, path |-> path, seen |-> seen]}
    /\ pending' = [pending EXCEPT ![c] = "settled"]
    /\ UNCHANGED <<stock, hold, orders, sale, guest, stage, listed, worldVars>>
SkipStockAlways(q) == TRUE
LateTakeUnclamped(c) == Cart[c]
DeleteAnyUnordered(c) ==
    /\ guest[c] # "absent"
    /\ c \notin orders
    /\ guest' = [guest EXCEPT ![c] = "absent"]
    /\ UNCHANGED <<stock, hold, orders, sale, pending, requestVars, worldVars>>

\* Units return and the status becomes terminal only while the hold is live,
\* so of any number of concurrent releases at most one moves stock.
Release(c, terminal) ==
    \/ /\ hold[c] \in Live
       /\ stock' = [t \in Targets |-> stock[t] + Cart[c][t]]
       /\ hold' = [hold EXCEPT ![c] = terminal]
    \/ /\ hold[c] \notin Live
       /\ UNCHANGED <<stock, hold>>

\* Only self-rendered holds may go by the store's clock.
DueHolds == {c \in Checkouts : /\ Rail[c] \in SelfRendered
                               /\ hold[c] = "active"
                               /\ c \in due}

\* The cron sweep and the status route.  Both read a due hold and release it
\* in a later batch; a hold never becomes live again, so the batch's own guard
\* makes the pair one step at the moment of the batch.
SweepExpired(c) ==
    /\ c \in DueHolds
    /\ Release(c, "expired")
    /\ UNCHANGED <<orders, sale, pending, guest, requestVars, worldVars>>

-----------------------------------------------------------------------------
(* POST /api/checkout *)

ClaimOrderIdentity(c) ==
    /\ stage[c] = "new"
    /\ stage' = [stage EXCEPT ![c] = "claimed"]
    /\ guest' = [guest EXCEPT ![c] = "open"]
    /\ UNCHANGED <<stock, hold, orders, sale, pending, listed, inFlight,
                   worldVars>>

\* reserveInventory begins by reading the due holds ...
ListExpired(c) ==
    /\ stage[c] = "claimed"
    /\ stage' = [stage EXCEPT ![c] = "sweeping"]
    /\ listed' = [listed EXCEPT ![c] = DueHolds]
    /\ UNCHANGED <<dbVars, inFlight, worldVars>>

\* ... and gives each of them back, in a batch of its own.
ReleaseListed(c) ==
    /\ stage[c] = "sweeping"
    /\ \E d \in listed[c] :
          /\ Release(d, "expired")
          /\ listed' = [listed EXCEPT ![c] = @ \ {d}]
    /\ UNCHANGED <<orders, sale, pending, guest, stage, inFlight, worldVars>>

Available(c) == \A t \in Targets : stock[t] >= Cart[c][t]

\* One batch: the row is inserted only if every target has the units, and
\* every decrement is conditional on the row.
Reserve(c) ==
    /\ stage[c] = "sweeping"
    /\ listed[c] = {}
    /\ Available(c)
    /\ hold' = [hold EXCEPT ![c] = "active"]
    /\ stock' = [t \in Targets |-> stock[t] - Cart[c][t]]
    /\ stage' = [stage EXCEPT ![c] = "held"]
    /\ UNCHANGED <<orders, sale, pending, guest, listed, inFlight, worldVars>>

RefuseReserve(c) ==
    /\ stage[c] = "sweeping"
    /\ listed[c] = {}
    /\ ~Available(c)
    /\ stage' = [stage EXCEPT ![c] = "undone"]
    /\ UNCHANGED <<dbVars, listed, inFlight, worldVars>>

\* After the OpenNode charge, or the Lightning invoice, comes the pending row.
AfterSession(c) == IF Rail[c] \in PendingRails THEN "session" ELSE "ready"

\* The Stripe session, the OpenNode charge or the Lightning invoice.
CreateProviderSession(c) ==
    /\ stage[c] = "held"
    /\ Rail[c] # "demo"
    /\ pay' = [pay EXCEPT ![c] = "open"]
    /\ stage' = [stage EXCEPT ![c] = AfterSession(c)]
    /\ UNCHANGED <<dbVars, listed, inFlight, due, closed, events>>

CreatePendingPayment(c) ==
    /\ Rail[c] \in PendingRails
    /\ stage[c] = IF Rail[c] = "demo" THEN "held" ELSE "session"
    /\ pending' = [pending EXCEPT ![c] = "pending"]
    /\ stage' = [stage EXCEPT ![c] = "ready"]
    /\ UNCHANGED <<stock, hold, orders, sale, guest, listed, inFlight,
                   worldVars>>

\* The response with the payment URL, token or invoice reaches the buyer.
HandOver(c) ==
    /\ stage[c] = "ready"
    /\ stage' = [stage EXCEPT ![c] = "open"]
    /\ UNCHANGED <<dbVars, listed, inFlight, worldVars>>

\* createCheckout throws: before it did anything, after the provider made the
\* session, or with the pending row committed and only its reply lost.
CreateFails(c) ==
    /\ stage[c] \in {"held", "session", "ready"}
    /\ stage' = [stage EXCEPT ![c] = "undo"]
    /\ UNCHANGED <<dbVars, listed, inFlight, worldVars>>

UndoHold(c) ==
    /\ stage[c] = "undo"
    /\ Release(c, "released")
    /\ stage' = [stage EXCEPT ![c] = "undone"]
    /\ UNCHANGED <<orders, sale, pending, guest, listed, inFlight, worldVars>>

\* deleteGuestAccessIfUnsettled, after a refusal or an undone hold.
UndoAccess(c) ==
    /\ stage[c] = "undone"
    /\ guest' = IF c \in orders THEN guest ELSE [guest EXCEPT ![c] = "absent"]
    /\ stage' = [stage EXCEPT ![c] = "ended"]
    /\ UNCHANGED <<stock, hold, orders, sale, pending, listed, inFlight,
                   worldVars>>

\* The Worker is gone between two steps of the request: nothing is undone.
CheckoutDies(c) ==
    /\ stage[c] \in Running
    /\ stage' = [stage EXCEPT ![c] = "ended"]
    /\ listed' = [listed EXCEPT ![c] = {}]
    /\ UNCHANGED <<dbVars, inFlight, worldVars>>

-----------------------------------------------------------------------------
(* Time.  Only the order of two instants matters: when a hold falls due and  *)
(* when its payment window closes.                                           *)

\* A Lightning hold lives five minutes longer than its invoice, more than one
\* page load or checkout request lasts.  A Demo hold has no such grace: it was
\* written before the pending row and falls due first.
GraceOver(c) ==
    IF Rail[c] = "lightning"
    THEN /\ pending[c] # "none" => c \in closed
         /\ \A q \in inFlight : ~(q.who = c /\ q.path = "onload")
    ELSE TRUE

HoldFallsDue(c) ==
    /\ hold[c] # "none"
    /\ stage[c] \notin Running
    /\ c \notin due
    /\ GraceOver(c)
    /\ due' = due \cup {c}
    /\ UNCHANGED <<dbVars, requestVars, closed, pay, events>>

PayWindowCloses(c) ==
    /\ Rail[c] \in SelfRendered
    /\ pending[c] # "none"
    /\ stage[c] \notin Running
    /\ c \notin closed
    /\ Rail[c] = "demo" => c \in due
    /\ closed' = closed \cup {c}
    /\ pay' = [pay EXCEPT ![c] = IF @ = "open" THEN "dead" ELSE @]
    /\ UNCHANGED <<dbVars, requestVars, due, events>>

-----------------------------------------------------------------------------
(* The payment provider and the buyer (external) *)

ProviderMoves(c, to, told) ==
    /\ pay' = [pay EXCEPT ![c] = to]
    /\ events' = [events EXCEPT ![c] = @ \cup told]
    /\ UNCHANGED <<dbVars, requestVars, due, closed>>

\* Only a buyer who was handed the URL can pay.
BuyerPays(c) ==
    /\ stage[c] = "open"
    /\ pay[c] = "open"
    /\ ProviderMoves(c, "paid", {"paid"})

\* A delayed method: the session completes while still unpaid.
BuyerPaysLater(c) ==
    /\ Rail[c] = "stripe"
    /\ stage[c] = "open"
    /\ pay[c] = "open"
    /\ ProviderMoves(c, "processing", {"pending"})

PaymentClears(c) == /\ pay[c] = "processing"
                    /\ ProviderMoves(c, "paid", {"paid"})

PaymentFails(c) == /\ pay[c] = "processing"
                   /\ ProviderMoves(c, "dead", {"failed"})

SessionExpires(c) == /\ Rail[c] \notin SelfRendered
                     /\ pay[c] = "open"
                     /\ ProviderMoves(c, "dead", {"expired"})

\* Settlement is written for a payment that arrives after its expiry.
LatePayment(c) == /\ Rail[c] \in LateRails
                  /\ stage[c] = "open"
                  /\ pay[c] = "dead"
                  /\ ProviderMoves(c, "paid", {"paid"})

-----------------------------------------------------------------------------
(* Learning of the payment: read the reservation, then settle in a batch *)

\* OpenNode and Lightning events are matched through the pending row.
Known(c) == Rail[c] \in PendingRails => pending[c] # "none"

ReleaseForgets(c) == \* a slip: the snapshot is not kept for a late payment
    /\ events[c] \cap {"expired", "failed"} # {}
    /\ Known(c)
    /\ Release(c, "released")
    /\ UNCHANGED <<orders, sale, pending, guest, requestVars, worldVars>>

ReleaseWebhook(c) ==
    /\ events[c] \cap {"expired", "failed"} # {}
    /\ Known(c)
    /\ Release(c, "failed")
    /\ UNCHANGED <<orders, sale, pending, guest, requestVars, worldVars>>

PendingWebhook(c) ==
    /\ "pending" \in events[c]
    /\ hold' = IF hold[c] = "active"
               THEN [hold EXCEPT ![c] = "payment_pending"] ELSE hold
    /\ UNCHANGED <<stock, orders, sale, pending, guest, requestVars, worldVars>>

\* markPendingSettled, for a delivery that finds the order already written.
MarkPendingSettled(c) ==
    pending' = IF c \in orders /\ pending[c] # "none"
               THEN [pending EXCEPT ![c] = "settled"] ELSE pending

Begin(c, path, seen) ==
    /\ Cardinality(inFlight) < MaxInFlight
    /\ inFlight' = inFlight \cup {[who |-> c, path |-> path, seen |-> seen]}
    /\ UNCHANGED <<dbVars, stage, listed, worldVars>>

\* Without a settleable reservation the delivery is a repeat of a settled one,
\* or an error the provider will retry.
PaidWebhook(c) ==
    /\ "paid" \in events[c]
    /\ Known(c)
    /\ \/ /\ hold[c] \in Settleable
          /\ Begin(c, "webhook", hold[c])
       \/ /\ hold[c] \notin Settleable
          /\ MarkPendingSettled(c)
          /\ UNCHANGED <<stock, hold, orders, sale, guest, requestVars,
                         worldVars>>

\* The pay page: an order redirects, an expired payment is not settled.
PageSettles(c) == /\ stage[c] = "open"
                  /\ c \notin orders
                  /\ pending[c] # "none"
                  /\ c \notin closed

\* settleLightningOnLoad polls the node and reads no reservation.
ViewPayPage(c) == /\ Rail[c] = "lightning"
                  /\ PageSettles(c)
                  /\ pay[c] = "paid"
                  /\ Begin(c, "onload", "unread")

ApproveDemo(c) == /\ Rail[c] = "demo"
                  /\ PageSettles(c)
                  /\ hold[c] \in Settleable
                  /\ Begin(c, "demo", hold[c])

\* recordPaidOrder decides from what its caller read whether the units still
\* have to leave the shelf.
SkipStock(q) == q.seen \notin {"expired", "failed"}

LateTake(c) == [t \in Targets |-> Least(stock[t], Cart[c][t])]

\* Units that left the shelf for the order: at settlement when it is late, at
\* reservation when the hold is still live, and none when it was given back
\* behind the caller's read.
Taken(q) == IF ~SkipStock(q) THEN LateTake(q.who)
            ELSE IF hold[q.who] \in Live THEN Cart[q.who]
            ELSE Nothing

\* An inventory exception row records what a late settlement found missing.
Shortfall(q) == IF SkipStock(q) THEN Nothing
                ELSE [t \in Targets |-> Cart[q.who][t] - LateTake(q.who)[t]]

\* getReservation selects items and status but not membership_snapshot_json.
ReadsMemberSnapshot(q) == FALSE

SaleOf(q) == [taken |-> Taken(q), short |-> Shortfall(q),
              items |-> IF q.path = "onload" THEN "pending" ELSE "reservation",
              member |-> q.who \in Members /\ ReadsMemberSnapshot(q)]

CanSettle(c) == c \notin orders /\ hold[c] \in Settleable

\* The order batch.  The first delivery claims the order row; everything after
\* it is conditional on that claim.
SettleOrder(q) ==
    /\ q \in inFlight
    /\ CanSettle(q.who)
    /\ orders' = orders \cup {q.who}
    /\ sale' = [sale EXCEPT ![q.who] = SaleOf(q)]
    /\ stock' = IF SkipStock(q) THEN stock
                ELSE [t \in Targets |-> stock[t] - LateTake(q.who)[t]]
    /\ hold' = [hold EXCEPT ![q.who] = "settled"]
    /\ pending' = [pending EXCEPT ![q.who] = IF @ = "none" THEN @ ELSE "settled"]
    /\ inFlight' = inFlight \ {q}
    /\ UNCHANGED <<guest, stage, listed, worldVars>>

\* The batch of a delivery that lost: it changes nothing, and the delivery
\* finds the order another one wrote, or fails.
SettleLoses(q) ==
    /\ q \in inFlight
    /\ ~CanSettle(q.who)
    /\ IF q.path = "demo" THEN UNCHANGED pending ELSE MarkPendingSettled(q.who)
    /\ inFlight' = inFlight \ {q}
    /\ UNCHANGED <<stock, hold, orders, sale, guest, stage, listed, worldVars>>

SettlementDies(q) ==
    /\ q \in inFlight
    /\ inFlight' = inFlight \ {q}
    /\ UNCHANGED <<dbVars, stage, listed, worldVars>>

-----------------------------------------------------------------------------
(* sweepAbandonedGuestAccess: days later, rows without an order *)

HideAbandonedAccess(c) ==
    /\ guest[c] = "open"
    /\ hold[c] \in {"expired", "failed"}
    /\ c \notin orders
    /\ guest' = [guest EXCEPT ![c] = "hidden"]
    /\ UNCHANGED <<stock, hold, orders, sale, pending, requestVars, worldVars>>

DeleteAbandonedAccess(c) ==
    /\ guest[c] # "absent"
    /\ stage[c] \notin Running
    /\ c \notin orders
    /\ hold[c] = "none"
    /\ pending[c] = "none"
    /\ guest' = [guest EXCEPT ![c] = "absent"]
    /\ UNCHANGED <<stock, hold, orders, sale, pending, requestVars, worldVars>>

-----------------------------------------------------------------------------

CheckoutStep(c) ==
    \/ ClaimOrderIdentity(c) \/ ListExpired(c) \/ ReleaseListed(c)
    \/ Reserve(c) \/ RefuseReserve(c)
    \/ CreateProviderSession(c) \/ CreatePendingPayment(c) \/ HandOver(c)
    \/ CreateFails(c) \/ UndoHold(c) \/ UndoAccess(c)
    \/ CheckoutDies(c)

TimeStep(c) == HoldFallsDue(c) \/ PayWindowCloses(c)

ProviderStep(c) ==
    \/ BuyerPays(c) \/ BuyerPaysLater(c) \/ PaymentClears(c)
    \/ PaymentFails(c) \/ SessionExpires(c) \/ LatePayment(c)

DeliveryStep(c) ==
    \/ ReleaseWebhook(c) \/ PendingWebhook(c) \/ PaidWebhook(c)
    \/ ViewPayPage(c) \/ ApproveDemo(c)

SweepStep(c) ==
    SweepExpired(c) \/ HideAbandonedAccess(c) \/ DeleteAbandonedAccess(c)

BatchStep(q) == SettleOrder(q) \/ SettleLoses(q) \/ SettlementDies(q)

Next ==
    \/ \E c \in Checkouts : \/ CheckoutStep(c) \/ TimeStep(c)
                            \/ ProviderStep(c) \/ DeliveryStep(c)
                            \/ SweepStep(c)
    \/ \E q \in inFlight : BatchStep(q)

Spec == Init /\ [][Next]_vars

-----------------------------------------------------------------------------
(* Safety *)

UnitsHeld(t) ==
    SumFunctionOnSet([c \in Checkouts |-> Cart[c][t]],
                     {c \in Checkouts : hold[c] \in Live})

UnitsSold(t) ==
    SumFunctionOnSet([c \in Checkouts |-> sale[c].taken[t]], orders)

\* Every unit the store started with is on the shelf, in a live hold or in an
\* order: no interleaving of reserving, expiring, undoing and settling loses a
\* unit or puts one back twice.
StockConserved ==
    \A t \in Targets : stock[t] + UnitsHeld(t) + UnitsSold(t) = Initial[t]

\* A reservation is settled exactly when its order is written.
SettledIffOrdered == \A c \in Checkouts : hold[c] = "settled" <=> c \in orders

\* While a buyer holds a URL that can still take money, the units stay held:
\* hosted holds do not go by the store's clock, and a Lightning hold outlives
\* its invoice.  (A Demo hold may lapse first, but takes no money.)
PayableIsHeld ==
    \A c \in Checkouts :
        stage[c] = "open" /\ pay[c] \in {"open", "processing"}
            => hold[c] \in Live

\* Money taken can always be turned into an order: neither an undone checkout
\* nor an expiry leaves a paid reservation that settlement refuses.
PaidIsSettleable ==
    \A c \in Checkouts : pay[c] = "paid" => hold[c] \in Settleable \cup {"settled"}

\* The buyer of an order can reach it: undoing a checkout and sweeping old
\* credentials never delete the access row of an order, nor that of a paid
\* checkout whose order is still to come.
OrderIsReachable ==
    \A c \in Checkouts : c \in orders \/ pay[c] = "paid" => guest[c] # "absent"

\* A pending payment is marked settled only for an order that exists.
SettledPaymentHasOrder ==
    \A c \in Checkouts : pending[c] = "settled" => c \in orders

\* Every unit of the cart of an order left the shelf for it or is recorded as
\* missing.
Accounted(c) == \A t \in Targets :
                   sale[c].taken[t] + sale[c].short[t] = Cart[c][t]

\* "If the restored unit was resold before a delayed paid event arrives, the
\* paid order still lands once and records a resolvable inventory exception."
LateSaleIsAccounted == \A c \in orders : Accounted(c)

\* How an order can come to be unaccounted, and the only way: its settlement
\* read a live reservation, and the hold was given back before its batch ran.
LossNeedsStaleRead ==
    [][\A c \in orders' \ orders :
          \/ Accounted(c)'
          \/ /\ hold[c] \in {"expired", "failed"}
             /\ \E q \in inFlight : q.who = c /\ q.seen \in Live]_vars

\* "stores the member-price decision in the reservation, and snapshots it onto
\* the settled order"
MemberSnapshotKept == \A c \in orders : c \in Members => sale[c].member

\* "The authoritative item/price/quantity snapshot stays in D1": the lines of
\* an order are those of its reservation, with their files and item ids.
EntitlementKept == \A c \in orders : sale[c].items = "reservation"

\* The abstract ledger: a cart is held whole or not at all, held units are sold
\* once or given back once, and what is sold late is at most what is left.
Phase == [c \in Checkouts |->
            IF hold[c] \in Live THEN "held"
            ELSE IF hold[c] = "none" THEN "idle"
            ELSE IF hold[c] = "settled" THEN "sold"
            ELSE "returned"]

Ledger == INSTANCE StockLedger WITH shelf <- stock, phase <- Phase

ImplementsLedger == Ledger!LedgerSpec

-----------------------------------------------------------------------------
(* Liveness *)

\* Time passes, the cron runs, sessions end at their provider, and a hosted provider
\* repeats a webhook until it is answered: some delivery is not cut short.  Nothing is
\* asked of the buyer, nor of a Lightning node, whose webhook is only a nudge and which
\* a store may run without.
Fairness ==
    /\ \A c \in Checkouts :
          /\ WF_vars(stage[c] \in Running /\ CheckoutStep(c))
          /\ WF_vars(TimeStep(c))
          /\ WF_vars(SweepExpired(c))
          /\ WF_vars(SessionExpires(c))
          /\ WF_vars(PaymentClears(c) \/ PaymentFails(c))
          /\ WF_vars(ReleaseWebhook(c))
          /\ Rail[c] \notin SelfRendered => SF_vars(PaidWebhook(c))
          /\ SF_vars(\E q \in inFlight : q.who = c /\ SettleOrder(q))
    /\ WF_vars(\E q \in inFlight : BatchStep(q))

LiveSpec == Spec /\ Fairness

\* A payment a hosted provider has taken becomes an order.  A paid Lightning invoice does
\* if its node repeats the nudge until it has settled it, which is a condition here:
\* otherwise only a buyer who sees the pay page again before its window closes settles it.
PaidBecomesOrder ==
    \A c \in Checkouts :
        (Rail[c] = "lightning" => SF_vars(PaidWebhook(c)))
            => (pay[c] = "paid" ~> c \in orders)

\* The same without the condition.  It does not hold: nothing in the store polls the node
\* once the pay page is closed.
PaidInvoiceBecomesOrder == \A c \in Checkouts : pay[c] = "paid" ~> c \in orders

\* A hold does not keep units for ever, once the store's clock may end it or there is a
\* provider session whose end the store can match with it: an OpenNode event names
\* nothing before the pending row is written.
HoldEnds ==
    \A c \in Checkouts :
        hold[c] \in Live /\ (Rail[c] \in SelfRendered \/ (pay[c] # "none" /\ Known(c)))
            ~> hold[c] \notin Live

\* The same once there is a session at all.  It does not hold: a Worker may stop between
\* the OpenNode charge and the pending row.
SessionHoldEnds ==
    \A c \in Checkouts : hold[c] \in Live /\ pay[c] # "none" ~> hold[c] \notin Live
=============================================================================

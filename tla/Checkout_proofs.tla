-------------------------- MODULE Checkout_proofs --------------------------
(***************************************************************************)
(* What TLAPS proves of Checkout for every set of checkouts, carts, stock  *)
(* and rails: its type invariant, an inductive invariant that ties the     *)
(* hold, the request, the provider and the settlements together, the       *)
(* safety properties that follow from it, and that every step of a         *)
(* checkout is a step or a stutter of StockLedger.                         *)
(***************************************************************************)
EXTENDS Checkout, Sums

\* A hold exists from Reserve on, and is only released by its own request.
HoldFollowsStage(c) ==
    /\ hold[c] = "none" =>
          /\ pending[c] = "none"
          /\ pay[c] = "none"
          /\ stage[c] \in {"new", "claimed", "sweeping", "undone", "ended"}
    /\ stage[c] \in {"new", "claimed", "sweeping"} => hold[c] = "none"
    /\ stage[c] = "held" => pay[c] = "none"
    /\ hold[c] = "released" => stage[c] \in {"undone", "ended"}
    /\ stage[c] \in {"ready", "open"} /\ Rail[c] \in PendingRails
          => pending[c] # "none"
    /\ stage[c] \notin {"new", "ended"} => guest[c] # "absent"

\* What the provider has said is what happened there.
ProviderIsTruthful(c) ==
    /\ pay[c] \in {"processing", "paid"} => stage[c] = "open"
    /\ pay[c] = "processing" => Rail[c] = "stripe"
    /\ Rail[c] = "demo" => pay[c] = "none"
    /\ "paid" \in events[c] => pay[c] = "paid"
    /\ events[c] \cap {"expired", "failed"} # {} =>
          pay[c] \in {"dead", "paid"} /\ Rail[c] \notin SelfRendered

\* A hold ends for a reason: the clock, an event, or the order.
HoldEndsForAReason(c) ==
    /\ c \in due => stage[c] \in {"open", "ended"}
    /\ c \in closed => stage[c] \in {"open", "ended"} /\ pay[c] # "open"
    /\ Rail[c] = "lightning" /\ c \in due /\ pending[c] # "none" => c \in closed
    /\ hold[c] = "expired" => c \in due /\ Rail[c] \in SelfRendered
    /\ hold[c] = "failed" => events[c] \cap {"expired", "failed"} # {}
    /\ hold[c] = "settled" => /\ stage[c] = "open"
                              /\ pay[c] = "paid" \/ Rail[c] = "demo"
    /\ hold[c] = "settled" <=> c \in orders
    /\ pending[c] = "settled" => c \in orders
    /\ \A e \in listed[c] : e \in due /\ Rail[e] \in SelfRendered

\* A settlement in flight is for a payment that was made.
InFlightIsPaid(q) ==
    /\ stage[q.who] = "open"
    /\ q.path = "demo" => Rail[q.who] = "demo"
    /\ q.path # "demo" => pay[q.who] = "paid"
    /\ q.path = "onload" => Rail[q.who] = "lightning" /\ q.who \notin due
    /\ q.seen = "unread" => q.path = "onload"
    /\ q.seen \in {"expired", "failed"} =>
          hold[q.who] \notin {"active", "payment_pending"}

IInv ==
    /\ \A c \in Checkouts :
          HoldFollowsStage(c) /\ ProviderIsTruthful(c) /\ HoldEndsForAReason(c)
    /\ \A q \in inFlight : InFlightIsPaid(q)
-----------------------------------------------------------------------------
(* Types *)

LEMMA LateTakeType ==
    ASSUME TypeOK, NEW c \in Checkouts
    PROVE  /\ LateTake(c) \in [Targets -> Nat]
           /\ \A t \in Targets : LateTake(c)[t] <= stock[t]
           /\ \A t \in Targets : LateTake(c)[t] <= Cart[c][t]
  BY CheckoutAssumption DEF TypeOK, LateTake, Least

LEMMA SaleType ==
    ASSUME TypeOK, NEW q \in Settlements
    PROVE  SaleOf(q) \in Sales
<1>1. q.who \in Checkouts
  BY DEF Settlements
<1>2. Nothing \in [Targets -> Nat] /\ Cart[q.who] \in [Targets -> Nat]
  BY <1>1, CheckoutAssumption DEF Nothing
<1>3. Taken(q) \in [Targets -> Nat]
  BY <1>1, <1>2, LateTakeType DEF Taken
<1>4. Shortfall(q) \in [Targets -> Nat]
  <2>1. \A t \in Targets : Cart[q.who][t] - LateTake(q.who)[t] \in Nat
    BY <1>1, <1>2, LateTakeType
  <2> QED
    BY <1>2, <2>1 DEF Shortfall
<1> QED
  BY <1>3, <1>4 DEF SaleOf, Sales

LEMMA ReleaseType ==
    ASSUME TypeOK, NEW c \in Checkouts, NEW terminal \in HoldStates,
           Release(c, terminal)
    PROVE  /\ stock' \in [Targets -> Nat]
           /\ hold' \in [Checkouts -> HoldStates]
  BY CheckoutAssumption DEF TypeOK, Release

LEMMA CheckoutType ==
    ASSUME TypeOK, NEW c \in Checkouts, CheckoutStep(c)
    PROVE  TypeOK'
<1>1. CASE ClaimOrderIdentity(c)
  BY <1>1 DEF ClaimOrderIdentity, TypeOK, worldVars, Stages, Running
<1>2. CASE ListExpired(c)
  BY <1>2 DEF ListExpired, TypeOK, worldVars, dbVars, Stages, Running, DueHolds
<1>3. CASE ReleaseListed(c)
  <2>1. PICK e \in listed[c] : /\ Release(e, "expired")
                              /\ listed' = [listed EXCEPT ![c] = @ \ {e}]
    BY <1>3 DEF ReleaseListed
  <2>2. e \in Checkouts /\ "expired" \in HoldStates
    BY <2>1 DEF TypeOK, HoldStates, Settleable
  <2>3. listed' \in [Checkouts -> SUBSET Checkouts]
    BY <2>1 DEF TypeOK
  <2> QED
    BY <1>3, <2>1, <2>2, <2>3, ReleaseType DEF ReleaseListed, TypeOK, worldVars
<1>4. CASE Reserve(c)
  <2>1. Cart[c] \in [Targets -> Nat]
    BY CheckoutAssumption
  <2>2. stock' \in [Targets -> Nat]
    BY <1>4, <2>1 DEF Reserve, Available, TypeOK
  <2> QED
    BY <1>4, <2>2 DEF Reserve, TypeOK, worldVars, Stages, Running, HoldStates,
                      Settleable, Live
<1>5. CASE RefuseReserve(c)
  BY <1>5 DEF RefuseReserve, TypeOK, worldVars, dbVars, Stages, Running
<1>6. CASE CreateProviderSession(c)
  BY <1>6 DEF CreateProviderSession, AfterSession, TypeOK, dbVars, Stages, Running
<1>7. CASE CreatePendingPayment(c)
  BY <1>7 DEF CreatePendingPayment, TypeOK, worldVars, Stages, Running
<1>8. CASE HandOver(c)
  BY <1>8 DEF HandOver, TypeOK, worldVars, dbVars, Stages
<1>9. CASE CreateFails(c)
  BY <1>9 DEF CreateFails, TypeOK, worldVars, dbVars, Stages, Running
<1>10. CASE UndoHold(c)
  <2>1. "released" \in HoldStates
    BY DEF HoldStates
  <2> QED
    BY <1>10, <2>1, ReleaseType DEF UndoHold, TypeOK, worldVars, Stages, Running
<1>11. CASE UndoAccess(c)
  BY <1>11 DEF UndoAccess, TypeOK, worldVars, Stages
<1>12. CASE CheckoutDies(c)
  BY <1>12 DEF CheckoutDies, TypeOK, worldVars, dbVars, Stages
<1> QED
  BY <1>1, <1>2, <1>3, <1>4, <1>5, <1>6, <1>7, <1>8, <1>9, <1>10, <1>11, <1>12
     DEF CheckoutStep

LEMMA WorldType ==
    ASSUME TypeOK, NEW c \in Checkouts, TimeStep(c) \/ ProviderStep(c)
    PROVE  TypeOK'
<1>1. CASE HoldFallsDue(c)
  BY <1>1 DEF HoldFallsDue, TypeOK, dbVars, requestVars
<1>2. CASE PayWindowCloses(c)
  BY <1>2 DEF PayWindowCloses, TypeOK, dbVars, requestVars
<1>3. ASSUME NEW to \in {"paid", "processing", "dead"},
             NEW told \in SUBSET Events,
             ProviderMoves(c, to, told)
      PROVE  TypeOK'
  BY <1>3 DEF ProviderMoves, TypeOK, dbVars, requestVars
<1>4. CASE ProviderStep(c)
  BY <1>3, <1>4 DEF ProviderStep, BuyerPays, BuyerPaysLater, PaymentClears,
                    PaymentFails, SessionExpires, LatePayment, Events
<1> QED
  BY <1>1, <1>2, <1>4 DEF TimeStep

LEMMA DeliveryType ==
    ASSUME TypeOK, NEW c \in Checkouts, DeliveryStep(c)
    PROVE  TypeOK'
<1>1. CASE ReleaseWebhook(c)
  <2>1. "failed" \in HoldStates
    BY DEF HoldStates, Settleable
  <2> QED
    BY <1>1, <2>1, ReleaseType DEF ReleaseWebhook, TypeOK, worldVars, requestVars
<1>2. CASE PendingWebhook(c)
  BY <1>2 DEF PendingWebhook, TypeOK, worldVars, requestVars, HoldStates,
              Settleable, Live
<1>3. ASSUME NEW path \in {"webhook", "onload", "demo"},
             NEW seen \in Settleable \cup {"unread"},
             Begin(c, path, seen)
      PROVE  TypeOK'
  <2>1. [who |-> c, path |-> path, seen |-> seen] \in Settlements
    BY DEF Settlements
  <2> QED
    BY <1>3, <2>1 DEF Begin, TypeOK, worldVars, dbVars
<1>4. CASE PaidWebhook(c)
  <2>1. CASE hold[c] \in Settleable /\ Begin(c, "webhook", hold[c])
    BY <1>3, <2>1
  <2>2. CASE /\ MarkPendingSettled(c)
             /\ UNCHANGED <<stock, hold, orders, sale, guest, requestVars,
                            worldVars>>
    BY <2>2 DEF MarkPendingSettled, TypeOK, requestVars, worldVars
  <2> QED
    BY <1>4, <2>1, <2>2 DEF PaidWebhook
<1>5. CASE ViewPayPage(c)
  BY <1>3, <1>5 DEF ViewPayPage
<1>6. CASE ApproveDemo(c)
  BY <1>3, <1>6 DEF ApproveDemo
<1> QED
  BY <1>1, <1>2, <1>4, <1>5, <1>6 DEF DeliveryStep

LEMMA SweepType ==
    ASSUME TypeOK, NEW c \in Checkouts, SweepStep(c)
    PROVE  TypeOK'
<1>1. CASE SweepExpired(c)
  <2>1. "expired" \in HoldStates
    BY DEF HoldStates, Settleable
  <2> QED
    BY <1>1, <2>1, ReleaseType DEF SweepExpired, TypeOK, worldVars, requestVars
<1>2. CASE HideAbandonedAccess(c)
  BY <1>2 DEF HideAbandonedAccess, TypeOK, worldVars, requestVars
<1>3. CASE DeleteAbandonedAccess(c)
  BY <1>3 DEF DeleteAbandonedAccess, TypeOK, worldVars, requestVars
<1> QED
  BY <1>1, <1>2, <1>3 DEF SweepStep

LEMMA BatchType ==
    ASSUME TypeOK, NEW q \in inFlight, BatchStep(q)
    PROVE  TypeOK'
<1>1. q \in Settlements /\ q.who \in Checkouts
  BY DEF TypeOK, Settlements
<1>2. CASE SettleOrder(q)
  <2>1. stock' \in [Targets -> Nat]
    BY <1>1, <1>2, LateTakeType DEF SettleOrder, TypeOK
  <2>2. sale' \in [Checkouts -> Sales]
    BY <1>1, <1>2, SaleType DEF SettleOrder, TypeOK
  <2> QED
    BY <1>1, <1>2, <2>1, <2>2 DEF SettleOrder, TypeOK, worldVars, HoldStates
<1>3. CASE SettleLoses(q)
  BY <1>1, <1>3 DEF SettleLoses, MarkPendingSettled, TypeOK, worldVars
<1>4. CASE SettlementDies(q)
  BY <1>1, <1>4 DEF SettlementDies, TypeOK, worldVars, dbVars
<1> QED
  BY <1>2, <1>3, <1>4 DEF BatchStep

\* Every variable keeps its type; in particular no interleaving takes a stock
\* count below zero, although no decrement but the late one is clamped.
THEOREM TypeCorrect == Spec => []TypeOK
<1>1. Init => TypeOK
  <2>1. NoSale \in Sales
    BY DEF NoSale, Sales, Nothing
  <2> QED
    BY <2>1, CheckoutAssumption DEF Init, TypeOK, HoldStates, Stages
<1>2. TypeOK /\ [Next]_vars => TypeOK'
  <2> SUFFICES ASSUME TypeOK, [Next]_vars
               PROVE  TypeOK'
    OBVIOUS
  <2>1. CASE UNCHANGED vars
    BY <2>1 DEF vars, TypeOK
  <2>2. CASE Next
    BY <2>2, CheckoutType, WorldType, DeliveryType, SweepType, BatchType DEF Next
  <2> QED
    BY <2>1, <2>2
<1> QED
  BY <1>1, <1>2, PTL DEF Spec

-----------------------------------------------------------------------------
(* The inductive invariant *)

LEMMA InvInit == Init => IInv
  BY DEF Init, IInv, HoldFollowsStage, ProviderIsTruthful, HoldEndsForAReason,
         SelfRendered, PendingRails, Live

LEMMA WhoIsACheckout ==
    ASSUME TypeOK
    PROVE  \A q \in inFlight : q.who \in Checkouts
  BY DEF TypeOK, Settlements

\* Giving a hold back does not disturb the settlements in flight.
LEMMA ReleaseKeepsInFlight ==
    ASSUME TypeOK, IInv, NEW c \in Checkouts,
           NEW terminal \in {"released", "expired", "failed"},
           Release(c, terminal)
    PROVE  \A q \in inFlight :
             q.seen \in {"expired", "failed"} =>
                hold'[q.who] \notin {"active", "payment_pending"}
<1> SUFFICES ASSUME NEW q \in inFlight, q.seen \in {"expired", "failed"}
             PROVE  hold'[q.who] \notin {"active", "payment_pending"}
  OBVIOUS
<1>1. hold[q.who] \notin {"active", "payment_pending"} /\ q.who \in Checkouts
  BY WhoIsACheckout DEF IInv, InFlightIsPaid
<1> QED
  BY <1>1 DEF Release, TypeOK, Live

LEMMA InvCheckout ==
    ASSUME TypeOK, IInv, NEW c \in Checkouts, CheckoutStep(c)
    PROVE  IInv'
<1> USE DEF IInv, HoldFollowsStage, ProviderIsTruthful, HoldEndsForAReason,
            InFlightIsPaid
<1>1. CASE ClaimOrderIdentity(c)
  BY <1>1 DEF ClaimOrderIdentity, TypeOK, worldVars, Stages, Running
<1>2. CASE ListExpired(c)
  BY <1>2 DEF ListExpired, TypeOK, worldVars, dbVars, Stages, Running, DueHolds
<1>3. CASE ReleaseListed(c)
  <2>1. PICK e \in listed[c] : /\ Release(e, "expired")
                              /\ listed' = [listed EXCEPT ![c] = @ \ {e}]
    BY <1>3 DEF ReleaseListed
  <2>2. e \in Checkouts
    BY <2>1 DEF TypeOK
  <2>3. \A b \in Checkouts : /\ HoldFollowsStage(b)'
                             /\ ProviderIsTruthful(b)'
                             /\ HoldEndsForAReason(b)'
    BY <1>3, <2>1, <2>2 DEF ReleaseListed, TypeOK, worldVars, Release, Live
  <2>4. \A q \in inFlight' : InFlightIsPaid(q)'
    BY <1>3, <2>1, <2>2, WhoIsACheckout, ReleaseKeepsInFlight
       DEF ReleaseListed, worldVars
  <2> QED
    BY <2>3, <2>4
<1>4. CASE Reserve(c)
  BY <1>4 DEF Reserve, TypeOK, worldVars, Stages, Running
<1>5. CASE RefuseReserve(c)
  BY <1>5 DEF RefuseReserve, TypeOK, worldVars, dbVars, Stages, Running
<1>6. CASE CreateProviderSession(c)
  BY <1>6 DEF CreateProviderSession, AfterSession, TypeOK, dbVars, Stages, Running, PendingRails
<1>7. CASE CreatePendingPayment(c)
  BY <1>7 DEF CreatePendingPayment, TypeOK, worldVars, Stages, Running, PendingRails
<1>8. CASE HandOver(c)
  BY <1>8 DEF HandOver, TypeOK, worldVars, dbVars, Stages, Running
<1>9. CASE CreateFails(c)
  BY <1>9 DEF CreateFails, TypeOK, worldVars, dbVars, Stages, Running
<1>10. CASE UndoHold(c)
  <2>1. \A b \in Checkouts : /\ HoldFollowsStage(b)'
                             /\ ProviderIsTruthful(b)'
                             /\ HoldEndsForAReason(b)'
    BY <1>10 DEF UndoHold, TypeOK, worldVars, Stages, Running, Release, Live
  <2>2. \A q \in inFlight' : InFlightIsPaid(q)'
    BY <1>10, WhoIsACheckout, ReleaseKeepsInFlight
       DEF UndoHold, TypeOK, worldVars, requestVars
  <2> QED
    BY <2>1, <2>2
<1>11. CASE UndoAccess(c)
  BY <1>11 DEF UndoAccess, TypeOK, worldVars, Stages, Running
<1>12. CASE CheckoutDies(c)
  BY <1>12 DEF CheckoutDies, TypeOK, worldVars, dbVars, Stages, Running
<1> QED
  BY <1>1, <1>2, <1>3, <1>4, <1>5, <1>6, <1>7, <1>8, <1>9, <1>10, <1>11, <1>12
     DEF CheckoutStep

LEMMA InvWorld ==
    ASSUME TypeOK, IInv, NEW c \in Checkouts, TimeStep(c) \/ ProviderStep(c)
    PROVE  IInv'
<1> USE DEF IInv, HoldFollowsStage, ProviderIsTruthful, HoldEndsForAReason,
            InFlightIsPaid
<1>1. CASE HoldFallsDue(c)
  BY <1>1 DEF HoldFallsDue, GraceOver, TypeOK, dbVars, requestVars, Stages,
              Settlements
<1>2. CASE PayWindowCloses(c)
  BY <1>2 DEF PayWindowCloses, TypeOK, dbVars, requestVars, Stages
<1>3. CASE BuyerPays(c)
  BY <1>3 DEF BuyerPays, ProviderMoves, TypeOK, dbVars, requestVars
<1>4. CASE BuyerPaysLater(c)
  BY <1>4 DEF BuyerPaysLater, ProviderMoves, TypeOK, dbVars, requestVars
<1>5. CASE PaymentClears(c)
  BY <1>5 DEF PaymentClears, ProviderMoves, TypeOK, dbVars, requestVars
<1>6. CASE PaymentFails(c)
  BY <1>6 DEF PaymentFails, ProviderMoves, TypeOK, dbVars, requestVars,
              SelfRendered
<1>7. CASE SessionExpires(c)
  BY <1>7 DEF SessionExpires, ProviderMoves, TypeOK, dbVars, requestVars
<1>8. CASE LatePayment(c)
  BY <1>8 DEF LatePayment, ProviderMoves, TypeOK, dbVars, requestVars
<1> QED
  BY <1>1, <1>2, <1>3, <1>4, <1>5, <1>6, <1>7, <1>8 DEF TimeStep, ProviderStep

LEMMA InvDelivery ==
    ASSUME TypeOK, IInv, NEW c \in Checkouts, DeliveryStep(c)
    PROVE  IInv'
<1> USE DEF IInv, HoldFollowsStage, ProviderIsTruthful, HoldEndsForAReason,
            InFlightIsPaid
<1>1. CASE ReleaseWebhook(c)
  <2>1. \A b \in Checkouts : /\ HoldFollowsStage(b)'
                             /\ ProviderIsTruthful(b)'
                             /\ HoldEndsForAReason(b)'
    BY <1>1 DEF ReleaseWebhook, TypeOK, worldVars, requestVars, Release, Live
  <2>2. \A q \in inFlight' : InFlightIsPaid(q)'
    BY <1>1, WhoIsACheckout, ReleaseKeepsInFlight
       DEF ReleaseWebhook, TypeOK, worldVars, requestVars
  <2> QED
    BY <2>1, <2>2
<1>2. CASE PendingWebhook(c)
  BY <1>2 DEF PendingWebhook, TypeOK, worldVars, requestVars
<1>3. CASE PaidWebhook(c)
  <2>1. CASE hold[c] \in Settleable /\ Begin(c, "webhook", hold[c])
    BY <1>3, <2>1 DEF PaidWebhook, Begin, TypeOK, worldVars, dbVars, Settleable,
                      Live
  <2>2. CASE /\ MarkPendingSettled(c)
             /\ UNCHANGED <<stock, hold, orders, sale, guest, requestVars,
                            worldVars>>
    BY <2>2 DEF MarkPendingSettled, TypeOK, requestVars, worldVars
  <2> QED
    BY <1>3, <2>1, <2>2 DEF PaidWebhook
<1>4. CASE ViewPayPage(c)
  BY <1>4 DEF ViewPayPage, PageSettles, Begin, TypeOK, worldVars, dbVars
<1>5. CASE ApproveDemo(c)
  BY <1>5 DEF ApproveDemo, PageSettles, Begin, TypeOK, worldVars, dbVars,
              Settleable, Live
<1> QED
  BY <1>1, <1>2, <1>3, <1>4, <1>5 DEF DeliveryStep

LEMMA InvSweep ==
    ASSUME TypeOK, IInv, NEW c \in Checkouts, SweepStep(c)
    PROVE  IInv'
<1> USE DEF IInv, HoldFollowsStage, ProviderIsTruthful, HoldEndsForAReason,
            InFlightIsPaid
<1>1. CASE SweepExpired(c)
  <2>1. \A b \in Checkouts : /\ HoldFollowsStage(b)'
                             /\ ProviderIsTruthful(b)'
                             /\ HoldEndsForAReason(b)'
    BY <1>1 DEF SweepExpired, DueHolds, TypeOK, worldVars, requestVars, Release,
                 Live
  <2>2. \A q \in inFlight' : InFlightIsPaid(q)'
    BY <1>1, WhoIsACheckout, ReleaseKeepsInFlight
       DEF SweepExpired, TypeOK, worldVars, requestVars
  <2> QED
    BY <2>1, <2>2
<1>2. CASE HideAbandonedAccess(c)
  BY <1>2 DEF HideAbandonedAccess, TypeOK, worldVars, requestVars
<1>3. CASE DeleteAbandonedAccess(c)
  BY <1>3 DEF DeleteAbandonedAccess, TypeOK, worldVars, requestVars, Stages,
              Running
<1> QED
  BY <1>1, <1>2, <1>3 DEF SweepStep

LEMMA InvBatch ==
    ASSUME TypeOK, IInv, NEW q \in inFlight, BatchStep(q)
    PROVE  IInv'
<1> USE DEF IInv, HoldFollowsStage, ProviderIsTruthful, HoldEndsForAReason,
            InFlightIsPaid
<1>1. q.who \in Checkouts /\ q.path \in {"webhook", "onload", "demo"}
  BY DEF TypeOK, Settlements
<1>2. CASE SettleOrder(q)
  BY <1>1, <1>2 DEF SettleOrder, CanSettle, TypeOK, worldVars, PendingRails
<1>3. CASE SettleLoses(q)
  BY <1>1, <1>3 DEF SettleLoses, MarkPendingSettled, TypeOK, worldVars
<1>4. CASE SettlementDies(q)
  BY <1>1, <1>4 DEF SettlementDies, TypeOK, worldVars, dbVars
<1> QED
  BY <1>2, <1>3, <1>4 DEF BatchStep

\* What the safety properties below rest on: none of them is inductive by
\* itself, because each needs to know why the other actors are where they are.
THEOREM InductiveInvariant == Spec => []IInv
<1>1. TypeOK /\ IInv /\ [Next]_vars => IInv'
  <2> SUFFICES ASSUME TypeOK, IInv, [Next]_vars
               PROVE  IInv'
    OBVIOUS
  <2>1. CASE UNCHANGED vars
    BY <2>1 DEF vars, IInv, HoldFollowsStage, ProviderIsTruthful,
                HoldEndsForAReason, InFlightIsPaid
  <2>2. CASE Next
    BY <2>2, InvCheckout, InvWorld, InvDelivery, InvSweep, InvBatch DEF Next
  <2> QED
    BY <2>1, <2>2
<1> QED
  BY <1>1, InvInit, TypeCorrect, PTL DEF Spec

-----------------------------------------------------------------------------
(* Safety *)

\* No checkout is settled without its order, and no order is written for a
\* hold that is still live or was given back for good.
THEOREM SettledExactlyWhenOrdered == Spec => []SettledIffOrdered
<1>1. IInv => SettledIffOrdered
  BY DEF IInv, HoldEndsForAReason, SettledIffOrdered
<1> QED
  BY <1>1, InductiveInvariant, PTL

THEOREM PendingSettledOnlyWithOrder == Spec => []SettledPaymentHasOrder
<1>1. IInv => SettledPaymentHasOrder
  BY DEF IInv, HoldEndsForAReason, SettledPaymentHasOrder
<1> QED
  BY <1>1, InductiveInvariant, PTL

\* A buyer who can still pay has the units: neither the sweep nor a webhook
\* takes them away before the provider has closed the payment.
THEOREM PayableKeepsItsHold == Spec => []PayableIsHeld
<1>1. TypeOK /\ IInv => PayableIsHeld
  <2> SUFFICES ASSUME TypeOK, IInv, NEW c \in Checkouts, stage[c] = "open",
                      pay[c] \in {"open", "processing"}
               PROVE  hold[c] \in Live
    BY DEF PayableIsHeld
  <2> USE DEF IInv, HoldFollowsStage, ProviderIsTruthful, HoldEndsForAReason
  <2>1. hold[c] \notin {"none", "released", "settled", "failed"}
    OBVIOUS
  <2>2. hold[c] # "expired"
    <3> SUFFICES ASSUME hold[c] = "expired" PROVE FALSE
      OBVIOUS
    <3>1. Rail[c] = "lightning" /\ c \in due
      BY DEF SelfRendered
    <3>2. pending[c] # "none"
      BY <3>1 DEF PendingRails
    <3> QED
      BY <3>1, <3>2
  <2> QED
    BY <2>1, <2>2 DEF TypeOK, HoldStates, Settleable
<1> QED
  BY <1>1, TypeCorrect, InductiveInvariant, PTL

\* A payment that was taken is never refused for want of a reservation.
THEOREM PaidStaysSettleable == Spec => []PaidIsSettleable
<1>1. TypeOK /\ IInv => PaidIsSettleable
  BY DEF TypeOK, HoldStates, IInv, HoldFollowsStage, ProviderIsTruthful,
         PaidIsSettleable
<1> QED
  BY <1>1, TypeCorrect, InductiveInvariant, PTL

\* Neither the undoing of a checkout nor the sweep of old credentials cuts a
\* buyer who paid off from the order.
THEOREM OrderStaysReachable == Spec => []OrderIsReachable
<1>1. TypeOK /\ IInv => OrderIsReachable
  BY DEF TypeOK, IInv, HoldFollowsStage, ProviderIsTruthful,
         HoldEndsForAReason, OrderIsReachable
<1> QED
  BY <1>1, TypeCorrect, InductiveInvariant, PTL

LEMMA OnlySettlementWritesOrders ==
    ASSUME TypeOK, Next, NEW c \in orders' \ orders
    PROVE  \E q \in inFlight : SettleOrder(q) /\ q.who = c
<1>1. ASSUME NEW e \in Checkouts, CheckoutStep(e)
      PROVE  orders' = orders
  BY <1>1 DEF CheckoutStep, ClaimOrderIdentity, ListExpired, ReleaseListed,
              Reserve, RefuseReserve, CreateProviderSession,
              CreatePendingPayment, HandOver, CreateFails, UndoHold,
              UndoAccess, CheckoutDies, dbVars
<1>2. ASSUME NEW e \in Checkouts, TimeStep(e) \/ ProviderStep(e)
      PROVE  orders' = orders
  BY <1>2 DEF TimeStep, HoldFallsDue, PayWindowCloses, ProviderStep, BuyerPays,
              BuyerPaysLater, PaymentClears, PaymentFails, SessionExpires,
              LatePayment, ProviderMoves, dbVars
<1>3. ASSUME NEW e \in Checkouts, DeliveryStep(e) \/ SweepStep(e)
      PROVE  orders' = orders
  BY <1>3 DEF DeliveryStep, ReleaseWebhook, PendingWebhook, PaidWebhook,
              ViewPayPage, ApproveDemo, Begin, SweepStep, SweepExpired,
              HideAbandonedAccess, DeleteAbandonedAccess, dbVars
<1>4. ASSUME NEW q \in inFlight, BatchStep(q)
      PROVE  SettleOrder(q) \/ orders' = orders
  BY <1>4 DEF BatchStep, SettleLoses, SettlementDies, dbVars
<1>5. PICK q \in inFlight : SettleOrder(q)
  BY <1>1, <1>2, <1>3, <1>4 DEF Next
<1> QED
  BY <1>5 DEF SettleOrder

\* A unit is only lost to the records when a settlement read a live hold that
\* was given back before its batch ran.
THEOREM LossIsOnlyStaleRead == Spec => LossNeedsStaleRead
<1>1. ASSUME TypeOK, IInv, Next, NEW c \in orders' \ orders
      PROVE  \/ Accounted(c)'
             \/ /\ hold[c] \in {"expired", "failed"}
                /\ \E q \in inFlight : q.who = c /\ q.seen \in Live
  <2>1. PICK q \in inFlight : SettleOrder(q) /\ q.who = c
    BY <1>1, OnlySettlementWritesOrders
  <2>2. q \in Settlements /\ c \in Checkouts
    <3>1. q \in Settlements
      BY <1>1, <2>1 DEF TypeOK
    <3> QED
      BY <2>1, <3>1 DEF Settlements
  <2>3. sale'[c] = SaleOf(q)
    BY <1>1, <2>1, <2>2 DEF SettleOrder, TypeOK
  <2>4. CASE ~SkipStock(q)
    <3>1. \A t \in Targets :
             sale'[c].taken[t] + sale'[c].short[t] = Cart[c][t]
      BY <1>1, <2>1, <2>2, <2>3, <2>4, LateTakeType, CheckoutAssumption
         DEF SaleOf, Taken, Shortfall
    <3> QED
      BY <3>1 DEF Accounted
  <2>5. CASE SkipStock(q) /\ hold[c] \in Live
    <3>1. \A t \in Targets :
             sale'[c].taken[t] + sale'[c].short[t] = Cart[c][t]
      BY <2>1, <2>2, <2>3, <2>5, CheckoutAssumption
         DEF SaleOf, Taken, Shortfall, Nothing
    <3> QED
      BY <3>1 DEF Accounted
  <2>6. CASE SkipStock(q) /\ hold[c] \notin Live
    <3>1. hold[c] \in {"expired", "failed"}
      BY <2>1, <2>6 DEF SettleOrder, CanSettle, Settleable
    <3>2. q.seen # "unread"
      BY <1>1, <2>1, <2>2, <3>1 DEF IInv, InFlightIsPaid, HoldEndsForAReason,
                                    ProviderIsTruthful, SelfRendered
    <3>3. q.seen \in Live
      BY <2>2, <2>6, <3>2 DEF SkipStock, Settlements, Settleable
    <3> QED
      BY <2>1, <3>1, <3>3
  <2> QED
    BY <2>4, <2>5, <2>6
<1>2. TypeOK /\ IInv /\ [Next]_vars =>
        [\A c \in orders' \ orders :
           \/ Accounted(c)'
           \/ /\ hold[c] \in {"expired", "failed"}
              /\ \E q \in inFlight : q.who = c /\ q.seen \in Live]_vars
  BY <1>1
<1> QED
  BY <1>2, TypeCorrect, InductiveInvariant, PTL DEF Spec, LossNeedsStaleRead

-----------------------------------------------------------------------------
(* Conservation of stock *)

Holders == {c \in Checkouts : hold[c] \in Live}
Carts(t) == [c \in Checkouts |-> Cart[c][t]]
Takes(t) == [c \in Checkouts |-> sale[c].taken[t]]

\* There may be any number of checkouts, but only so many have come yet.
UnitsAreFinite == IsFiniteSet(Holders) /\ IsFiniteSet(orders)

Conserved == UnitsAreFinite /\ StockConserved

LEMMA HoldersHaveCarts ==
    Holders \subseteq Checkouts
      /\ \A t \in Targets : \A c \in Checkouts : Carts(t)[c] \in Int
  BY CheckoutAssumption DEF Holders, Carts

LEMMA UnitsType ==
    ASSUME TypeOK, UnitsAreFinite, NEW t \in Targets
    PROVE  /\ \A c \in Checkouts : Carts(t)[c] \in Nat /\ Takes(t)[c] \in Nat
           /\ UnitsHeld(t) = SumFunctionOnSet(Carts(t), Holders)
           /\ UnitsSold(t) = SumFunctionOnSet(Takes(t), orders)
           /\ UnitsHeld(t) \in Nat
           /\ UnitsSold(t) \in Nat
<1>1. \A c \in Checkouts : Carts(t)[c] \in Nat /\ Takes(t)[c] \in Nat
  BY CheckoutAssumption DEF TypeOK, Carts, Takes, Sales
<1>2. UnitsHeld(t) = SumFunctionOnSet(Carts(t), Holders)
  BY DEF UnitsHeld, Carts, Holders
<1>3. UnitsSold(t) = SumFunctionOnSet(Takes(t), orders)
  BY DEF UnitsSold, Takes
<1>4. Holders \subseteq Checkouts /\ orders \subseteq Checkouts
  BY DEF Holders, TypeOK
<1> QED
  BY <1>1, <1>2, <1>3, <1>4, SumNat DEF UnitsAreFinite

LEMMA ConservedInit == Init => Conserved
<1> SUFFICES ASSUME Init PROVE Conserved
  OBVIOUS
<1>1. Holders = {} /\ orders = {}
  BY DEF Init, Holders, Live
<1>2. ASSUME NEW t \in Targets
      PROVE  stock[t] + UnitsHeld(t) + UnitsSold(t) = Initial[t]
  <2>1. UnitsHeld(t) = 0 /\ UnitsSold(t) = 0
    BY <1>1, SumEmpty DEF UnitsHeld, UnitsSold, Holders
  <2> QED BY <2>1, CheckoutAssumption DEF Init
<1> QED
  BY <1>1, <1>2, FS_EmptySet DEF Conserved, UnitsAreFinite, StockConserved

\* A step that moves no unit.
LEMMA NothingMoves ==
    ASSUME Conserved, Holders' = Holders, UNCHANGED <<stock, orders, sale>>
    PROVE  Conserved'
<1>1. ASSUME NEW t \in Targets
      PROVE  UnitsHeld(t)' = UnitsHeld(t) /\ UnitsSold(t)' = UnitsSold(t)
  BY DEF UnitsHeld, UnitsSold, Holders
<1> QED
  BY <1>1 DEF Conserved, UnitsAreFinite, StockConserved

\* The cart of one checkout leaves the shelf, or is put back.
LEMMA CartIsHeld ==
    ASSUME TypeOK, Conserved, NEW c \in Checkouts, c \notin Holders,
           Holders' = Holders \cup {c},
           stock' = [t \in Targets |-> stock[t] - Cart[c][t]],
           UNCHANGED <<orders, sale>>
    PROVE  Conserved'
<1>1. IsFiniteSet(Holders')
  BY FS_AddElement DEF Conserved, UnitsAreFinite
<1>2. ASSUME NEW t \in Targets
      PROVE  stock'[t] + UnitsHeld(t)' + UnitsSold(t)' = Initial[t]
  <2>1. UnitsHeld(t)' = SumFunctionOnSet(Carts(t), Holders \cup {c})
    BY DEF UnitsHeld, Carts, Holders
  <2>2. \A x \in Holders \cup {c} : Carts(t)[x] \in Int
    BY HoldersHaveCarts
  <2>3. UnitsHeld(t)' = Cart[c][t] + UnitsHeld(t)
    <3>1. Carts(t)[c] = Cart[c][t]
      BY DEF Carts
    <3>2. SumFunctionOnSet(Carts(t), Holders \cup {c})
             = Carts(t)[c] + SumFunctionOnSet(Carts(t), Holders)
      BY <2>2, SumAdd DEF Conserved, UnitsAreFinite
    <3>3. UnitsHeld(t) = SumFunctionOnSet(Carts(t), Holders)
      BY UnitsType DEF Conserved
    <3> QED BY <2>1, <3>1, <3>2, <3>3
  <2>4. UnitsSold(t)' = UnitsSold(t)
    BY DEF UnitsSold
  <2>5. stock'[t] = stock[t] - Cart[c][t] /\ stock[t] \in Nat /\ Cart[c][t] \in Nat
    BY CheckoutAssumption DEF TypeOK
  <2> QED
    BY <2>3, <2>4, <2>5, UnitsType DEF Conserved, StockConserved
<1> QED
  BY <1>1, <1>2 DEF Conserved, UnitsAreFinite, StockConserved

LEMMA CartIsReturned ==
    ASSUME TypeOK, Conserved, NEW c \in Holders,
           Holders' = Holders \ {c},
           stock' = [t \in Targets |-> stock[t] + Cart[c][t]],
           UNCHANGED <<orders, sale>>
    PROVE  Conserved'
<1>1. IsFiniteSet(Holders') /\ c \in Checkouts
  BY FS_RemoveElement DEF Conserved, UnitsAreFinite, Holders
<1>2. ASSUME NEW t \in Targets
      PROVE  stock'[t] + UnitsHeld(t)' + UnitsSold(t)' = Initial[t]
  <2>1. UnitsHeld(t)' = SumFunctionOnSet(Carts(t), Holders \ {c})
    BY DEF UnitsHeld, Carts, Holders
  <2>2. \A x \in Holders : Carts(t)[x] \in Int
    BY HoldersHaveCarts
  <2>3. UnitsHeld(t) = Cart[c][t] + UnitsHeld(t)'
    <3>1. Carts(t)[c] = Cart[c][t]
      BY <1>1 DEF Carts
    <3> QED BY <2>1, <2>2, <3>1, SumRemove, UnitsType DEF Conserved, UnitsAreFinite
  <2>4. UnitsHeld(t)' \in Int
    BY <1>1, <2>1, <2>2, SumInt
  <2>5. UnitsSold(t)' = UnitsSold(t)
    BY DEF UnitsSold
  <2>6. stock'[t] = stock[t] + Cart[c][t] /\ stock[t] \in Nat /\ Cart[c][t] \in Nat
    BY <1>1, CheckoutAssumption DEF TypeOK
  <2> QED
    BY <2>3, <2>4, <2>5, <2>6, UnitsType DEF Conserved, StockConserved
<1> QED
  BY <1>1, <1>2 DEF Conserved, UnitsAreFinite, StockConserved

\* The order of c takes its units from the hold, from the shelf, or not at all.
LEMMA UnitsSoldChange ==
    ASSUME TypeOK, TypeOK', UnitsAreFinite, NEW c \in Checkouts, c \notin orders,
           orders' = orders \cup {c},
           \A x \in orders : sale'[x] = sale[x],
           NEW t \in Targets
    PROVE  UnitsSold(t)' = UnitsSold(t) + sale'[c].taken[t]
<1>1. ASSUME NEW g, g = Takes(t)'
      PROVE  SumFunctionOnSet(g, orders \cup {c})
                = SumFunctionOnSet(Takes(t), orders) + sale'[c].taken[t]
  <2>1. \A x \in Checkouts : g[x] = sale'[x].taken[t] /\ g[x] \in Int
    BY <1>1 DEF Takes, TypeOK, Sales
  <2>2. \A x \in orders : g[x] = Takes(t)[x]
    BY <2>1 DEF Takes, TypeOK
  <2>3. orders \subseteq Checkouts /\ IsFiniteSet(orders)
    BY DEF TypeOK, UnitsAreFinite
  <2>4. \A x \in orders \cup {c} : g[x] \in Int
    BY <2>1, <2>3
  <2>5. SumFunctionOnSet(g, orders \cup {c}) = g[c] + SumFunctionOnSet(g, orders)
    BY <2>3, <2>4, SumAdd
  <2>6. SumFunctionOnSet(g, orders) = SumFunctionOnSet(Takes(t), orders)
    BY <2>2, <2>3, SumSame
  <2>7. SumFunctionOnSet(Takes(t), orders) \in Nat
    BY UnitsType
  <2> QED BY <2>1, <2>5, <2>6, <2>7
<1>2. UnitsSold(t)' = SumFunctionOnSet(Takes(t)', orders')
  BY DEF UnitsSold, Takes
<1> QED
  BY <1>1, <1>2, UnitsType

LEMMA SettleConserves ==
    ASSUME TypeOK, TypeOK', IInv, Conserved, NEW q \in inFlight, SettleOrder(q)
    PROVE  Conserved'
<1> DEFINE c == q.who
<1>1. c \in Checkouts /\ q \in Settlements
  BY DEF TypeOK, Settlements
<1>2. c \notin orders /\ orders' = orders \cup {c} /\ Holders' = Holders \ {c}
  BY <1>1 DEF SettleOrder, CanSettle, Holders, TypeOK, Live
<1>3. sale'[c] = SaleOf(q) /\ \A x \in orders : sale'[x] = sale[x]
  BY <1>1, <1>2 DEF SettleOrder, TypeOK
<1>4. IsFiniteSet(Holders') /\ IsFiniteSet(orders')
  BY <1>2, FS_RemoveElement, FS_AddElement DEF Conserved, UnitsAreFinite
<1>5. stock' = IF SkipStock(q) THEN stock
               ELSE [t \in Targets |-> stock[t] - LateTake(c)[t]]
  BY DEF SettleOrder
<1>6. hold[c] \in Live => SkipStock(q)
  BY <1>1 DEF IInv, InFlightIsPaid, SkipStock, Live
<1>7. SaleOf(q).taken = Taken(q)
  BY DEF SaleOf
<1>8. /\ ~SkipStock(q) => Taken(q) = LateTake(c)
      /\ SkipStock(q) /\ hold[c] \in Live => Taken(q) = Cart[c]
      /\ SkipStock(q) /\ hold[c] \notin Live => Taken(q) = Nothing
  BY DEF Taken
<1> HIDE DEF c
<1>9. ASSUME NEW t \in Targets
      PROVE  stock'[t] + UnitsHeld(t)' + UnitsSold(t)' = Initial[t]
  <2>1. UnitsSold(t)' = UnitsSold(t) + Taken(q)[t]
    BY <1>1, <1>2, <1>3, <1>7, UnitsSoldChange DEF Conserved
  <2>2. UnitsHeld(t)' = SumFunctionOnSet(Carts(t), Holders \ {c})
    BY <1>2 DEF UnitsHeld, Carts, Holders
  <2>3. /\ stock[t] \in Nat /\ Cart[c][t] \in Nat /\ LateTake(c)[t] \in Nat
        /\ UnitsHeld(t) \in Nat /\ UnitsSold(t) \in Nat
    BY <1>1, CheckoutAssumption, LateTakeType, UnitsType DEF TypeOK, Conserved
  <2>4. stock[t] + UnitsHeld(t) + UnitsSold(t) = Initial[t]
    BY DEF Conserved, StockConserved
  <2>5. CASE hold[c] \in Live
    <3>1. c \in Holders /\ Carts(t)[c] = Cart[c][t]
      BY <1>1, <2>5 DEF Holders, Carts
    <3>2. \A x \in Holders : Carts(t)[x] \in Int
      BY HoldersHaveCarts
    <3>3. UnitsHeld(t) = Cart[c][t] + UnitsHeld(t)'
      BY <2>2, <3>1, <3>2, SumRemove, UnitsType DEF Conserved, UnitsAreFinite
    <3>4. UnitsHeld(t)' \in Int
      BY <1>2, <1>4, <2>2, <3>2, SumInt
    <3>5. Taken(q)[t] = Cart[c][t] /\ stock' = stock
      BY <1>5, <1>6, <1>8, <2>5
    <3> QED BY <2>1, <2>3, <2>4, <3>3, <3>4, <3>5
  <2>6. CASE hold[c] \notin Live
    <3>1. Holders \ {c} = Holders
      BY <2>6 DEF Holders
    <3>2. UnitsHeld(t)' = UnitsHeld(t)
      BY <2>2, <3>1, UnitsType DEF Conserved
    <3>3. stock'[t] = stock[t] - Taken(q)[t] /\ Taken(q)[t] \in Nat
      BY <1>5, <1>8, <2>3, <2>6 DEF Nothing
    <3> QED BY <2>1, <2>3, <2>4, <3>2, <3>3
  <2> QED BY <2>5, <2>6
<1> QED
  BY <1>4, <1>9 DEF Conserved, UnitsAreFinite, StockConserved

LEMMA ReleaseConserves ==
    ASSUME TypeOK, Conserved, NEW c \in Checkouts,
           NEW terminal \in {"released", "expired", "failed"},
           Release(c, terminal), UNCHANGED <<orders, sale>>
    PROVE  Conserved'
<1>1. CASE hold[c] \in Live
  <2>1. c \in Holders /\ Holders' = Holders \ {c}
    BY <1>1 DEF Release, Holders, TypeOK, Live
  <2> QED BY <1>1, <2>1, CartIsReturned DEF Release
<1>2. CASE hold[c] \notin Live
  BY <1>2, NothingMoves DEF Release, Holders
<1> QED
  BY <1>1, <1>2

LEMMA ConservedStep ==
    ASSUME TypeOK, TypeOK', IInv, Conserved, [Next]_vars
    PROVE  Conserved'
<1>1. ASSUME UNCHANGED <<stock, hold, orders, sale>>
      PROVE  Conserved'
  BY <1>1, NothingMoves DEF Holders
<1>2. ASSUME NEW c \in Checkouts, CheckoutStep(c)
      PROVE  Conserved'
  <2>1. CASE Reserve(c)
    <3>1. hold[c] = "none"
      BY <2>1 DEF Reserve, IInv, HoldFollowsStage
    <3>2. c \notin Holders /\ Holders' = Holders \cup {c}
      BY <2>1, <3>1 DEF Reserve, Holders, TypeOK, Live
    <3> QED BY <2>1, <3>2, CartIsHeld DEF Reserve
  <2>2. CASE UndoHold(c)
    BY <2>2, ReleaseConserves DEF UndoHold
  <2>3. CASE ReleaseListed(c)
    <3>1. PICK e \in listed[c] : Release(e, "expired")
      BY <2>3 DEF ReleaseListed
    <3>2. e \in Checkouts
      BY DEF TypeOK
    <3> QED BY <2>3, <3>1, <3>2, ReleaseConserves DEF ReleaseListed
  <2> QED
    BY <1>1, <1>2, <2>1, <2>2, <2>3
    DEF CheckoutStep, ClaimOrderIdentity, ListExpired, RefuseReserve,
        CreateProviderSession, CreatePendingPayment, HandOver, CreateFails,
        UndoAccess, CheckoutDies, dbVars
<1>3. ASSUME NEW c \in Checkouts, TimeStep(c) \/ ProviderStep(c)
      PROVE  Conserved'
  BY <1>1, <1>3
  DEF TimeStep, HoldFallsDue, PayWindowCloses, ProviderStep, BuyerPays,
      BuyerPaysLater, PaymentClears, PaymentFails, SessionExpires, LatePayment,
      ProviderMoves, dbVars
<1>4. ASSUME NEW c \in Checkouts, DeliveryStep(c) \/ SweepStep(c)
      PROVE  Conserved'
  <2>1. CASE ReleaseWebhook(c)
    BY <2>1, ReleaseConserves DEF ReleaseWebhook
  <2>2. CASE SweepExpired(c)
    BY <2>2, ReleaseConserves DEF SweepExpired
  <2>3. CASE PendingWebhook(c)
    <3>1. Holders' = Holders
      BY <2>3 DEF PendingWebhook, Holders, TypeOK, Live
    <3> QED BY <2>3, <3>1, NothingMoves DEF PendingWebhook
  <2> QED
    BY <1>1, <1>4, <2>1, <2>2, <2>3
    DEF DeliveryStep, PaidWebhook, ViewPayPage, ApproveDemo, Begin, SweepStep,
        HideAbandonedAccess, DeleteAbandonedAccess, dbVars
<1>5. ASSUME NEW q \in inFlight, BatchStep(q)
      PROVE  Conserved'
  BY <1>1, <1>5, SettleConserves DEF BatchStep, SettleLoses, SettlementDies, dbVars
<1>6. UNCHANGED vars => Conserved'
  BY <1>1 DEF vars
<1> QED
  BY <1>2, <1>3, <1>4, <1>5, <1>6 DEF Next

\* Every unit the store started with is on the shelf, in a live hold or in an
\* order, whatever is reserved, expired, undone, settled or cut short, and in
\* whatever order.
THEOREM StockIsConserved == Spec => []StockConserved
<1>1. TypeOK /\ TypeOK' /\ IInv /\ Conserved /\ [Next]_vars => Conserved'
  BY ConservedStep
<1>2. Spec => []Conserved
  BY <1>1, ConservedInit, TypeCorrect, InductiveInvariant, PTL DEF Spec
<1>3. Conserved => StockConserved
  BY DEF Conserved
<1> QED
  BY <1>2, <1>3, PTL

-----------------------------------------------------------------------------
(* Checkout implements StockLedger *)

LEMMA LedgerStutters ==
    ASSUME UNCHANGED <<stock, hold>>
    PROVE  UNCHANGED Ledger!ledgerVars
  BY DEF Ledger!ledgerVars, Phase

LEMMA ReleaseGivesBack ==
    ASSUME TypeOK, NEW c \in Checkouts,
           NEW terminal \in {"released", "expired", "failed"},
           Release(c, terminal)
    PROVE  Ledger!GiveBack(c) \/ UNCHANGED Ledger!ledgerVars
<1>1. CASE hold[c] \in Live
  <2>1. hold' = [hold EXCEPT ![c] = terminal]
    BY <1>1 DEF Release
  <2>2. Phase[c] = "held"
    BY <1>1 DEF Phase
  <2>3. Phase' = [Phase EXCEPT ![c] = "returned"]
    BY <2>1 DEF Phase, TypeOK, Live
  <2> QED
    BY <1>1, <2>2, <2>3 DEF Release, Ledger!GiveBack
<1>2. CASE hold[c] \notin Live
  BY <1>2, LedgerStutters DEF Release
<1> QED
  BY <1>1, <1>2

LEMMA ReserveHolds ==
    ASSUME TypeOK, IInv, NEW c \in Checkouts, Reserve(c)
    PROVE  Ledger!Hold(c)
<1>1. hold[c] = "none"
  BY DEF Reserve, IInv, HoldFollowsStage
<1>2. Phase[c] = "idle" /\ Phase' = [Phase EXCEPT ![c] = "held"]
  BY <1>1 DEF Reserve, Phase, TypeOK, Live
<1> QED
  BY <1>2 DEF Reserve, Available, Ledger!Hold

LEMMA SettleSells ==
    ASSUME TypeOK, IInv, NEW q \in inFlight, SettleOrder(q)
    PROVE  Ledger!Sell(q.who) \/ Ledger!SellLate(q.who)
<1>1. q.who \in Checkouts /\ q \in Settlements
  BY DEF TypeOK, Settlements
<1>2. Phase' = [Phase EXCEPT ![q.who] = "sold"]
  BY <1>1 DEF SettleOrder, Phase, TypeOK, Live
<1>3. CASE hold[q.who] \in Live
  <2>1. SkipStock(q)
    BY <1>1, <1>3 DEF IInv, InFlightIsPaid, SkipStock, Live
  <2>2. Phase[q.who] = "held"
    BY <1>1, <1>3 DEF Phase
  <2> QED
    BY <1>2, <2>1, <2>2 DEF SettleOrder, Ledger!Sell
<1>4. CASE hold[q.who] \notin Live
  <2>1. Phase[q.who] = "returned"
    BY <1>1, <1>4 DEF SettleOrder, CanSettle, Settleable, Phase, Live
  <2>2. /\ stock' = [t \in Targets |-> stock'[t]]
        /\ \A t \in Targets : /\ stock'[t] \in Nat
                              /\ stock'[t] <= stock[t]
                              /\ stock[t] <= stock'[t] + Cart[q.who][t]
    <3> DEFINE who == q.who
    <3>1. stock \in [Targets -> Nat] /\ Cart[who] \in [Targets -> Nat]
      BY <1>1, CheckoutAssumption DEF TypeOK
    <3>2. stock' = IF SkipStock(q) THEN stock
                   ELSE [t \in Targets |-> stock[t] - LateTake(who)[t]]
      BY DEF SettleOrder
    <3>3. /\ LateTake(who) \in [Targets -> Nat]
          /\ \A t \in Targets : LateTake(who)[t] <= stock[t]
          /\ \A t \in Targets : LateTake(who)[t] <= Cart[who][t]
      BY <1>1, LateTakeType
    <3> HIDE DEF who
    <3>4. CASE SkipStock(q)
      <4>1. stock' = stock
        BY <3>4, <3>2
      <4> QED
        BY <3>1, <4>1 DEF who
    <3>5. CASE ~SkipStock(q)
      <4>1. stock' = [t \in Targets |-> stock[t] - LateTake(who)[t]]
        BY <3>5, <3>2
      <4> QED
        BY <3>1, <3>3, <4>1 DEF who
    <3> QED
      BY <3>4, <3>5
  <2> QED
    BY <1>2, <2>1, <2>2 DEF Ledger!SellLate
<1> QED
  BY <1>3, <1>4

LEMMA StepIsLedgerStep ==
    ASSUME TypeOK, IInv, Next
    PROVE  Ledger!LedgerNext \/ UNCHANGED Ledger!ledgerVars
<1>1. ASSUME NEW c \in Checkouts, CheckoutStep(c)
      PROVE  Ledger!LedgerNext \/ UNCHANGED Ledger!ledgerVars
  <2>1. CASE Reserve(c)
    BY <2>1, ReserveHolds DEF Ledger!LedgerNext
  <2>2. CASE UndoHold(c)
    BY <2>2, ReleaseGivesBack DEF UndoHold, Ledger!LedgerNext
  <2>3. CASE ReleaseListed(c)
    <3>1. PICK e \in listed[c] : Release(e, "expired")
      BY <2>3 DEF ReleaseListed
    <3>2. e \in Checkouts
      BY DEF TypeOK
    <3> QED
      BY <3>1, <3>2, ReleaseGivesBack DEF Ledger!LedgerNext
  <2>4. CASE UNCHANGED <<stock, hold>>
    BY <2>4, LedgerStutters
  <2> QED
    BY <1>1, <2>1, <2>2, <2>3, <2>4
       DEF CheckoutStep, ClaimOrderIdentity, ListExpired, RefuseReserve,
           CreateProviderSession, CreatePendingPayment, HandOver, CreateFails,
           UndoAccess, CheckoutDies, dbVars
<1>2. ASSUME NEW c \in Checkouts, TimeStep(c) \/ ProviderStep(c)
      PROVE  UNCHANGED Ledger!ledgerVars
  BY <1>2, LedgerStutters
     DEF TimeStep, HoldFallsDue, PayWindowCloses, ProviderStep, BuyerPays,
         BuyerPaysLater, PaymentClears, PaymentFails, SessionExpires,
         LatePayment, ProviderMoves, dbVars
<1>3. ASSUME NEW c \in Checkouts, DeliveryStep(c) \/ SweepStep(c)
      PROVE  Ledger!LedgerNext \/ UNCHANGED Ledger!ledgerVars
  <2>1. CASE ReleaseWebhook(c)
    BY <2>1, ReleaseGivesBack DEF ReleaseWebhook, Ledger!LedgerNext
  <2>2. CASE SweepExpired(c)
    BY <2>2, ReleaseGivesBack DEF SweepExpired, Ledger!LedgerNext
  <2>3. CASE PendingWebhook(c)
    <3>1. Phase' = Phase
      BY <2>3 DEF PendingWebhook, Phase, TypeOK, Live
    <3> QED
      BY <2>3, <3>1 DEF PendingWebhook, Ledger!ledgerVars
  <2>4. CASE UNCHANGED <<stock, hold>>
    BY <2>4, LedgerStutters
  <2> QED
    BY <1>3, <2>1, <2>2, <2>3, <2>4
       DEF DeliveryStep, PaidWebhook, ViewPayPage, ApproveDemo, Begin,
           SweepStep, HideAbandonedAccess, DeleteAbandonedAccess, dbVars
<1>4. ASSUME NEW q \in inFlight, BatchStep(q)
      PROVE  Ledger!LedgerNext \/ UNCHANGED Ledger!ledgerVars
  <2>1. CASE SettleOrder(q)
    <3>1. q.who \in Checkouts
      BY DEF TypeOK, Settlements
    <3> QED
      BY <2>1, <3>1, SettleSells DEF Ledger!LedgerNext
  <2>2. CASE SettleLoses(q) \/ SettlementDies(q)
    BY <2>2, LedgerStutters DEF SettleLoses, SettlementDies, dbVars
  <2> QED
    BY <1>4, <2>1, <2>2 DEF BatchStep
<1> QED
  BY <1>1, <1>2, <1>3, <1>4 DEF Next

\* Reserving, expiring, undoing and settling, in any interleaving, do to the
\* stock what the ledger allows: a cart is held whole or not at all, and what
\* was held is sold once or given back once.
THEOREM CheckoutImplementsLedger == Spec => ImplementsLedger
<1>1. Init => Ledger!LedgerInit
  BY DEF Init, Ledger!LedgerInit, Phase, Live
<1>2. TypeOK /\ IInv /\ [Next]_vars => [Ledger!LedgerNext]_(Ledger!ledgerVars)
  <2>1. ASSUME UNCHANGED vars
        PROVE  UNCHANGED Ledger!ledgerVars
    BY <2>1, LedgerStutters DEF vars
  <2> QED
    BY <2>1, StepIsLedgerStep
<1> QED
  BY <1>1, <1>2, TypeCorrect, InductiveInvariant, PTL
     DEF Spec, ImplementsLedger, Ledger!LedgerSpec
=============================================================================

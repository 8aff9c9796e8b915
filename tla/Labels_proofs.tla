---------------------------- MODULE Labels_proofs ----------------------------
(***************************************************************************)
(* What TLAPS proves of Labels for any number of purchases and of          *)
(* concurrent requests: its type invariant, that an order never has two    *)
(* purchases that cost money, that no attempt is lost, that the audit      *)
(* trail tells the truth, and that it implements LabelPurchase.            *)
(***************************************************************************)
EXTENDS Labels, TLAPS

\* What has not been claimed yet has left no trace.
NothingAhead ==
    /\ label.claim <= claims
    /\ \A w \in Workers : job[w].claim <= claims
    /\ \A c \in Claims : c > claims => shippo[c] = "unsent" /\ audit[c] = "none"

\* The row and the audit trail agree; a row that says purchased is there to
\* stay.
RowMatchesAudit ==
    /\ label.status \in {"purchasing", "uncertain"} => audit[label.claim] = "none"
    /\ \A c \in Claims :
          audit[c] = "purchased" => label = [status |-> "purchased", claim |-> c]
    /\ label.status = "purchased" => audit[label.claim] = "purchased"

\* What a request is about to write is true of its claim, and a claim that
\* may still be posted was neither settled nor given to a second request.
JobIsTrue(w) ==
    LET c == job[w].claim
    IN  /\ job[w].at = "rates" =>
              /\ shippo[c] = "unsent"
              /\ audit[c] \in {"none", "force_discarded"}
              /\ \A v \in Workers :
                    job[v].at \in {"rates", "refuse"} /\ job[v].claim = c => v = w
        /\ job[w].at = "posted" => shippo[c] # "unsent"
        /\ job[w].at = "record" => shippo[c] \in {"success", "refunding", "refunded"}
        /\ job[w].at = "refund" => shippo[c] = "refunded"
        /\ job[w].at = "refuse" => shippo[c] \in {"unsent", "refused", "error"}

IInv == /\ NothingAhead
        /\ RowMatchesAudit
        /\ EveryClaimIsAccounted
        /\ AuditIsTrue
        /\ \A w \in Workers : JobIsTrue(w)
        /\ OneRouteFulfils
        /\ LabelledOrderIsTold
-----------------------------------------------------------------------------

LEMMA IdleIsJob == Idle \in Jobs
  BY DEF Idle, Jobs, NoClaim

LEMMA AbsentIsLabel == Absent \in Labels
  BY DEF Absent, Labels, NoClaim

LEMMA TypeInit == Init => TypeOK
<1> SUFFICES ASSUME Init PROVE TypeOK
  OBVIOUS
<1>1. label \in Labels /\ job \in [Workers -> Jobs]
  BY IdleIsJob, AbsentIsLabel DEF Init
<1>2. audit \in [Claims -> Outcomes] /\ shippo \in [Claims -> Fates]
  BY DEF Init, Outcomes, Fates
<1>3. claims \in 0..MaxClaims
  BY LabelsAssumption DEF Init
<1> QED
  BY <1>1, <1>2, <1>3 DEF Init, TypeOK

LEMMA FinishType ==
    ASSUME TypeOK, NEW w \in Workers, Finish(w)
    PROVE  job' \in [Workers -> Jobs]
  BY IdleIsJob DEF TypeOK, Finish

\* A request that holds a claim moves to another step that does.
LEMMA MoveType ==
    ASSUME TypeOK, NEW w \in Workers, job[w].at \notin {"idle", "queue"},
           NEW step \in {"rates", "posted", "ask", "record", "refund", "refuse",
                        "park"},
           Move(w, step)
    PROVE  job' \in [Workers -> Jobs]
  BY DEF TypeOK, Move, Jobs

LEMMA TypeStep == TypeOK /\ [Next]_vars => TypeOK'
<1> SUFFICES ASSUME TypeOK, [Next]_vars PROVE TypeOK'
  OBVIOUS
<1> USE LabelsAssumption
<1> USE DEF TypeOK, Labels, Jobs, Outcomes, Fates, Claims, NoClaim, Idle, Absent,
        NoTracking, HandTyped, orderVars
<1>1. ASSUME NEW w \in Workers, BuyStep(w) PROVE TypeOK'
  <2>1. CASE ClaimPurchase(w)
    BY <2>1 DEF ClaimPurchase
  <2>2. CASE RatesGone(w)
    BY <2>2 DEF RatesGone, Move
  <2>3. CASE PurchaseLabel(w)
    BY <2>3 DEF PurchaseLabel, Move
  <2>4. CASE Answered(w)
    BY <2>4 DEF Answered, AfterAnswer, Move
  <2>5. CASE AnswerLost(w)
    BY <2>5 DEF AnswerLost, Move
  <2> QED
    BY <1>1, <2>1, <2>2, <2>3, <2>4, <2>5 DEF BuyStep
<1>2. ASSUME NEW w \in Workers, ReconcileStep(w) PROVE TypeOK'
  <2>1. CASE ReadAttempt(w)
    BY <2>1 DEF ReadAttempt
  <2>2. CASE FindTransaction(w)
    BY <2>2, MoveType, FinishType DEF FindTransaction, Proves
  <2> QED
    BY <1>2, <2>1, <2>2 DEF ReconcileStep
<1>3. ASSUME NEW w \in Workers, SettleStep(w) PROVE TypeOK'
  <2>1. CASE RecordPurchased(w)
    <3>1. job' \in [Workers -> Jobs]
      BY <2>1, FinishType DEF RecordPurchased
    <3>2. job[w].claim \in Claims /\ order' = order /\ claims' = claims
          /\ shippo' = shippo
      BY <2>1 DEF RecordPurchased
    <3>3. label' \in Labels /\ audit' \in [Claims -> Outcomes]
      BY <2>1, <3>2 DEF RecordPurchased, Held, Open, Settle, Audit
    <3>4. fulfilled' \in BOOLEAN /\ tracking' \in Claims \cup {NoTracking, HandTyped}
      BY <2>1, <3>2 DEF RecordPurchased
    <3>5. notice' \in BOOLEAN
      BY <2>1 DEF RecordPurchased
    <3> QED
      BY <3>1, <3>2, <3>3, <3>4, <3>5
  <2>2. CASE MarkLabelFailed(w)
    BY <2>2 DEF MarkLabelFailed, Open, Settle, Audit, Finish
  <2>3. CASE RecordRefundedAttempt(w)
    BY <2>3 DEF RecordRefundedAttempt, Open, Settle, Audit, Finish
  <2>4. CASE MarkLabelUncertain(w)
    BY <2>4 DEF MarkLabelUncertain, Finish
  <2> QED
    BY <1>3, <2>1, <2>2, <2>3, <2>4 DEF SettleStep
<1>4. ASSUME NEW w \in Workers, HandStep(w) \/ RequestDies(w) PROVE TypeOK'
  <2>1. CASE FulfillOrder(w)
    BY <2>1 DEF FulfillOrder
  <2>2. CASE QueueNotification(w)
    BY <2>2, FinishType DEF QueueNotification
  <2>3. CASE RequestDies(w)
    BY <2>3, FinishType DEF RequestDies
  <2> QED
    BY <1>4, <2>1, <2>2, <2>3 DEF HandStep
<1>5. ASSUME NEW c \in Claims, ShippoJudges(c) \/ DashboardRefund(c) PROVE TypeOK'
  <2> SUFFICES ASSUME NEW from \in Fates, NEW to \in Fates, Becomes(c, from, to)
               PROVE  TypeOK'
    BY <1>5 DEF ShippoJudges, DashboardRefund
  <2> QED
    BY DEF Becomes
<1>6. CASE RecordQuote \/ DiscardLabelAttempt \/ ForceDiscardLabelAttempt
  BY <1>6 DEF RecordQuote, DiscardLabelAttempt, ForceDiscardLabelAttempt, Audit
<1>7. CASE UnfulfillOrder \/ RefundChanges
  BY <1>7 DEF UnfulfillOrder, RefundChanges
<1>8. CASE UNCHANGED vars
  BY <1>8 DEF vars
<1> QED
  BY <1>1, <1>2, <1>3, <1>4, <1>5, <1>6, <1>7, <1>8 DEF Next

LEMMA InvInit == Init => IInv
  BY LabelsAssumption
     DEF Init, IInv, NothingAhead, RowMatchesAudit, EveryClaimIsAccounted,
         AuditIsTrue, JobIsTrue, OneRouteFulfils, LabelledOrderIsTold, Absent,
         Idle, Claims, NoClaim, NoTracking, Open

LEMMA InvStep == TypeOK /\ IInv /\ [Next]_vars => IInv'
<1> SUFFICES ASSUME TypeOK, IInv, [Next]_vars PROVE IInv'
  OBVIOUS
<1> USE LabelsAssumption
<1> USE DEF TypeOK, Labels, Jobs, Outcomes, Fates, Claims, NoClaim, Idle, Absent,
        NoTracking, HandTyped, orderVars, IInv, NothingAhead, RowMatchesAudit,
        EveryClaimIsAccounted, AuditIsTrue, JobIsTrue, OneRouteFulfils,
        LabelledOrderIsTold, Open
<1>1. ASSUME NEW w \in Workers, BuyStep(w) PROVE IInv'
  <2>1. CASE ClaimPurchase(w)
    BY <2>1 DEF ClaimPurchase, Eligible
  <2>2. CASE RatesGone(w)
    BY <2>2 DEF RatesGone, Move
  <2>3. CASE PurchaseLabel(w)
    BY <2>3 DEF PurchaseLabel, Move
  <2>4. CASE Answered(w)
    BY <2>4 DEF Answered, AfterAnswer, Move
  <2>5. CASE AnswerLost(w)
    BY <2>5 DEF AnswerLost, Move
  <2> QED
    BY <1>1, <2>1, <2>2, <2>3, <2>4, <2>5 DEF BuyStep
<1>2. ASSUME NEW w \in Workers, ReconcileStep(w) PROVE IInv'
  <2>1. CASE ReadAttempt(w)
    BY <2>1 DEF ReadAttempt
  <2>2. CASE FindTransaction(w)
    <3>1. CASE Finish(w)
      BY <2>2, <3>1 DEF FindTransaction, Finish
    <3>2. CASE Move(w, "record") /\ shippo[job[w].claim] = "success"
      BY <2>2, <3>2 DEF FindTransaction, Move
    <3>3. CASE Move(w, "refund") /\ shippo[job[w].claim] = "refunded"
      BY <2>2, <3>3 DEF FindTransaction, Move
    <3>4. CASE Move(w, "refuse") /\ shippo[job[w].claim] = "error"
      BY <2>2, <3>4 DEF FindTransaction, Move
    <3> QED
      BY <2>2, <3>1, <3>2, <3>3, <3>4 DEF FindTransaction, Proves
  <2> QED
    BY <1>2, <2>1, <2>2 DEF ReconcileStep
<1>3. ASSUME NEW w \in Workers, SettleStep(w) PROVE IInv'
  <2>1. CASE RecordPurchased(w)
    <3> DEFINE c == job[w].claim
    <3>1. /\ c \in Claims /\ job' = [job EXCEPT ![w] = Idle]
          /\ UNCHANGED <<order, claims, shippo>>
          /\ shippo[c] \in {"success", "refunding", "refunded"}
      BY <2>1 DEF RecordPurchased, Finish
    <3>2. CASE Held(c)
      <4>1. /\ label' = [status |-> "purchased", claim |-> c]
            /\ audit' = [audit EXCEPT ![c] = "purchased"]
        BY <2>1, <3>1, <3>2 DEF RecordPurchased, Held, Settle, Audit
      <4>2. \/ tracking' = c /\ notice' = TRUE
            \/ tracking' = tracking /\ (notice => notice')
        BY <2>1, <3>1, <3>2 DEF RecordPurchased
      <4>3. NothingAhead' /\ RowMatchesAudit'
        BY <3>1, <3>2, <4>1 DEF Held
      <4>4. EveryClaimIsAccounted' /\ AuditIsTrue' /\ OneRouteFulfils'
        BY <3>1, <3>2, <4>1 DEF Held
      <4>5. (\A v \in Workers : JobIsTrue(v))'
        BY <3>1, <4>1
      <4>6. LabelledOrderIsTold'
        BY <3>1, <4>1, <4>2
      <4> QED
        BY <4>3, <4>4, <4>5, <4>6
    <3>3. CASE ~Held(c)
      <4>1. UNCHANGED <<label, audit, fulfilled, tracking>> /\ notice' = notice
        BY <2>1, <3>3 DEF RecordPurchased, Lands
      <4> QED
        BY <3>1, <4>1
    <3> QED
      BY <3>2, <3>3
  <2>2. CASE MarkLabelFailed(w)
    BY <2>2 DEF MarkLabelFailed, Settle, Audit, Finish
  <2>3. CASE RecordRefundedAttempt(w)
    <3>1. NothingAhead'
      BY <2>3 DEF RecordRefundedAttempt, Settle, Audit, Finish
    <3>2. RowMatchesAudit'
      BY <2>3 DEF RecordRefundedAttempt, Settle, Audit, Finish
    <3>3. EveryClaimIsAccounted'
      BY <2>3 DEF RecordRefundedAttempt, Settle, Audit, Finish
    <3>4. AuditIsTrue'
      BY <2>3 DEF RecordRefundedAttempt, Settle, Audit, Finish
    <3>5. (\A v \in Workers : JobIsTrue(v))'
      BY <2>3 DEF RecordRefundedAttempt, Settle, Audit, Finish
    <3>6. OneRouteFulfils'
      BY <2>3 DEF RecordRefundedAttempt, Settle, Audit, Finish
    <3>7. LabelledOrderIsTold'
      BY <2>3 DEF RecordRefundedAttempt, Settle, Audit, Finish
    <3> QED
      BY <3>1, <3>2, <3>3, <3>4, <3>5, <3>6, <3>7
  <2>4. CASE MarkLabelUncertain(w)
    BY <2>4 DEF MarkLabelUncertain, Finish
  <2> QED
    BY <1>3, <2>1, <2>2, <2>3, <2>4 DEF SettleStep
<1>4. ASSUME NEW w \in Workers, HandStep(w) \/ RequestDies(w) PROVE IInv'
  <2>1. CASE FulfillOrder(w)
    BY <2>1 DEF FulfillOrder
  <2>2. CASE QueueNotification(w)
    BY <2>2 DEF QueueNotification, Finish
  <2>3. CASE RequestDies(w)
    BY <2>3 DEF RequestDies, Finish
  <2> QED
    BY <1>4, <2>1, <2>2, <2>3 DEF HandStep
<1>5. ASSUME NEW c \in Claims, ShippoJudges(c) \/ DashboardRefund(c) PROVE IInv'
  <2>1. CASE ShippoJudges(c)
    <3>1. PICK to \in {"refused", "queued", "success", "error"} :
             /\ shippo[c] \in {"travelling", "queued"}
             /\ shippo' = [shippo EXCEPT ![c] = to]
             /\ UNCHANGED <<orderVars, label, audit, claims, job>>
      BY <2>1 DEF ShippoJudges, Becomes
    <3>2. audit[c] \notin {"failed", "purchased", "refunded"} /\ ~(c > claims)
      BY <3>1
    <3>3. NothingAhead' /\ AuditIsTrue'
      BY <3>1, <3>2
    <3>4. RowMatchesAudit' /\ EveryClaimIsAccounted'
      BY <3>1
    <3>5. (\A v \in Workers : JobIsTrue(v))'
      BY <3>1
    <3>6. OneRouteFulfils' /\ LabelledOrderIsTold'
      BY <3>1
    <3> QED
      BY <3>3, <3>4, <3>5, <3>6
  <2>2. CASE DashboardRefund(c)
    <3>1. PICK to \in {"refunding", "success", "refunded"} :
             /\ shippo[c] \in {"success", "refunding"}
             /\ shippo' = [shippo EXCEPT ![c] = to]
             /\ UNCHANGED <<orderVars, label, audit, claims, job>>
      BY <2>2 DEF DashboardRefund, Becomes
    <3>2. audit[c] \notin {"failed", "refunded"} /\ ~(c > claims)
      BY <3>1
    <3>3. NothingAhead' /\ AuditIsTrue'
      BY <3>1, <3>2
    <3>4. RowMatchesAudit' /\ EveryClaimIsAccounted'
      BY <3>1
    <3>5. (\A v \in Workers : JobIsTrue(v))'
      BY <3>1
    <3>6. OneRouteFulfils' /\ LabelledOrderIsTold'
      BY <3>1
    <3> QED
      BY <3>3, <3>4, <3>5, <3>6
  <2> QED
    BY <1>5, <2>1, <2>2
<1>6. CASE RecordQuote \/ DiscardLabelAttempt \/ ForceDiscardLabelAttempt
  BY <1>6 DEF RecordQuote, DiscardLabelAttempt, ForceDiscardLabelAttempt, Audit
<1>7. CASE UnfulfillOrder \/ RefundChanges
  BY <1>7 DEF UnfulfillOrder, RefundChanges
<1>8. CASE UNCHANGED vars
  BY <1>8 DEF vars
<1> QED
  BY <1>1, <1>2, <1>3, <1>4, <1>5, <1>6, <1>7, <1>8 DEF Next

\* In an invariant state only the claim the row holds may cost money, unless
\* it was force-discarded.
LEMMA OneChargeFollows == TypeOK /\ IInv => OneCharge
<1> SUFFICES ASSUME TypeOK, IInv,
                    NEW c \in Claims, MayCost(c), audit[c] # "force_discarded"
             PROVE  label.claim = c
  BY DEF OneCharge
<1>1. c \in 1..claims
  BY LabelsAssumption DEF IInv, NothingAhead, MayCost, TypeOK, Claims
<1>2. audit[c] \in {"none", "purchased"}
  BY DEF IInv, AuditIsTrue, MayCost, TypeOK, Outcomes
<1>3. CASE audit[c] = "none"
  BY <1>1, <1>3 DEF IInv, EveryClaimIsAccounted, Open
<1>4. CASE audit[c] = "purchased"
  BY <1>4 DEF IInv, RowMatchesAudit
<1> QED
  BY <1>2, <1>3, <1>4

\* The inductive invariant holds in every reachable state.
THEOREM InductiveInvariant == Spec => [](TypeOK /\ IInv)
<1>1. Init => TypeOK /\ IInv
  BY TypeInit, InvInit
<1>2. TypeOK /\ IInv /\ [Next]_vars => (TypeOK /\ IInv)'
  BY TypeStep, InvStep
<1> QED
  BY <1>1, <1>2, PTL DEF Spec

\* Every variable keeps its type, whatever the purchases and the requests.
THEOREM TypeCorrect == Spec => []TypeOK
  BY InductiveInvariant, PTL

\* An order never has two purchases that cost money, unless a human
\* force-discarded one of them.
THEOREM NeverChargedTwice == Spec => []OneCharge
  BY InductiveInvariant, OneChargeFollows, PTL

\* No quote, discard or newer claim loses an attempt that was made.
THEOREM NoClaimIsLost == Spec => []EveryClaimIsAccounted
<1>1. IInv => EveryClaimIsAccounted
  BY DEF IInv
<1> QED
  BY <1>1, InductiveInvariant, PTL

\* The audit trail never calls a purchase failed that can still be charged.
THEOREM AuditStaysTrue == Spec => []AuditIsTrue
<1>1. IInv => AuditIsTrue
  BY DEF IInv
<1> QED
  BY <1>1, InductiveInvariant, PTL

\* No order is fulfilled by hand while its label is being bought.
THEOREM OneRouteAtATime == Spec => []OneRouteFulfils
<1>1. IInv => OneRouteFulfils
  BY DEF IInv
<1> QED
  BY <1>1, InductiveInvariant, PTL

\* An order with a label's tracking number has its shipped notice queued.
THEOREM LabelledIsTold == Spec => []LabelledOrderIsTold
<1>1. IInv => LabelledOrderIsTold
  BY DEF IInv
<1> QED
  BY <1>1, InductiveInvariant, PTL
-----------------------------------------------------------------------------
(* The abstract purchase *)

\* The purchase under way, or the one that was bought.
Current == IF label.status \in {"purchasing", "uncertain", "purchased"}
           THEN label.claim ELSE NoClaim

Moneys == [c \in Claims |-> Money(shippo[c])]

\* A step that leaves the row's claim, the trail and Shippo alone.
LEMMA PurchaseStutters ==
    ASSUME Current' = Current, UNCHANGED <<audit, shippo>>
    PROVE  UNCHANGED Purchase!purchaseVars
  BY DEF Current, Purchase!purchaseVars

\* A step of Shippo, or of a request to it, moves the money of one claim.
LEMMA MoneyMoves ==
    ASSUME TypeOK, NEW c \in Claims, NEW to \in Fates,
           shippo' = [shippo EXCEPT ![c] = to]
    PROVE  Moneys' = [Moneys EXCEPT ![c] = Money(to)]
  BY DEF TypeOK, Moneys

\* A claim whose outcome is open ends, in the trail and in the row.
LEMMA Ends ==
    ASSUME TypeOK, IInv, NEW c \in Claims, Open(c),
           NEW status \in {"failed", "purchased"}, NEW outcome \in Outcomes,
           Settle(c, status, outcome), UNCHANGED shippo,
           NEW known, Money(shippo[c]) \in known
    PROVE  Purchase!Finish(c, outcome, known, Current')
<1>1. Current = c /\ audit[c] = "none"
  BY DEF Open, Current, IInv, RowMatchesAudit
<1>2. audit' = [audit EXCEPT ![c] = outcome]
  BY <1>1 DEF Settle, Audit
<1> QED
  BY <1>1, <1>2 DEF Purchase!Finish, Current

\* Every step of the label code is a step of the purchase, or none.
LEMMA PurchaseStep ==
    ASSUME TypeOK, IInv, [Next]_vars
    PROVE  [Purchase!PurchaseNext]_(Purchase!purchaseVars)
<1> DEFINE Goal == [Purchase!PurchaseNext]_(Purchase!purchaseVars)
<1>a. ASSUME Current' = Current, UNCHANGED <<audit, shippo>> PROVE Goal
  BY <1>a, PurchaseStutters
<1>b. ASSUME NEW c \in Claims,
             \/ Purchase!Begin(c) \/ Purchase!Ask(c) \/ Purchase!Judge(c)
             \/ Purchase!Return(c) \/ Purchase!Bought(c) \/ Purchase!Failed(c)
             \/ Purchase!Refunded(c) \/ Purchase!GiveUp(c)
      PROVE  Goal
  BY <1>b DEF Purchase!PurchaseNext
<1> HIDE DEF Goal
<1>1. ASSUME NEW w \in Workers, ClaimPurchase(w) PROVE Goal
  <2>1. /\ label.status = "quoted" /\ claims' = claims + 1 /\ claims < MaxClaims
        /\ label' = [status |-> "purchasing", claim |-> claims']
        /\ UNCHANGED <<audit, shippo>>
    BY <1>1 DEF ClaimPurchase
  <2>2. claims' \in Claims /\ claims' > claims
    BY <2>1, LabelsAssumption DEF TypeOK, Claims
  <2>3. audit[claims'] = "none" /\ shippo[claims'] = "unsent"
    BY <2>2 DEF IInv, NothingAhead
  <2>4. Purchase!Begin(claims')
    BY <2>1, <2>2, <2>3 DEF Purchase!Begin, Money
  <2> QED BY <2>2, <2>4, <1>b
<1>2. ASSUME NEW w \in Workers, PurchaseLabel(w) PROVE Goal
  <2> DEFINE c == job[w].claim
  <2>1. /\ c \in Claims /\ c \in 1..claims /\ shippo[c] = "unsent"
        /\ audit[c] \in {"none", "force_discarded"}
        /\ shippo' = [shippo EXCEPT ![c] = "travelling"]
        /\ UNCHANGED <<label, audit>>
    BY <1>2, LabelsAssumption
    DEF PurchaseLabel, IInv, JobIsTrue, NothingAhead, TypeOK, Jobs, Claims
  <2>2. audit[c] = "none" => Open(c)
    BY <2>1 DEF IInv, EveryClaimIsAccounted
  <2>3. Moneys' = [Moneys EXCEPT ![c] = "possible"]
    BY <2>1, MoneyMoves DEF Fates, Money
  <2>4. Purchase!Ask(c)
    BY <2>1, <2>2, <2>3 DEF Purchase!Ask, Purchase!Charge, Moneys, Money, Open
  <2> QED BY <2>1, <2>4, <1>b
<1>3. ASSUME NEW c \in Claims, NEW from \in Fates, NEW to \in Fates,
             Becomes(c, from, to)
      PROVE  /\ Money(from) = Money(to) => Goal
             /\ from \in {"travelling", "queued"}
                /\ to \in {"refused", "success", "error"} => Goal
             /\ from = "refunding" /\ to = "refunded" => Goal
  <2>1. /\ shippo[c] = from /\ UNCHANGED <<label, audit>>
        /\ shippo' = [shippo EXCEPT ![c] = to]
        /\ Moneys' = [Moneys EXCEPT ![c] = Money(to)]
        /\ Moneys[c] = Money(from)
    BY <1>3, MoneyMoves DEF Becomes, Moneys
  <2>2. ASSUME Money(from) = Money(to) PROVE Goal
    <3>1. Moneys' = Moneys
      BY <2>1, <2>2 DEF Moneys
    <3> QED BY <2>1, <3>1 DEF Goal, Purchase!purchaseVars, Moneys
  <2>3. ASSUME from \in {"travelling", "queued"}, to \in {"refused", "success", "error"}
        PROVE  Goal
    <3>1. Money(from) = "possible" /\ Money(to) \in {"refused", "taken"}
      BY <2>3 DEF Money
    <3>2. Purchase!Judge(c)
      BY <2>1, <3>1 DEF Purchase!Judge, Purchase!Charge, Moneys
    <3> QED BY <3>2, <1>b
  <2>4. ASSUME from = "refunding", to = "refunded" PROVE Goal
    <3>1. Money(from) = "taken" /\ Money(to) = "returned"
      BY <2>4 DEF Money
    <3>2. Purchase!Return(c)
      BY <2>1, <3>1 DEF Purchase!Return, Purchase!Charge, Moneys
    <3> QED BY <3>2, <1>b
  <2> QED BY <2>2, <2>3, <2>4
<1>4. ASSUME NEW c \in Claims, ShippoJudges(c) \/ DashboardRefund(c) PROVE Goal
  <2>1. /\ Money("travelling") = Money("queued")
        /\ Money("success") = Money("refunding")
    BY DEF Money
  <2> QED BY <1>3, <1>4, <2>1 DEF ShippoJudges, DashboardRefund, Fates
<1>5. ASSUME NEW w \in Workers, RecordPurchased(w) PROVE Goal
  <2> DEFINE c == job[w].claim
  <2>1. /\ c \in Claims /\ UNCHANGED shippo
        /\ Money(shippo[c]) \in {"taken", "returned"}
    BY <1>5 DEF RecordPurchased, IInv, JobIsTrue, TypeOK, Jobs, Money
  <2>2. CASE Open(c)
    <3>1. Settle(c, "purchased", "purchased")
      BY <1>5, <2>2 DEF RecordPurchased, Held
    <3>2. Current' = c
      BY <2>2, <3>1 DEF Settle, Open, Current, TypeOK, Labels
    <3>3. Purchase!Bought(c)
      BY <2>1, <2>2, <3>1, <3>2, Ends DEF Purchase!Bought, Outcomes
    <3> QED BY <2>1, <3>3, <1>b
  <2>3. CASE label = [status |-> "purchased", claim |-> c]
    <3>1. audit[c] = "purchased"
      BY <2>3 DEF IInv, RowMatchesAudit
    <3>2. UNCHANGED <<label, audit>>
      BY <1>5, <2>3, <3>1 DEF RecordPurchased, Held, Settle, Audit
    <3> QED BY <2>1, <3>2, <1>a DEF Current
  <2>4. CASE ~Held(c)
    BY <1>5, <2>1, <2>4, <1>a DEF RecordPurchased, Current
  <2> QED BY <2>2, <2>3, <2>4 DEF Held
<1>6. ASSUME NEW w \in Workers, MarkLabelFailed(w) PROVE Goal
  <2> DEFINE c == job[w].claim
  <2>1. /\ c \in Claims /\ UNCHANGED shippo
        /\ Money(shippo[c]) \in {"unasked", "refused"}
    BY <1>6 DEF MarkLabelFailed, IInv, JobIsTrue, TypeOK, Jobs, Money
  <2>2. CASE Open(c)
    <3>1. Settle(c, "failed", "failed")
      BY <1>6, <2>2 DEF MarkLabelFailed
    <3>2. Current' = NoClaim
      BY <3>1 DEF Settle, Current, TypeOK, Labels
    <3>3. Purchase!Failed(c)
      BY <2>1, <2>2, <3>1, <3>2, Ends DEF Purchase!Failed, Outcomes
    <3> QED BY <2>1, <3>3, <1>b
  <2>3. CASE ~Open(c)
    BY <1>6, <2>1, <2>3, <1>a DEF MarkLabelFailed, Current
  <2> QED BY <2>2, <2>3
<1>7. ASSUME NEW w \in Workers, RecordRefundedAttempt(w) PROVE Goal
  <2> DEFINE c == job[w].claim
  <2>1. /\ c \in Claims /\ UNCHANGED shippo
        /\ Money(shippo[c]) \in {"returned"}
    BY <1>7 DEF RecordRefundedAttempt, IInv, JobIsTrue, TypeOK, Jobs, Money
  <2>2. CASE Open(c)
    <3>1. Settle(c, "failed", "refunded")
      BY <1>7, <2>2 DEF RecordRefundedAttempt
    <3>2. Current' = NoClaim
      BY <3>1 DEF Settle, Current, TypeOK, Labels
    <3>3. Purchase!Refunded(c)
      BY <2>1, <2>2, <3>1, <3>2, Ends DEF Purchase!Refunded, Outcomes
    <3> QED BY <2>1, <3>3, <1>b
  <2>3. CASE ~Open(c)
    BY <1>7, <2>1, <2>3, <1>a DEF RecordRefundedAttempt, Current
  <2> QED BY <2>2, <2>3
<1>8. ASSUME ForceDiscardLabelAttempt PROVE Goal
  <2> DEFINE c == label.claim
  <2>1. /\ c \in Claims /\ Current = c /\ audit[c] = "none"
        /\ audit' = [audit EXCEPT ![c] = "force_discarded"]
        /\ label' = Absent /\ UNCHANGED shippo
    BY <1>8 DEF ForceDiscardLabelAttempt, Audit, Current, IInv, RowMatchesAudit,
       TypeOK, Labels
  <2>2. Money(shippo[c]) \in Purchase!Charges
    BY <2>1 DEF TypeOK, Fates, Money, Purchase!Charges
  <2>3. Current' = NoClaim
    BY <2>1 DEF Current, Absent
  <2>4. Purchase!GiveUp(c)
    BY <2>1, <2>2, <2>3 DEF Purchase!GiveUp, Purchase!Finish, Current
  <2> QED BY <2>1, <2>4, <1>b
<1>9. ASSUME \/ \E w \in Workers :
                   \/ RatesGone(w) \/ Answered(w) \/ AnswerLost(w)
                   \/ ReconcileStep(w) \/ MarkLabelUncertain(w)
                   \/ HandStep(w) \/ RequestDies(w)
             \/ RecordQuote \/ DiscardLabelAttempt
             \/ UnfulfillOrder \/ RefundChanges
             \/ UNCHANGED vars
      PROVE  Goal
  <2>1. UNCHANGED <<audit, shippo>>
    BY <1>9 DEF RatesGone, Answered, AnswerLost, ReconcileStep, ReadAttempt,
       FindTransaction, MarkLabelUncertain, HandStep, FulfillOrder, QueueNotification,
       RequestDies, RecordQuote, DiscardLabelAttempt, UnfulfillOrder, RefundChanges, vars
  <2>2. Current' = Current
    <3>1. CASE label' = label
      BY <3>1 DEF Current
    <3>2. CASE \E w \in Workers : MarkLabelUncertain(w)
      BY <3>2 DEF MarkLabelUncertain, Current, TypeOK, Labels
    <3>3. CASE RecordQuote \/ DiscardLabelAttempt
      BY <3>3 DEF RecordQuote, DiscardLabelAttempt, Current, Absent
    <3> QED
      BY <1>9, <3>1, <3>2, <3>3
      DEF RatesGone, Answered, AnswerLost, ReconcileStep, ReadAttempt,
          FindTransaction, HandStep, FulfillOrder, QueueNotification,
          RequestDies, UnfulfillOrder, RefundChanges, vars
  <2> QED BY <2>1, <2>2, <1>a
<1>10. Goal
  <2>1. ASSUME NEW w \in Workers, BuyStep(w) PROVE Goal
    BY <2>1, <1>1, <1>2, <1>9 DEF BuyStep
  <2>2. ASSUME NEW w \in Workers, SettleStep(w) PROVE Goal
    BY <2>2, <1>5, <1>6, <1>7, <1>9 DEF SettleStep
  <2> QED BY <2>1, <2>2, <1>4, <1>8, <1>9 DEF Next
<1> QED
  BY <1>10 DEF Goal

\* Whatever requests, late answers and people do with the label of an order is
\* what the abstract purchase allows.
THEOREM LabelsImplementPurchase == Spec => ImplementsPurchase
<1>1. Init => Purchase!PurchaseInit
  BY DEF Init, Absent, Money, Purchase!PurchaseInit
<1>2. TypeOK /\ IInv /\ [Next]_vars => [Purchase!PurchaseNext]_(Purchase!purchaseVars)
  BY PurchaseStep
<1> QED
  BY <1>1, <1>2, InductiveInvariant, PTL
     DEF Spec, ImplementsPurchase, Purchase!PurchaseSpec
=============================================================================

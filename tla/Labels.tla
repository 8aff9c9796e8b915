------------------------------- MODULE Labels -------------------------------
(***************************************************************************)
(* Buying the shipping label of one order.                                 *)
(*                                                                         *)
(* A purchase moves money at Shippo and its answer may be late, ambiguous  *)
(* or lost.  The order has one row in shipping_labels that a request       *)
(* claims before it calls Shippo; every claim carries a fresh token, which *)
(* fences what the request writes afterwards, and its outcome is copied to *)
(* shipping_label_attempts.  A claim is named by its token.  It buys a     *)
(* rate of the shipment that was quoted for it alone, because a quote is   *)
(* spent by the claim and only a new shipment reopens the row: asking      *)
(* Shippo about that rate is asking about the claim.                       *)
(***************************************************************************)
EXTENDS Integers

CONSTANTS Workers,  \* bound: admin requests served at one time
          MaxClaims \* bound: purchases attempted

ASSUME LabelsAssumption == MaxClaims \in Nat \ {0}

Claims == 1..MaxClaims
NoClaim == 0

VARIABLES
    order,     \* orders.status
    fulfilled, \* orders.fulfillment_status = 'fulfilled'
    tracking,  \* whose tracking number the order carries
    notice,    \* the order-shipped row of order_notifications exists
    label,     \* the order's row of shipping_labels
    audit,     \* shipping_label_attempts.outcome of each claim
    claims,    \* claims made so far
    job,       \* job[w]: the request worker w serves
    shippo     \* what Shippo has done with the purchase of each claim

orderVars == <<order, fulfilled, tracking, notice>>
vars == <<order, fulfilled, tracking, notice, label, audit, claims, job, shippo>>

-----------------------------------------------------------------------------
(* Vocabulary *)

\* Besides a claim's own number, a tracking number may be typed by hand.
NoTracking == 0
HandTyped == -1

Absent == [status |-> "absent", claim |-> NoClaim]
Labels == [status : {"absent", "quoted"}, claim : {NoClaim}]
          \cup [status : {"purchasing", "purchased", "failed", "uncertain"},
                claim : Claims]

Outcomes == {"none", "purchased", "refunded", "failed", "force_discarded"}

\* unsent: no request was made; travelling: Shippo has not seen it yet;
\* refused: turned away without a transaction; the others are the states of
\* a transaction.
Fates == {"unsent", "travelling", "refused", "queued", "success", "error",
          "refunding", "refunded"}

Idle == [at |-> "idle", claim |-> NoClaim]
Jobs == [at : {"idle", "queue"}, claim : {NoClaim}]
        \cup [at : {"rates", "posted", "ask", "record", "refund", "refuse",
                    "park"},
              claim : Claims]

TypeOK ==
    /\ order \in {"paid", "refunded"}
    /\ fulfilled \in BOOLEAN
    /\ tracking \in Claims \cup {NoTracking, HandTyped}
    /\ notice \in BOOLEAN
    /\ label \in Labels
    /\ audit \in [Claims -> Outcomes]
    /\ claims \in 0..MaxClaims
    /\ job \in [Workers -> Jobs]
    /\ shippo \in [Claims -> Fates]

Init ==
    /\ order = "paid" /\ fulfilled = FALSE
    /\ tracking = NoTracking
    /\ notice = FALSE
    /\ label = Absent
    /\ audit = [c \in Claims |-> "none"]
    /\ claims = 0
    /\ job = [w \in Workers |-> Idle]
    /\ shippo = [c \in Claims |-> "unsent"]

Move(w, step) == job' = [job EXCEPT ![w].at = step]
Finish(w) == job' = [job EXCEPT ![w] = Idle]

\* Definitions marked "a slip" are plausible errors, each of which breaks a
\* property below; the specification uses none of them.

-----------------------------------------------------------------------------
(* The statements of labelStore *)

Eligible == order = "paid" /\ ~fulfilled

\* The row still holds claim c, its outcome unknown.
Open(c) == label.claim = c /\ label.status \in {"purchasing", "uncertain"}

\* INSERT OR IGNORE: the token is unique, so a first outcome stays.
Audit(c, outcome) ==
    audit' = IF audit[c] = "none" THEN [audit EXCEPT ![c] = outcome] ELSE audit

\* The claim's row ends with a status and its copy in the audit trail.
Settle(c, status, outcome) ==
    /\ label' = [label EXCEPT !.status = status]
    /\ Audit(c, outcome)

RequoteKeepingClaim == \* a slip
    /\ Eligible
    /\ label.status \in {"absent", "quoted", "failed"}
    /\ label' = [label EXCEPT !.status = "quoted"]
    /\ UNCHANGED <<orderVars, audit, claims, job, shippo>>

RecordQuote ==
    /\ Eligible
    /\ label.status \in {"absent", "quoted", "failed"}
    /\ label' = [status |-> "quoted", claim |-> NoClaim]
    /\ UNCHANGED <<orderVars, audit, claims, job, shippo>>

ClaimPurchase(w) ==
    /\ job[w] = Idle
    /\ label.status = "quoted" /\ Eligible
    /\ claims < MaxClaims
    /\ claims' = claims + 1
    /\ label' = [status |-> "purchasing", claim |-> claims']
    /\ job' = [job EXCEPT ![w] = [at |-> "rates", claim |-> claims']]
    /\ UNCHANGED <<orderVars, audit, shippo>>

\* The row holds claim c, and says it was bought once this batch is done.
Held(c) == Open(c) \/ label = [status |-> "purchased", claim |-> c]
LandsAnyway(c) == Eligible \* a slip
Lands(c) == Held(c) /\ Eligible

\* One batch of four statements.  The last two look at the row as the first
\* one left it, whether or not it was this call that changed it.
RecordPurchased(w) ==
    LET c == job[w].claim
    IN  /\ job[w].at = "record"
        /\ IF Held(c) THEN Settle(c, "purchased", "purchased")
                      ELSE UNCHANGED <<label, audit>>
        /\ IF Lands(c) THEN fulfilled' = TRUE /\ tracking' = c
                       ELSE UNCHANGED <<fulfilled, tracking>>
        /\ notice' = (notice \/ (Held(c) /\ fulfilled' /\ tracking' = c))
        /\ Finish(w)
        /\ UNCHANGED <<order, claims, shippo>>

MarkLabelFailed(w) ==
    /\ job[w].at = "refuse"
    /\ IF Open(job[w].claim) THEN Settle(job[w].claim, "failed", "failed")
                             ELSE UNCHANGED <<label, audit>>
    /\ Finish(w)
    /\ UNCHANGED <<orderVars, claims, shippo>>

RecordRefundedAttempt(w) ==
    /\ job[w].at = "refund"
    /\ IF Open(job[w].claim) THEN Settle(job[w].claim, "failed", "refunded")
                             ELSE UNCHANGED <<label, audit>>
    /\ Finish(w)
    /\ UNCHANGED <<orderVars, claims, shippo>>

MarkLabelUncertain(w) ==
    /\ job[w].at = "park"
    /\ label' = IF label = [status |-> "purchasing", claim |-> job[w].claim]
                THEN [label EXCEPT !.status = "uncertain"] ELSE label
    /\ Finish(w)
    /\ UNCHANGED <<orderVars, audit, claims, shippo>>

DiscardStale == \* a slip
    /\ label.status \in {"quoted", "failed", "uncertain"}
    /\ label' = Absent
    /\ UNCHANGED <<orderVars, audit, claims, job, shippo>>

DiscardLabelAttempt ==
    /\ label.status \in {"quoted", "failed"}
    /\ label' = Absent
    /\ UNCHANGED <<orderVars, audit, claims, job, shippo>>

ForceDiscardLabelAttempt ==
    /\ label.status \in {"purchasing", "uncertain"}
    /\ Audit(label.claim, "force_discarded")
    /\ label' = Absent
    /\ UNCHANGED <<orderVars, claims, job, shippo>>

-----------------------------------------------------------------------------
(* The request that buys *)

\* The rates cannot be read again, or no longer offer the one picked.
RatesGone(w) ==
    /\ job[w].at = "rates"
    /\ Move(w, "refuse")
    /\ UNCHANGED <<orderVars, label, audit, claims, shippo>>

PurchaseLabel(w) ==
    /\ job[w].at = "rates"
    /\ shippo' = [shippo EXCEPT ![job[w].claim] = "travelling"]
    /\ Move(w, "posted")
    /\ UNCHANGED <<orderVars, label, audit, claims>>

AfterAnyAnswer(fate) == \* a slip
    IF fate \in {"success", "refunding", "refunded"} THEN "record" ELSE "refuse"

\* What an answer makes of the attempt: only an explicit ERROR or a refusal
\* is a no, and a transaction that is not settled is not an answer.
AfterAnswer(fate) ==
    IF fate \in {"success", "refunding", "refunded"} THEN "record"
    ELSE IF fate \in {"error", "refused"} THEN "refuse"
    ELSE "park"

Answered(w) ==
    /\ job[w].at = "posted"
    /\ shippo[job[w].claim] # "travelling"
    /\ Move(w, AfterAnswer(shippo[job[w].claim]))
    /\ UNCHANGED <<orderVars, label, audit, claims, shippo>>

\* Unreachable, a server error, or an unreadable body: whatever became of it.
AnswerLost(w) ==
    /\ job[w].at = "posted"
    /\ Move(w, "park")
    /\ UNCHANGED <<orderVars, label, audit, claims, shippo>>

-----------------------------------------------------------------------------
(* The request that reconciles *)

\* A purchasing row qualifies when its lease is over, and the request that
\* holds it may live on: the model lets it qualify at any time.
ReadAttempt(w) ==
    /\ job[w] = Idle
    /\ label.status \in {"purchasing", "uncertain"}
    /\ job' = [job EXCEPT ![w] = [at |-> "ask", claim |-> label.claim]]
    /\ UNCHANGED <<orderVars, label, audit, claims, shippo>>

AbsenceProves(fate) == \* a slip
    IF fate = "success" THEN "record"
    ELSE IF fate = "refunded" THEN "refund"
    ELSE IF fate \in {"error", "unsent", "travelling"} THEN "refuse"
    ELSE "idle"

\* What Shippo's record of the rate proves; nothing seen proves nothing.  An
\* error or an incomplete record ends the request as RequestDies does.
Proves(fate) ==
    IF fate = "success" THEN "record"
    ELSE IF fate = "refunded" THEN "refund"
    ELSE IF fate = "error" THEN "refuse"
    ELSE "idle"

FindTransaction(w) ==
    LET step == Proves(shippo[job[w].claim])
    IN  /\ job[w].at = "ask"
        /\ IF step = "idle" THEN Finish(w) ELSE Move(w, step)
        /\ UNCHANGED <<orderVars, label, audit, claims, shippo>>

-----------------------------------------------------------------------------
(* The order *)

FulfillAnyOrder(w) == \* a slip
    /\ job[w] = Idle
    /\ fulfilled' = TRUE /\ tracking' = HandTyped
    /\ job' = [job EXCEPT ![w].at = "queue"]
    /\ UNCHANGED <<order, notice, label, audit, claims, shippo>>

\* Marked shipped by hand; the notice is queued by a statement of its own.
FulfillOrder(w) ==
    /\ job[w] = Idle
    /\ label.status \notin {"purchasing", "uncertain"}
    /\ fulfilled' = TRUE /\ tracking' = HandTyped
    /\ job' = [job EXCEPT ![w].at = "queue"]
    /\ UNCHANGED <<order, notice, label, audit, claims, shippo>>

QueueNotification(w) ==
    /\ job[w].at = "queue"
    /\ notice' = TRUE
    /\ Finish(w)
    /\ UNCHANGED <<order, fulfilled, tracking, label, audit, claims, shippo>>

UnfulfillOrder ==
    /\ fulfilled
    /\ fulfilled' = FALSE /\ tracking' = NoTracking
    /\ UNCHANGED <<order, notice, label, audit, claims, job, shippo>>

\* The order is refunded, or a refund recorded by hand is voided.
RefundChanges ==
    /\ order' \in {"paid", "refunded"} \ {order}
    /\ UNCHANGED <<fulfilled, tracking, notice, label, audit, claims, job, shippo>>

-----------------------------------------------------------------------------
(* Shippo (external), and requests cut short *)

Becomes(c, from, to) ==
    /\ shippo[c] = from
    /\ shippo' = [shippo EXCEPT ![c] = to]
    /\ UNCHANGED <<orderVars, label, audit, claims, job>>

\* The purchase is judged, at once or after waiting in a queue; a label may be
\* refunded in the dashboard.
ShippoJudges(c) ==
    \/ \E fate \in {"refused", "queued", "success", "error"} :
            Becomes(c, "travelling", fate)
    \/ \E fate \in {"success", "error"} : Becomes(c, "queued", fate)

DashboardRefund(c) ==
    \/ Becomes(c, "success", "refunding")
    \/ \E fate \in {"success", "refunded"} : Becomes(c, "refunding", fate)

RequestDies(w) ==
    /\ job[w] # Idle
    /\ Finish(w)
    /\ UNCHANGED <<orderVars, label, audit, claims, shippo>>

BuyStep(w) == ClaimPurchase(w) \/ RatesGone(w) \/ PurchaseLabel(w)
              \/ Answered(w) \/ AnswerLost(w)
ReconcileStep(w) == ReadAttempt(w) \/ FindTransaction(w)
SettleStep(w) == RecordPurchased(w) \/ MarkLabelFailed(w)
                 \/ RecordRefundedAttempt(w) \/ MarkLabelUncertain(w)
HandStep(w) == FulfillOrder(w) \/ QueueNotification(w)

Next ==
    \/ \E w \in Workers : BuyStep(w) \/ ReconcileStep(w) \/ SettleStep(w)
                          \/ HandStep(w) \/ RequestDies(w)
    \/ \E c \in Claims : ShippoJudges(c) \/ DashboardRefund(c)
    \/ RecordQuote \/ DiscardLabelAttempt \/ ForceDiscardLabelAttempt
    \/ UnfulfillOrder \/ RefundChanges

Spec == Init /\ [][Next]_vars

-----------------------------------------------------------------------------
(* Properties *)

\* Shippo has the purchase and may charge or has charged for it.
MayCost(c) == shippo[c] \in {"travelling", "queued", "success", "refunding"}

\* An order never has two purchases that cost money, however late, lost or
\* ambiguous an answer was, unless a human force-discarded one of them.
OneCharge ==
    \A c, d \in Claims :
        MayCost(c) /\ MayCost(d) /\ c # d =>
            "force_discarded" \in {audit[c], audit[d]}

\* Every claim ever made is in the audit trail or still in the row with its
\* outcome open: no quote, discard or newer claim loses an attempt.
EveryClaimIsAccounted ==
    \A c \in 1..claims : audit[c] # "none" \/ Open(c)

\* The audit trail tells the truth about the money: what it calls failed
\* cannot be charged any more, and what it calls bought was bought.
AuditIsTrue ==
    \A c \in Claims :
        /\ audit[c] = "failed" => shippo[c] \in {"unsent", "refused", "error"}
        /\ audit[c] = "purchased" =>
              shippo[c] \in {"success", "refunding", "refunded"}
        /\ audit[c] = "refunded" => shippo[c] = "refunded"

\* While a purchase is submitted and unsettled the order stays unfulfilled, so
\* the tracking of a paid label cannot be beaten by one typed by hand.
OneRouteFulfils ==
    label.status \in {"purchasing", "uncertain"} => ~fulfilled

\* An order that carries a label's tracking number has that label in the audit
\* trail and its shipped notice queued, whatever request died when.
LabelledOrderIsTold ==
    tracking \in Claims => notice /\ audit[tracking] = "purchased"

\* What became of the charge, whatever Shippo calls it.
Money(fate) ==
    CASE fate = "unsent" -> "unasked"
      [] fate \in {"travelling", "queued"} -> "possible"
      [] fate \in {"refused", "error"} -> "refused"
      [] fate \in {"success", "refunding"} -> "taken"
      [] fate = "refunded" -> "returned"

Purchase == INSTANCE LabelPurchase WITH
               current <- IF label.status \in {"purchasing", "uncertain", "purchased"}
                          THEN label.claim ELSE NoClaim,
               outcome <- audit,
               money <- [c \in Claims |-> Money(shippo[c])]

\* Requests that buy, reconcile, discard and die, however late Shippo's answers are,
\* do what the abstract purchase allows: one at a time, each ended once and truly,
\* none sent that has ended, none begun after one was bought.
ImplementsPurchase == Purchase!PurchaseSpec

\* A label fulfils the order only in the batch that records it, as the comment
\* of recordPurchased says.
FulfilsWhatItRecords ==
    [][(~fulfilled /\ fulfilled' /\ tracking' \in Claims) =>
          label.status # "purchased" /\ label'.status = "purchased"]_vars
=============================================================================

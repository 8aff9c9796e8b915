------------------------------ MODULE Refunds ------------------------------
(***************************************************************************)
(* Refund accounting of one paid card order.                               *)
(*                                                                         *)
(* An order carries two refunded totals: what the provider says it has     *)
(* returned, synchronised to the provider's own cumulative number, and     *)
(* what people recorded by hand, added up.  Provider webhooks, retries of  *)
(* queued events and four admin forms move them, each in one guarded       *)
(* batch; what each request does around its batch interleaves.             *)
(*                                                                         *)
(* Statements of different orders touch different rows, so one order and   *)
(* the events of its charge are enough.                                    *)
(***************************************************************************)
EXTENDS Integers, FiniteSets, Functions

CONSTANTS Workers,      \* bound: requests served at one time
          RefundEvents, \* charge.refunded events of the order's charge
          NoEvent,      \* the event of a request that carries none
          Cum,          \* Cum[e]: cumulative refunded total that e reports
          Total,        \* orders.amount_total_cents
          Cash,         \* amounts an admin records as returned by hand
          Notes,        \* notes such a record may carry
          Mismatched,   \* events in another currency than the order's
          Legacy,       \* the order was settled without a payment id
          MaxDeaths     \* bound: requests cut short

ASSUME RefundsAssumption ==
    /\ IsFiniteSet(Workers)
    /\ Total \in Nat \ {0}
    /\ Cash \subseteq Nat \ {0}
    /\ Cum \in [RefundEvents -> 1..Total]
    /\ \E e \in RefundEvents : Cum[e] = Total
    /\ NoEvent \notin RefundEvents
    /\ Mismatched \subseteq RefundEvents
    /\ Legacy \in BOOLEAN
    /\ MaxDeaths \in Nat

VARIABLES
    provider,  \* orders.provider_refunded_cents
    external,  \* orders.external_refunded_cents
    status,    \* orders.status
    review,    \* none, open, or acknowledged ("seen")
    linked,    \* orders.provider_payment_id is set
    synced,    \* provider_sync rows of refunds
    recorded,  \* manual_external rows of refunds
    voided,    \* those with a manual_reversal row
    event,     \* refund_sync_events.status, "absent" without a row
    req,       \* req[w]: the request worker w serves
    mailed,    \* cents the customer was told about
    charge,    \* what the provider has really returned
    issued,    \* events the provider has sent
    acked,     \* events the provider has had an answer to
    deaths     \* requests cut short so far

bookVars == <<provider, external, status, synced, recorded, voided>>
providerVars == <<charge, issued>>
vars == <<provider, external, status, review, linked, synced, recorded,
          voided, event, req, mailed, charge, issued, acked, deaths>>

-----------------------------------------------------------------------------
(* Vocabulary *)

\* at: the next step of the request; by: what it is; event: the event it
\* applies; amount: the cumulative total it reports; delta: by how much its
\* batch advanced the refunded total.
EventSteps == {"persist", "correlate", "unmatched", "contradict", "fail", "mark"}
Steps == EventSteps \cup {"idle", "call", "sync", "check", "flag", "notice"}
Requests == [at : Steps,
             by : {"nobody", "webhook", "retry", "refund", "byhand", "record"},
             event : RefundEvents \cup {NoEvent},
             amount : 0..Total,
             delta : Nat]

Idle == [at |-> "idle", by |-> "nobody", event |-> NoEvent, amount |-> 0,
         delta |-> 0]

\* Idempotency keys: one per provider event, one per amount a merchant copies
\* from the dashboard, one for a full refund made here.
Keys == ({"event"} \X RefundEvents) \cup ({"sync", "full"} \X (0..Total))

EventStates ==
    {"absent", "pending", "processed", "unmatched", "failed", "dismissed"}

TypeOK ==
    /\ provider \in Nat
    /\ external \in Nat
    /\ status \in {"paid", "refunded"}
    /\ review \in {"none", "open", "seen"}
    /\ linked \in BOOLEAN
    /\ synced \subseteq [key : Keys, amount : Nat]
    /\ recorded \subseteq [amount : Cash, note : Notes]
    /\ voided \subseteq recorded
    /\ event \in [RefundEvents -> EventStates]
    /\ req \in [Workers -> Requests]
    /\ mailed \in Nat
    /\ charge \in 0..Total
    /\ issued \subseteq RefundEvents
    /\ acked \subseteq RefundEvents
    /\ deaths \in Nat

Init ==
    /\ provider = 0 /\ external = 0 /\ status = "paid"
    /\ review = "none"
    /\ linked = ~Legacy
    /\ synced = {} /\ recorded = {} /\ voided = {}
    /\ event = [e \in RefundEvents |-> "absent"]
    /\ req = [w \in Workers |-> Idle]
    /\ mailed = 0
    /\ charge = 0 /\ issued = {} /\ acked = {}
    /\ deaths = 0

Start(w, r) == req[w] = Idle /\ req' = [req EXCEPT ![w] = r]
Move(w, step) == req' = [req EXCEPT ![w].at = step]

\* The response; a webhook's makes the provider stop repeating the event.
Answer(w) ==
    /\ req' = [req EXCEPT ![w] = Idle]
    /\ acked' = IF req[w].by = "webhook" THEN acked \cup {req[w].event} ELSE acked

\* Definitions marked "a slip" are plausible errors, each of which breaks a
\* property below; the specification uses none of them.

\* What the order's own status says of the totals p and x.
StatusForProvider(p, x) == IF p >= Total THEN "refunded" ELSE status \* a slip
StatusFor(p, x) == IF p + x >= Total THEN "refunded" ELSE status

-----------------------------------------------------------------------------
(* The provider (external): somebody refunds the charge, the events follow *)

Returns(e) == /\ charge < Cum[e]
              /\ charge' = Cum[e]
              /\ issued' = issued \cup {e}

DashboardRefund(e) ==
    /\ Returns(e)
    /\ UNCHANGED <<bookVars, review, linked, event, req, mailed, acked, deaths>>

-----------------------------------------------------------------------------
(* Applying a refund event: a webhook, or a retry from the admin queue *)

\* Events are repeated until they are answered, and may be repeated after.
Deliver(w, e) ==
    /\ e \in issued
    /\ Start(w, [Idle EXCEPT !.at = "persist", !.by = "webhook", !.event = e,
                             !.amount = Cum[e]])
    /\ UNCHANGED <<bookVars, review, linked, event, mailed, providerVars,
                   acked, deaths>>

\* The retry has read the queue of unmatched and failed events.
Retry(w, e) ==
    /\ event[e] \in {"unmatched", "failed"}
    /\ Start(w, [Idle EXCEPT !.at = "correlate", !.by = "retry", !.event = e,
                             !.amount = Cum[e]])
    /\ UNCHANGED <<bookVars, review, linked, event, mailed, providerVars,
                   acked, deaths>>

PersistThenAnswer(w) == \* a slip
    /\ req[w].at = "persist"
    /\ event' = [event EXCEPT ![req[w].event] =
                    IF @ = "absent" THEN "pending" ELSE @]
    /\ Move(w, "correlate")
    /\ acked' = acked \cup {req[w].event}
    /\ UNCHANGED <<bookVars, review, linked, mailed, providerVars, deaths>>

PersistRefundEvent(w) ==
    /\ req[w].at = "persist"
    /\ event' = [event EXCEPT ![req[w].event] =
                    IF @ = "absent" THEN "pending" ELSE @]
    /\ Move(w, "correlate")
    /\ UNCHANGED <<bookVars, review, linked, mailed, providerVars, acked, deaths>>

\* By the stored payment id, else by asking the provider for the session, which
\* fills the gap; the provider may be out, or know of no session.
Correlate(w) ==
    /\ req[w].at = "correlate"
    /\ \/ /\ linked' = TRUE
          /\ Move(w, IF req[w].event \in Mismatched THEN "contradict" ELSE "sync")
       \/ /\ ~linked
          /\ Move(w, "unmatched")
          /\ UNCHANGED linked
    /\ UNCHANGED <<bookVars, review, event, mailed, providerVars, acked, deaths>>

MarkEvent(w, as) == event' = [event EXCEPT ![req[w].event] = as]

MarkUnmatched(w) ==
    /\ req[w].at = "unmatched"
    /\ MarkEvent(w, "unmatched")
    /\ Answer(w)
    /\ UNCHANGED <<bookVars, review, linked, mailed, providerVars, deaths>>

\* An event in another currency: the order is flagged, its totals untouched.
Contradict(w) ==
    /\ req[w].at = "contradict"
    /\ review' = "open"
    /\ Move(w, "fail")
    /\ UNCHANGED <<bookVars, linked, event, mailed, providerVars, acked, deaths>>

MarkFailed(w) ==
    /\ req[w].at = "fail"
    /\ MarkEvent(w, "failed")
    /\ Answer(w)
    /\ UNCHANGED <<bookVars, review, linked, mailed, providerVars, deaths>>

-----------------------------------------------------------------------------
(* syncProviderRefund *)

KeyOf(r) == IF r.by \in {"webhook", "retry"} THEN <<"event", r.event>>
            ELSE <<IF r.by = "byhand" THEN "sync" ELSE "full", r.amount>>

AdvancesOnNewKey(r) == KeyOf(r) \notin {row.key : row \in synced} \* a slip

Advances(r) == /\ provider < r.amount
               /\ KeyOf(r) \notin {row.key : row \in synced}

\* The order's total is set, never added to, so a repeated or late report
\* changes nothing; the row carries the difference.
ApplySync(r) ==
    /\ provider' = r.amount
    /\ status' = StatusFor(r.amount, external)
    /\ synced' = synced \cup {[key |-> KeyOf(r), amount |-> r.amount - provider]}
    /\ UNCHANGED <<external, recorded, voided>>

CumulativeOf(r) == IF Advances(r) THEN r.amount ELSE 0 \* a slip
DeltaOf(r) == IF Advances(r) THEN r.amount - provider ELSE 0

AfterSyncRepeatIgnored(r, advanced) == \* a slip
    IF ~advanced THEN "idle"
    ELSE IF r.by \in {"webhook", "retry"} THEN "mark"
    ELSE IF r.by = "byhand" THEN "check" ELSE "notice"

\* Where each caller goes on: events are marked in either case; a form ends
\* with an error when nothing advanced, and a full refund made here does not
\* check the totals.
AfterSync(r, advanced) ==
    IF r.by \in {"webhook", "retry"} THEN "mark"
    ELSE IF ~advanced THEN "idle"
    ELSE IF r.by = "byhand" THEN "check" ELSE "notice"

\* The read before the batch is a fast path: the provider total only grows, so
\* one step stands for the read and the batch.
SyncProviderRefund(w) ==
    /\ req[w].at = "sync"
    /\ LET r == req[w]
           next == AfterSync(r, Advances(r))
       IN  /\ IF Advances(r) THEN ApplySync(r) ELSE UNCHANGED bookVars
           /\ req' = [req EXCEPT ![w] =
                IF next = "idle" THEN Idle
                ELSE [r EXCEPT !.at = next, !.delta = DeltaOf(r)]]
    /\ UNCHANGED <<review, linked, event, mailed, providerVars, acked, deaths>>

MarkProcessed(w) ==
    /\ req[w].at = "mark"
    /\ MarkEvent(w, "processed")
    /\ Move(w, "check")
    /\ UNCHANGED <<bookVars, review, linked, mailed, providerVars, acked, deaths>>

\* openReviewIfOverRefunded: one statement reads, another opens the review.
OverRefunded == provider + external > Total

CheckTotals(w) ==
    /\ req[w].at = "check"
    /\ \/ /\ OverRefunded
          /\ Move(w, "flag")
          /\ UNCHANGED acked
       \/ /\ ~OverRefunded
          /\ req[w].delta > 0
          /\ Move(w, "notice")
          /\ UNCHANGED acked
       \/ /\ ~OverRefunded
          /\ req[w].delta = 0
          /\ Answer(w)
    /\ UNCHANGED <<bookVars, review, linked, event, mailed, providerVars, deaths>>

\* The form goes on to the notice; an event ends as "review" and does not.
Flag(w) ==
    /\ req[w].at = "flag"
    /\ review' = "open"
    /\ IF req[w].by = "byhand" THEN Move(w, "notice") /\ UNCHANGED acked
                               ELSE Answer(w)
    /\ UNCHANGED <<bookVars, linked, event, mailed, providerVars, deaths>>

SendRefundNotice(w) ==
    /\ req[w].at = "notice"
    /\ mailed' = mailed + req[w].delta
    /\ Answer(w)
    /\ UNCHANGED <<bookVars, review, linked, event, providerVars, deaths>>

-----------------------------------------------------------------------------
(* The admin forms *)

\* "Refund": refused after a record by hand, else the provider is called.
RequestRefund(w) ==
    /\ external = 0
    /\ provider + external < Total
    /\ Start(w, [Idle EXCEPT !.at = "call", !.by = "refund", !.amount = Total])
    /\ UNCHANGED <<bookVars, review, linked, event, mailed, providerVars,
                   acked, deaths>>

\* The provider returns what is left of the charge, or refuses.
CallProvider(w) ==
    /\ req[w].at = "call"
    /\ \/ /\ \E e \in RefundEvents : Cum[e] = Total /\ Returns(e)
          /\ Move(w, "sync")
       \/ /\ charge = Total
          /\ req' = [req EXCEPT ![w] = Idle]
          /\ UNCHANGED providerVars
    /\ UNCHANGED <<bookVars, review, linked, event, mailed, acked, deaths>>

\* "Sync": the merchant copies the dashboard's total, which may be overtaken
\* before the request runs.
SyncByHand(w) ==
    /\ charge > 0
    /\ Start(w, [Idle EXCEPT !.at = "sync", !.by = "byhand", !.amount = charge])
    /\ UNCHANGED <<bookVars, review, linked, event, mailed, providerVars,
                   acked, deaths>>

\* "Record": the balance is checked in the batch, and the key, made of amount
\* and note, admits each record once.
FitsBalanceOfRecords(amt) == external + amt <= Total \* a slip
FitsBalance(amt) == provider + external + amt <= Total

RecordExternalRefund(w, amt, note) ==
    LET row == [amount |-> amt, note |-> note]
    IN  /\ FitsBalance(amt)
        /\ row \notin recorded
        /\ recorded' = recorded \cup {row}
        /\ external' = external + amt
        /\ status' = StatusFor(provider, external + amt)
        /\ Start(w, [Idle EXCEPT !.at = "notice", !.by = "record", !.delta = amt])
        /\ UNCHANGED <<provider, synced, voided, review, linked, event, mailed,
                       providerVars, acked, deaths>>

\* "Void": once per record, and a total no longer covered reopens the order.
VoidableAgain(row) == row \in recorded \* a slip
Voidable(row) == row \in recorded \ voided

VoidRecordedRefund(row) ==
    /\ Voidable(row)
    /\ voided' = voided \cup {row}
    /\ external' = IF external > row.amount THEN external - row.amount ELSE 0
    /\ status' = IF provider + external' >= Total THEN "refunded" ELSE "paid"
    /\ UNCHANGED <<provider, synced, recorded, review, linked, event, req,
                   mailed, providerVars, acked, deaths>>

AcknowledgeRefundReview ==
    /\ review = "open"
    /\ review' = "seen"
    /\ UNCHANGED <<bookVars, linked, event, req, mailed, providerVars, acked,
                   deaths>>

\* Only a conflicting event can be dismissed, never an unmatched one.
DismissRefundEvent(e) ==
    /\ event[e] = "failed"
    /\ event' = [event EXCEPT ![e] = "dismissed"]
    /\ UNCHANGED <<bookVars, review, linked, req, mailed, providerVars, acked,
                   deaths>>

-----------------------------------------------------------------------------

\* The Worker is gone between two steps of a request.
RequestDies(w) ==
    /\ req[w] # Idle
    /\ deaths < MaxDeaths
    /\ deaths' = deaths + 1
    /\ req' = [req EXCEPT ![w] = Idle]
    /\ UNCHANGED <<bookVars, review, linked, event, mailed, providerVars, acked>>

RequestStep(w) ==
    \/ PersistRefundEvent(w) \/ Correlate(w) \/ MarkUnmatched(w)
    \/ Contradict(w) \/ MarkFailed(w)
    \/ SyncProviderRefund(w) \/ MarkProcessed(w)
    \/ CheckTotals(w) \/ Flag(w) \/ SendRefundNotice(w)
    \/ CallProvider(w)

FormStep(w) ==
    \/ RequestRefund(w) \/ SyncByHand(w)
    \/ \E amt \in Cash, note \in Notes : RecordExternalRefund(w, amt, note)
    \/ \E e \in RefundEvents : Retry(w, e)

Next ==
    \/ \E w \in Workers : \/ RequestStep(w) \/ FormStep(w) \/ RequestDies(w)
                          \/ \E e \in RefundEvents : Deliver(w, e)
    \/ \E row \in recorded : VoidRecordedRefund(row)
    \/ AcknowledgeRefundReview
    \/ \E e \in RefundEvents : DismissRefundEvent(e) \/ DashboardRefund(e)

Spec == Init /\ [][Next]_vars

-----------------------------------------------------------------------------
(* Safety *)

SumOf(rows) == SumFunctionOnSet([row \in rows |-> row.amount], rows)

\* The history adds up to the totals of the order: rows of the provider to the
\* one, records less reversals to the other.  ("summing succeeded rows would no
\* longer equal external_refunded_cents")
HistoryAddsUp ==
    /\ provider = SumOf(synced)
    /\ external + SumOf(voided) = SumOf(recorded)

\* However webhooks, retries and forms interleave, the order never claims that
\* the provider returned more than it did.
ProviderTotalIsTrue == provider <= charge

\* The order is "refunded" exactly while the two totals cover it.
StatusFollowsTotals == status = "refunded" <=> provider + external >= Total

\* A processed event is counted, whatever was dismissed, retried or repeated
\* around it; and so is whatever a used idempotency key reported, so a key that
\* is taken never hides an advance.
ProcessedIsCounted ==
    /\ \A e \in RefundEvents : event[e] = "processed" => provider >= Cum[e]
    /\ \A row \in synced : /\ row.key[1] = "event" => provider >= Cum[row.key[2]]
                           /\ row.key[1] # "event" => provider >= row.key[2]

Owed == SumFunctionOnSet([w \in Workers |-> req[w].delta], Workers)

\* The customer is told of money once: what was mailed and what is about to be
\* never exceeds what the batches recognised.
MailedAtMostOnce == mailed + Owed <= provider + SumOf(recorded)

\* Webhooks, retries and forms, however they interleave and die, do to the order
\* what the ledger allows: the provider's total follows what was returned, a record
\* fits the balance, the order is closed while the totals cover it, and the customer
\* is told of what was recognised and not yet told.
Books == INSTANCE RefundLedger WITH
            returned <- charge, counted <- provider, byHand <- external,
            recognised <- provider + SumOf(recorded),
            covered <- (status = "refunded"), told <- mailed

ImplementsRefundLedger == Books!RefundSpec

\* "`dismissed` is the terminal state for a conflict a human resolved out of
\* band"
DismissedIsTerminal ==
    [][\A e \in RefundEvents : event[e] = "dismissed" => event'[e] = "dismissed"]_vars

\* "a retry that finally applies a refund, must still mail exactly once": a
\* request whose batch advanced a total does not end in silence.
AdvanceIsMailed ==
    [][\A w \in Workers :
          req[w].delta > 0 /\ req'[w] = Idle /\ deaths' = deaths
              => mailed' = mailed + req[w].delta]_vars

-----------------------------------------------------------------------------
(* Liveness *)

\* A request that is not cut short runs on, and the provider repeats an event
\* until it is answered.  Nothing is asked of admins.
Fairness ==
    /\ \A w \in Workers : WF_vars(RequestStep(w))
    /\ \A e \in RefundEvents :
          SF_vars(e \notin acked /\ \E w \in Workers : Deliver(w, e))

LiveSpec == Spec /\ Fairness

\* What the provider returned reaches the order's total.
RefundIsCounted ==
    \A e \in RefundEvents : e \in issued ~> provider >= Cum[e]

\* Two totals that together exceed the order are put before a human, whichever
\* of the paths moved them.
OverRefundIsReviewed == OverRefunded ~> (review # "none" \/ ~OverRefunded)
=============================================================================

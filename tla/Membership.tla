---------------------------- MODULE Membership ----------------------------
(***************************************************************************)
(* The read model of Stripe's subscriptions: Stripe sends the events of a   *)
(* customer's checkout, subscription and invoices at least once and in no   *)
(* order, the webhook applies each in separate D1 statements, and the       *)
(* store asks the tables whether an address has an active membership.       *)
(***************************************************************************)
EXTENDS FiniteSets, Naturals

CONSTANTS
  Customers,   \* Stripe customers, each with the one subscription its checkout made
  Emails,      \* the addresses they subscribed with
  EmailOf,     \* the address of each customer, as Stripe has it
  Workers,     \* webhook requests in flight
  MaxEvents    \* bound: events Stripe sends

None == "none"

\* customer.subscription.* carries the status and no address; a completed checkout
\* session and an invoice carry the address, and a status of their own vocabulary.
Kinds == {"session", "subscription", "invoice"}

Statuses == {"active", "canceled", "incomplete"}

VARIABLES
  truth,      \* each customer's subscription at Stripe: None, active, canceled
  unanswered, \* the events Stripe has sent and has no 200 for
  sent,       \* how many events Stripe has sent; their ids are 1..sent
  planEnabled,\* whether a plan is configured and enabled
  seen,       \* membership_events: ids of recorded events
  address,    \* membership_customers: None, an address, or the placeholder
  member,     \* memberships: None or the status of each customer's subscription
  audit,      \* membership_audit: ids of events with an audit row
  request,    \* each webhook request
  crashed     \* whether a Worker has ever stopped in the middle

vars == <<truth, unanswered, sent, planEnabled, seen, address, member, audit,
          request, crashed>>

Placeholder == "stripe.invalid"

Event == [id : 1..MaxEvents, kind : Kinds, customer : Customers,
          status : {"active", "canceled"}]

Idle == [at |-> "idle"]

TypeOK == /\ truth \in [Customers -> {None, "active", "canceled"}]
          /\ unanswered \subseteq Event
          /\ sent \in 0..MaxEvents
          /\ planEnabled \in BOOLEAN
          /\ seen \subseteq 1..sent
          /\ address \in [Customers -> Emails \cup {None, Placeholder}]
          /\ member \in [Customers -> Statuses \cup {None}]
          /\ audit \subseteq seen
          /\ request \in [Workers -> {Idle} \cup
                            [at : {"customer", "plan", "membership", "audit"}, event : Event]]
          /\ crashed \in BOOLEAN

Init == /\ truth = [c \in Customers |-> None]
        /\ unanswered = {}
        /\ sent = 0
        /\ planEnabled \in BOOLEAN
        /\ seen = {}
        /\ address = [c \in Customers |-> None]
        /\ member = [c \in Customers |-> None]
        /\ audit = {}
        /\ request = [w \in Workers |-> Idle]
        /\ crashed = FALSE

----------------------------------------------------------------------------
(* Stripe.                                                                  *)

Send(c, status, kinds) ==
  LET n == Cardinality(kinds)
  IN  /\ sent + n <= MaxEvents
      /\ \E ids \in {f \in [kinds -> sent + 1..sent + n] :
                       \A j, k \in kinds : f[j] = f[k] => j = k} :
           unanswered' = unanswered \cup
             {[id |-> ids[k], kind |-> k, customer |-> c, status |-> status] : k \in kinds}
      /\ sent' = sent + n
      /\ truth' = [truth EXCEPT ![c] = status]
      /\ UNCHANGED <<planEnabled, seen, address, member, audit, request, crashed>>

\* The hosted checkout opened by createMembershipCheckout is paid.
Subscribe(c) == truth[c] = None /\ Send(c, "active", Kinds)

Renew(c) == truth[c] = "active" /\ Send(c, "active", {"subscription", "invoice"})

\* In the portal opened by createMembershipPortal, or for want of payment.
Cancel(c) == truth[c] = "active" /\ Send(c, "canceled", {"subscription"})

----------------------------------------------------------------------------
(* The webhook.  A throw answers 400, and Stripe sends the event again.     *)

\* The event's own row comes first, and says "processed"; an id already there
\* is a duplicate, answered 200.
RecordEvent(w, e) ==
  /\ request[w] = Idle
  /\ e \in unanswered
  /\ IF e.id \in seen
     THEN /\ unanswered' = unanswered \ {e}
          /\ UNCHANGED <<seen, request>>
     ELSE /\ seen' = seen \cup {e.id}
          /\ request' = [request EXCEPT ![w] = [at |-> "customer", event |-> e]]
          /\ UNCHANGED unanswered
  /\ UNCHANGED <<truth, sent, planEnabled, address, member, audit, crashed>>

Throw(w) == request' = [request EXCEPT ![w] = Idle]

\* An event without an address brings the placeholder, never NULL, so the COALESCE
\* always takes the event's.
AddressOf(e) == IF e.kind = "subscription" THEN Placeholder ELSE EmailOf[e.customer]

\* Addresses are UNIQUE.  The placeholder holds the customer's id, so it never clashes.
StoreCustomer(w) ==
  /\ request[w].at = "customer"
  /\ LET e == request[w].event
         a == AddressOf(e)
     IN  IF a # Placeholder /\ \E c \in Customers \ {e.customer} : address[c] = a
         THEN Throw(w) /\ UNCHANGED address
         ELSE /\ address' = [address EXCEPT ![e.customer] = a]
              /\ request' = [request EXCEPT ![w].at = "plan"]
  /\ UNCHANGED <<truth, unanswered, sent, planEnabled, seen, member, audit, crashed>>

FindPlan(w) ==
  /\ request[w].at = "plan"
  /\ IF planEnabled THEN request' = [request EXCEPT ![w].at = "membership"] ELSE Throw(w)
  /\ UNCHANGED <<truth, unanswered, sent, planEnabled, seen, address, member, audit, crashed>>

\* `status`: what is no subscription's status is stored as incomplete.
StatusOf(e) == IF e.kind = "subscription" THEN e.status ELSE "incomplete"

StoreMembership(w) ==
  /\ request[w].at = "membership"
  /\ LET e == request[w].event
     IN  member' = [member EXCEPT ![e.customer] = StatusOf(e)]
  /\ request' = [request EXCEPT ![w].at = "audit"]
  /\ UNCHANGED <<truth, unanswered, sent, planEnabled, seen, address, audit, crashed>>

StoreAudit(w) ==
  /\ request[w].at = "audit"
  /\ audit' = audit \cup {request[w].event.id}
  /\ unanswered' = unanswered \ {request[w].event}
  /\ request' = [request EXCEPT ![w] = Idle]
  /\ UNCHANGED <<truth, sent, planEnabled, seen, address, member, crashed>>

\* The Worker stops.
Crash(w) == /\ request[w] # Idle
            /\ Throw(w)
            /\ crashed' = TRUE
            /\ UNCHANGED <<truth, unanswered, sent, planEnabled, seen, address, member, audit>>

Next == \/ \E c \in Customers : Subscribe(c) \/ Renew(c) \/ Cancel(c)
        \/ \E w \in Workers : \/ \E e \in unanswered : RecordEvent(w, e)
                              \/ StoreCustomer(w) \/ FindPlan(w)
                              \/ StoreMembership(w) \/ StoreAudit(w) \/ Crash(w)

Spec == Init /\ [][Next]_vars

----------------------------------------------------------------------------
(* Properties.                                                              *)

\* hasActiveMembership, within the paid period.
HasActiveMembership(email) ==
  \E c \in Customers : address[c] = email /\ member[c] = "active"

Quiet == unanswered = {} /\ \A w \in Workers : request[w] = Idle

\* "Stripe is the source of payment truth; D1 is the application read model used for
\* eligibility and pricing" (migrations/0043, lines 2-3): with a plan configured, no
\* Worker ever stopped and every event answered, an address whose subscription is active
\* at Stripe has an active membership here.
SubscriberIsEntitled ==
  Quiet /\ planEnabled /\ ~crashed
    => \A c \in Customers : truth[c] = "active" => HasActiveMembership(EmailOf[c])
=============================================================================

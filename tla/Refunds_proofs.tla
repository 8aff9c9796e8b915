--------------------------- MODULE Refunds_proofs ---------------------------
(***************************************************************************)
(* What TLAPS proves of Refunds for every order total, every set of events *)
(* and any number of concurrent requests: its type invariant, and that the *)
(* provider total is true, is followed by the status, and counts every     *)
(* processed event; that the history adds up to the totals; that no cent   *)
(* is told twice; and that it implements the ledger of RefundLedger.       *)
(***************************************************************************)
EXTENDS Refunds, Sums

\* What an event in the books or in a request is backed by.
EventsAreIssued ==
    /\ \A e \in issued : Cum[e] <= charge
    /\ \A e \in RefundEvents : event[e] # "absent" => e \in issued

\* What a request carries is true, and an event about to be marked as
\* processed is counted.
RequestIsTrue(r) ==
    /\ r.at \in EventSteps => r.by \in {"webhook", "retry"}
    /\ r.by \in {"webhook", "retry"} =>
          r.event \in issued /\ r.amount = Cum[r.event]
    /\ r.at = "sync" => /\ r.amount <= charge
                        /\ r.by \in {"webhook", "retry", "byhand", "refund"}
    /\ r.at = "call" => r.by = "refund" /\ r.amount = Total
    /\ r.at = "mark" => provider >= r.amount

IInv == /\ EventsAreIssued
        /\ \A w \in Workers : RequestIsTrue(req[w])
        /\ ProviderTotalIsTrue
        /\ StatusFollowsTotals
        /\ ProcessedIsCounted
-----------------------------------------------------------------------------

LEMMA TypeInit == Init => TypeOK
  BY RefundsAssumption DEF Init, TypeOK, Requests, Idle, Steps, EventSteps,
                           EventStates

LEMMA IdleIsRequest == Idle \in Requests
  BY RefundsAssumption DEF Idle, Requests, Steps, EventSteps

LEMMA StartType ==
    ASSUME TypeOK, NEW w \in Workers, NEW r \in Requests, Start(w, r)
    PROVE  req' \in [Workers -> Requests]
  BY DEF Start, TypeOK

\* What a webhook or a retry starts as.
LEMMA EventRequestType ==
    ASSUME NEW e \in RefundEvents, NEW at \in EventSteps,
           NEW by \in {"webhook", "retry"}
    PROVE  [Idle EXCEPT !.at = at, !.by = by, !.event = e, !.amount = Cum[e]]
               \in Requests
<1>1. Cum[e] \in 0..Total /\ 0 \in Nat
  BY RefundsAssumption
<1> QED
  BY <1>1 DEF Idle, Requests, Steps

\* The key of a request that synchronises.
LEMMA KeyType ==
    ASSUME NEW r \in Requests, RequestIsTrue(r), r.at = "sync", TypeOK
    PROVE  /\ KeyOf(r) \in Keys
           /\ KeyOf(r)[1] = "event" => KeyOf(r)[2] \in RefundEvents
           /\ KeyOf(r)[1] = "event" => r.amount = Cum[KeyOf(r)[2]]
           /\ KeyOf(r)[1] # "event" => r.amount = KeyOf(r)[2]
  BY DEF KeyOf, Keys, Requests, RequestIsTrue, TypeOK

LEMMA StatusType ==
    ASSUME TypeOK, NEW p \in Nat, NEW x \in Nat
    PROVE  StatusFor(p, x) \in {"paid", "refunded"}
  BY DEF StatusFor, TypeOK

LEMMA ApplySyncType ==
    ASSUME TypeOK, NEW r \in Requests, RequestIsTrue(r), r.at = "sync",
           Advances(r), ApplySync(r)
    PROVE  /\ provider' \in Nat /\ provider' = r.amount
           /\ status' \in {"paid", "refunded"}
           /\ synced' \subseteq [key : Keys, amount : Nat]
           /\ DeltaOf(r) \in Nat
<1>1. r.amount \in Nat /\ provider \in Nat /\ external \in Nat
      /\ provider < r.amount
  BY RefundsAssumption DEF TypeOK, Requests, Advances
<1>2. r.amount - provider \in Nat
  BY <1>1
<1>3. KeyOf(r) \in Keys
  BY KeyType
<1> QED
  BY <1>1, <1>2, <1>3, StatusType DEF ApplySync, TypeOK, DeltaOf

\* One step of a request keeps the types.
LEMMA RequestType ==
    ASSUME TypeOK, IInv, NEW w \in Workers, RequestStep(w)
    PROVE  TypeOK'
<1> DEFINE r == req[w]
<1>0. r \in Requests /\ RequestIsTrue(r) /\ req \in [Workers -> Requests]
  BY DEF TypeOK, IInv
<1>1. CASE PersistRefundEvent(w)
  BY <1>1, <1>0 DEF PersistRefundEvent, Move, TypeOK, Requests, Steps,
     EventSteps, EventStates, bookVars, providerVars, RequestIsTrue
<1>2. CASE Correlate(w)
  <2>1. req' \in [Workers -> Requests]
    BY <1>2, <1>0 DEF Correlate, Move, Requests, Steps, EventSteps
  <2>2. linked' \in BOOLEAN
    BY <1>2 DEF Correlate, TypeOK
  <2> QED
    BY <1>2, <2>1, <2>2 DEF Correlate, TypeOK, bookVars, providerVars
<1>3. ASSUME r.at \in {"unmatched", "fail", "check", "flag", "notice"},
             Answer(w)
      PROVE  /\ req' \in [Workers -> Requests]
             /\ r.by = "webhook" => r.event \in RefundEvents
             /\ acked' \subseteq RefundEvents
  BY <1>3, <1>0, IdleIsRequest DEF Answer, TypeOK, RequestIsTrue
<1>4. CASE MarkUnmatched(w)
  BY <1>4, <1>3 DEF MarkUnmatched, MarkEvent, TypeOK, EventStates,
     bookVars, providerVars
<1>5. CASE Contradict(w)
  BY <1>5, <1>0 DEF Contradict, Move, TypeOK, Requests, Steps, EventSteps,
     bookVars, providerVars
<1>6. CASE MarkFailed(w)
  BY <1>6, <1>3 DEF MarkFailed, MarkEvent, TypeOK, EventStates,
     bookVars, providerVars
<1>7. CASE SyncProviderRefund(w)
  <2>1. r.at = "sync"
    BY <1>7 DEF SyncProviderRefund
  <2>2. DeltaOf(r) \in Nat
    BY <1>0, RefundsAssumption DEF DeltaOf, Advances, TypeOK, Requests
  <2>3. AfterSync(r, Advances(r)) \in Steps
    BY DEF AfterSync, Steps, EventSteps
  <2>4. req' \in [Workers -> Requests]
    BY <1>7, <1>0, <2>2, <2>3, IdleIsRequest DEF SyncProviderRefund, Requests
  <2>5. CASE Advances(r)
    <3>1. ApplySync(r)
      BY <1>7, <2>5 DEF SyncProviderRefund
    <3> QED
      BY <1>7, <1>0, <2>1, <2>4, <2>5, <3>1, ApplySyncType
      DEF SyncProviderRefund, ApplySync, TypeOK, providerVars
  <2>6. CASE ~Advances(r)
    BY <1>7, <2>4, <2>6 DEF SyncProviderRefund, TypeOK, bookVars, providerVars
  <2> QED
    BY <2>5, <2>6
<1>8. CASE MarkProcessed(w)
  BY <1>8, <1>0 DEF MarkProcessed, MarkEvent, Move, TypeOK, Requests, Steps,
     EventSteps, EventStates, bookVars, providerVars
<1>9. CASE CheckTotals(w)
  <2>1. req' \in [Workers -> Requests] /\ acked' \subseteq RefundEvents
    BY <1>9, <1>0, <1>3 DEF CheckTotals, Move, TypeOK, Requests, Steps
  <2> QED
    BY <1>9, <2>1 DEF CheckTotals, TypeOK, bookVars, providerVars
<1>10. CASE Flag(w)
  <2>1. req' \in [Workers -> Requests] /\ acked' \subseteq RefundEvents
    BY <1>10, <1>0, <1>3 DEF Flag, Move, TypeOK, Requests, Steps
  <2> QED
    BY <1>10, <2>1 DEF Flag, TypeOK, bookVars, providerVars
<1>11. CASE SendRefundNotice(w)
  <2>1. mailed' \in Nat
    BY <1>11, <1>0 DEF SendRefundNotice, TypeOK, Requests
  <2> QED
    BY <1>11, <1>3, <2>1 DEF SendRefundNotice, TypeOK, bookVars, providerVars
<1>12. CASE CallProvider(w)
  <2>1. req' \in [Workers -> Requests]
    BY <1>12, <1>0, IdleIsRequest DEF CallProvider, Move, Requests, Steps
  <2>2. charge' \in 0..Total /\ issued' \subseteq RefundEvents
    BY <1>12, RefundsAssumption DEF CallProvider, Returns, TypeOK, providerVars
  <2> QED
    BY <1>12, <2>1, <2>2 DEF CallProvider, TypeOK, bookVars
<1> QED
  BY <1>1, <1>2, <1>4, <1>5, <1>6, <1>7, <1>8, <1>9, <1>10, <1>11, <1>12
  DEF RequestStep

\* So does the start of one, or a form that ends in one step.
LEMMA FormType ==
    ASSUME TypeOK, NEW w \in Workers, FormStep(w)
    PROVE  TypeOK'
<1>1. CASE RequestRefund(w)
  <2>1. [Idle EXCEPT !.at = "call", !.by = "refund", !.amount = Total]
           \in Requests
    <3>1. Total \in 0..Total /\ 0 \in Nat
      BY RefundsAssumption
    <3> QED
      BY <3>1 DEF Idle, Requests, Steps
  <2> QED
    BY <1>1, <2>1, StartType DEF RequestRefund, TypeOK, bookVars, providerVars
<1>2. CASE SyncByHand(w)
  BY <1>2, IdleIsRequest DEF SyncByHand, Start, Idle, TypeOK, Requests, Steps,
     bookVars, providerVars
<1>3. ASSUME NEW amt \in Cash, NEW note \in Notes,
             RecordExternalRefund(w, amt, note)
      PROVE  TypeOK'
  <2>1. amt \in Nat
    BY RefundsAssumption
  <2>2. req' \in [Workers -> Requests]
    BY <1>3, <2>1, IdleIsRequest
    DEF RecordExternalRefund, Start, Idle, TypeOK, Requests, Steps
  <2>3. external' \in Nat /\ status' \in {"paid", "refunded"}
    BY <1>3, <2>1 DEF RecordExternalRefund, StatusFor, TypeOK
  <2>4. /\ recorded' \subseteq [amount : Cash, note : Notes]
        /\ voided' \subseteq recorded'
    BY <1>3 DEF RecordExternalRefund, TypeOK
  <2> QED
    BY <1>3, <2>2, <2>3, <2>4 DEF RecordExternalRefund, TypeOK, providerVars
<1>4. ASSUME NEW e \in RefundEvents, Retry(w, e)
      PROVE  TypeOK'
  <2>1. req' \in [Workers -> Requests]
    BY <1>4, EventRequestType, StartType DEF Retry, EventSteps
  <2> QED
    BY <1>4, <2>1 DEF Retry, TypeOK, bookVars, providerVars
<1> QED
  BY <1>1, <1>2, <1>3, <1>4 DEF FormStep

LEMMA TypeStep ==
    ASSUME TypeOK, IInv, [Next]_vars
    PROVE  TypeOK'
<1>1. ASSUME NEW w \in Workers, RequestStep(w) PROVE TypeOK'
  BY <1>1, RequestType
<1>2. ASSUME NEW w \in Workers, FormStep(w) PROVE TypeOK'
  BY <1>2, FormType
<1>3. ASSUME NEW w \in Workers, RequestDies(w) PROVE TypeOK'
  BY <1>3, IdleIsRequest DEF RequestDies, TypeOK, bookVars, providerVars
<1>4. ASSUME NEW w \in Workers, NEW e \in RefundEvents, Deliver(w, e)
      PROVE  TypeOK'
  <2>1. req' \in [Workers -> Requests]
    BY <1>4, EventRequestType, StartType DEF Deliver, EventSteps
  <2> QED
    BY <1>4, <2>1 DEF Deliver, TypeOK, bookVars, providerVars
<1>5. ASSUME NEW row \in recorded, VoidRecordedRefund(row) PROVE TypeOK'
  <2>1. row.amount \in Nat
    BY RefundsAssumption DEF TypeOK
  <2>2. external' \in Nat /\ status' \in {"paid", "refunded"}
    BY <1>5, <2>1 DEF VoidRecordedRefund, TypeOK
  <2> QED
    BY <1>5, <2>2 DEF VoidRecordedRefund, Voidable, TypeOK, providerVars
<1>6. CASE AcknowledgeRefundReview
  BY <1>6 DEF AcknowledgeRefundReview, TypeOK, bookVars, providerVars
<1>7. ASSUME NEW e \in RefundEvents, DismissRefundEvent(e) PROVE TypeOK'
  BY <1>7 DEF DismissRefundEvent, TypeOK, EventStates, bookVars, providerVars
<1>8. ASSUME NEW e \in RefundEvents, DashboardRefund(e) PROVE TypeOK'
  BY <1>8, RefundsAssumption DEF DashboardRefund, Returns, TypeOK, bookVars
<1>9. CASE UNCHANGED vars
  BY <1>9 DEF vars, TypeOK
<1> QED
  BY <1>1, <1>2, <1>3, <1>4, <1>5, <1>6, <1>7, <1>8, <1>9 DEF Next
-----------------------------------------------------------------------------
(* The inductive invariant, conjunct by conjunct *)

LEMMA IInvInit == Init => IInv
  BY RefundsAssumption
  DEF Init, IInv, EventsAreIssued, RequestIsTrue, Idle, EventSteps,
      ProviderTotalIsTrue, StatusFollowsTotals, ProcessedIsCounted

\* The provider's charge and the set of its events only grow, together.
LEMMA ChargeGrows ==
    ASSUME TypeOK, IInv, [Next]_vars
    PROVE  /\ issued \subseteq issued' /\ charge <= charge'
           /\ \A e \in issued' : Cum[e] <= charge'
<1>1. ASSUME NEW e \in RefundEvents, Returns(e)
      PROVE  /\ issued \subseteq issued' /\ charge <= charge'
             /\ \A x \in issued' : Cum[x] <= charge'
  <2>1. \A x \in RefundEvents : Cum[x] \in Nat
    BY RefundsAssumption
  <2>2. \A x \in issued : x \in RefundEvents /\ Cum[x] <= charge
    BY DEF IInv, EventsAreIssued, TypeOK
  <2> QED
    BY <1>1, <2>1, <2>2 DEF Returns, TypeOK
<1>2. CASE UNCHANGED providerVars
  BY <1>2 DEF providerVars, IInv, EventsAreIssued, TypeOK
<1>3. \/ \E e \in RefundEvents : Returns(e)
      \/ UNCHANGED providerVars
  <2>1. ASSUME NEW w \in Workers, RequestStep(w) \/ FormStep(w) \/ RequestDies(w)
        PROVE  (\E e \in RefundEvents : Returns(e)) \/ UNCHANGED providerVars
    BY <2>1 DEF RequestStep, FormStep, RequestDies, PersistRefundEvent,
       Correlate, MarkUnmatched, Contradict, MarkFailed, SyncProviderRefund,
       MarkProcessed, CheckTotals, Flag, SendRefundNotice, CallProvider,
       RequestRefund, SyncByHand, RecordExternalRefund, Retry
  <2> QED
    BY <2>1 DEF Next, Deliver, VoidRecordedRefund, AcknowledgeRefundReview,
       DismissRefundEvent, DashboardRefund, vars, providerVars
<1> QED
  BY <1>1, <1>2, <1>3

\* The batch of a synchronisation, from which the totals follow.
LEMMA SyncStep ==
    ASSUME TypeOK, IInv, NEW w \in Workers, SyncProviderRefund(w)
    PROVE  /\ provider' >= provider
           /\ provider' >= req[w].amount
           /\ provider' <= charge
           /\ StatusFollowsTotals' /\ ProcessedIsCounted'
<1> DEFINE r == req[w]
<1>0. /\ r \in Requests /\ RequestIsTrue(r) /\ r.at = "sync"
      /\ r.amount \in Nat /\ r.amount <= charge
      /\ provider \in Nat /\ external \in Nat /\ charge \in Nat
      /\ \A e \in RefundEvents : Cum[e] \in Nat
  BY RefundsAssumption
  DEF SyncProviderRefund, TypeOK, IInv, RequestIsTrue, Requests
<1>1. CASE Advances(r)
  <2>1. /\ provider' = r.amount /\ provider < r.amount /\ external' = external
        /\ status' = StatusFor(r.amount, external)
        /\ synced' = synced \cup {[key |-> KeyOf(r),
                                   amount |-> r.amount - provider]}
        /\ event' = event
    BY <1>1 DEF SyncProviderRefund, ApplySync, Advances
  <2>2. StatusFollowsTotals'
    BY <1>0, <2>1, RefundsAssumption
    DEF StatusFor, StatusFollowsTotals, IInv, TypeOK
  <2>3. ProcessedIsCounted'
    <3>1. \A row \in synced : row.key[1] = "event" => row.key[2] \in RefundEvents
      BY DEF TypeOK, Keys
    <3>2. \A row \in synced : row.key[1] # "event" => row.key[2] \in Nat
      BY RefundsAssumption DEF TypeOK, Keys
    <3>3. \A row \in synced' :
             /\ row.key[1] = "event" => provider' >= Cum[row.key[2]]
             /\ row.key[1] # "event" => provider' >= row.key[2]
      BY <1>0, <2>1, <3>1, <3>2, KeyType DEF IInv, ProcessedIsCounted
    <3> QED
      BY <1>0, <2>1, <3>3 DEF IInv, ProcessedIsCounted
  <2> QED
    BY <1>0, <2>1, <2>2, <2>3
<1>2. CASE ~Advances(r)
  <2>1. UNCHANGED bookVars /\ event' = event
    BY <1>2 DEF SyncProviderRefund
  <2>2. provider >= r.amount
    <3>1. CASE KeyOf(r) \in {row.key : row \in synced}
      <4>1. PICK row \in synced : row.key = KeyOf(r)
        BY <3>1
      <4> QED
        BY <1>0, <4>1, KeyType DEF IInv, ProcessedIsCounted
    <3>2. CASE ~(provider < r.amount)
      BY <1>0, <3>2
    <3> QED
      BY <1>2, <3>1, <3>2 DEF Advances
  <2> QED
    BY <1>0, <2>1, <2>2 DEF bookVars, IInv, ProviderTotalIsTrue,
       StatusFollowsTotals, ProcessedIsCounted
<1> QED
  BY <1>1, <1>2

\* The two totals, the status and the marks.
LEMMA BooksStep ==
    ASSUME TypeOK, IInv, [Next]_vars
    PROVE  /\ provider' >= provider
           /\ ProviderTotalIsTrue' /\ StatusFollowsTotals' /\ ProcessedIsCounted'
<1>0. /\ provider \in Nat /\ external \in Nat /\ Total \in Nat
      /\ charge \in Nat /\ charge' \in Nat /\ charge <= charge'
  <2>1. TypeOK'
    BY TypeStep
  <2> QED
    BY <2>1, ChargeGrows, RefundsAssumption DEF TypeOK
<1>1. ASSUME NEW w \in Workers, SyncProviderRefund(w)
      PROVE  /\ provider' >= provider
             /\ ProviderTotalIsTrue' /\ StatusFollowsTotals'
             /\ ProcessedIsCounted'
  <2>1. charge' = charge
    BY <1>1 DEF SyncProviderRefund, providerVars
  <2> QED
    BY <1>1, <2>1, SyncStep DEF ProviderTotalIsTrue
<1>2. ASSUME NEW w \in Workers, MarkProcessed(w)
      PROVE  /\ provider' >= provider
             /\ ProviderTotalIsTrue' /\ StatusFollowsTotals'
             /\ ProcessedIsCounted'
  <2>1. /\ UNCHANGED <<provider, external, status, synced>>
        /\ event' = [event EXCEPT ![req[w].event] = "processed"]
    BY <1>2 DEF MarkProcessed, MarkEvent, bookVars
  <2>2. provider >= Cum[req[w].event]
    BY <1>2 DEF MarkProcessed, IInv, RequestIsTrue, EventSteps
  <2> QED
    BY <1>0, <2>1, <2>2 DEF IInv, TypeOK, ProviderTotalIsTrue,
       StatusFollowsTotals, ProcessedIsCounted
<1>3. ASSUME NEW w \in Workers, NEW amt \in Cash, NEW note \in Notes,
             RecordExternalRefund(w, amt, note)
      PROVE  /\ provider' >= provider
             /\ ProviderTotalIsTrue' /\ StatusFollowsTotals'
             /\ ProcessedIsCounted'
  <2>1. amt \in Nat
    BY RefundsAssumption
  <2> QED
    BY <1>0, <1>3, <2>1 DEF RecordExternalRefund, StatusFor, IInv, TypeOK,
       ProviderTotalIsTrue, StatusFollowsTotals, ProcessedIsCounted
<1>4. ASSUME NEW row \in recorded, VoidRecordedRefund(row)
      PROVE  /\ provider' >= provider
             /\ ProviderTotalIsTrue' /\ StatusFollowsTotals'
             /\ ProcessedIsCounted'
  BY <1>0, <1>4 DEF VoidRecordedRefund, IInv, ProviderTotalIsTrue,
     StatusFollowsTotals, ProcessedIsCounted
<1>5. ASSUME UNCHANGED bookVars,
             \A e \in RefundEvents : event'[e] = "processed" =>
                                     event[e] = "processed"
      PROVE  /\ provider' >= provider
             /\ ProviderTotalIsTrue' /\ StatusFollowsTotals'
             /\ ProcessedIsCounted'
  BY <1>0, <1>5 DEF bookVars, IInv, ProviderTotalIsTrue, StatusFollowsTotals,
     ProcessedIsCounted
<1>6. ASSUME NEW w \in Workers, RequestStep(w), ~SyncProviderRefund(w),
             ~MarkProcessed(w)
      PROVE  /\ UNCHANGED bookVars
             /\ \A e \in RefundEvents : event'[e] = "processed" =>
                                        event[e] = "processed"
  BY <1>6 DEF RequestStep, PersistRefundEvent, Correlate, MarkUnmatched,
     MarkEvent, Contradict, MarkFailed, CheckTotals, Flag, SendRefundNotice,
     CallProvider, TypeOK
<1>7. ASSUME NEW w \in Workers,
             \/ RequestDies(w) \/ RequestRefund(w) \/ SyncByHand(w)
             \/ \E e \in RefundEvents : Deliver(w, e) \/ Retry(w, e)
      PROVE  UNCHANGED <<bookVars, event>>
  BY <1>7 DEF RequestDies, RequestRefund, SyncByHand, Deliver, Retry
<1>8. ASSUME \/ AcknowledgeRefundReview
             \/ \E e \in RefundEvents : DismissRefundEvent(e) \/ DashboardRefund(e)
             \/ UNCHANGED vars
      PROVE  /\ UNCHANGED bookVars
             /\ \A e \in RefundEvents : event'[e] = "processed" =>
                                        event[e] = "processed"
  BY <1>8 DEF AcknowledgeRefundReview, DismissRefundEvent, DashboardRefund,
     vars, bookVars, TypeOK
<1> QED
  BY <1>1, <1>2, <1>3, <1>4, <1>5, <1>6, <1>7, <1>8 DEF Next, FormStep

\* An event that has a row, or is about to get one, was issued.
LEMMA EventsStep ==
    ASSUME TypeOK, IInv, [Next]_vars
    PROVE  EventsAreIssued'
<1>1. \A e \in RefundEvents : event'[e] # "absent" => e \in issued
  <2>1. ASSUME NEW w \in Workers, RequestStep(w)
        PROVE  \A e \in RefundEvents : event'[e] # "absent" => e \in issued
    <3>1. req[w].at \in EventSteps => req[w].event \in issued
      BY DEF IInv, RequestIsTrue
    <3> QED
      BY <2>1, <3>1 DEF RequestStep, PersistRefundEvent, Correlate,
         MarkUnmatched, MarkEvent, Contradict, MarkFailed, SyncProviderRefund,
         MarkProcessed, CheckTotals, Flag, SendRefundNotice, CallProvider,
         IInv, EventsAreIssued, TypeOK, EventSteps
  <2>2. ASSUME NEW w \in Workers, FormStep(w) \/ RequestDies(w)
        PROVE  event' = event
    BY <2>2 DEF FormStep, RequestDies, RequestRefund, SyncByHand,
       RecordExternalRefund, Retry
  <2> QED
    BY <2>1, <2>2 DEF Next, Deliver, VoidRecordedRefund,
       AcknowledgeRefundReview, DismissRefundEvent, DashboardRefund, vars,
       IInv, EventsAreIssued, TypeOK
<1> QED
  BY <1>1, ChargeGrows DEF EventsAreIssued

\* A request that does not move stays true: totals, charge and events grow.
LEMMA RequestStays ==
    ASSUME TypeOK, IInv, [Next]_vars, NEW w \in Workers, req'[w] = req[w]
    PROVE  RequestIsTrue(req[w])'
<1>1. /\ RequestIsTrue(req[w])
      /\ req[w].amount \in Nat /\ charge \in Nat /\ charge' \in Nat
      /\ provider \in Nat /\ provider' \in Nat
  <2>1. TypeOK'
    BY TypeStep
  <2> QED
    BY <2>1, RefundsAssumption DEF IInv, TypeOK, Requests
<1> QED
  BY <1>1, ChargeGrows, BooksStep DEF RequestIsTrue

LEMMA RequestsStep ==
    ASSUME TypeOK, IInv, [Next]_vars
    PROVE  \A w \in Workers : RequestIsTrue(req[w])'
<1> SUFFICES ASSUME NEW v \in Workers, req'[v] # req[v]
             PROVE  RequestIsTrue(req[v])'
  BY RequestStays
<1>0. /\ req \in [Workers -> Requests] /\ RequestIsTrue(req[v])
      /\ issued \subseteq issued' /\ charge <= charge'
      /\ \A e \in issued : Cum[e] <= charge
      /\ charge \in Nat /\ Total \in Nat /\ provider' >= provider
      /\ req[v].amount \in Nat /\ charge' \in Nat
  <2>1. TypeOK'
    BY TypeStep
  <2> QED
    BY <2>1, RefundsAssumption, ChargeGrows, BooksStep
    DEF TypeOK, IInv, EventsAreIssued, Requests
<1>1. RequestIsTrue(Idle)'
  BY RefundsAssumption DEF RequestIsTrue, Idle, EventSteps
<1>2. CASE RequestStep(v)
  <2>1. CASE PersistRefundEvent(v)
    BY <1>0, <2>1 DEF PersistRefundEvent, Move, RequestIsTrue, Requests,
       EventSteps, providerVars, bookVars
  <2>2. CASE Correlate(v)
    <3>1. req[v].amount <= charge
      BY <1>0, <2>2 DEF Correlate, RequestIsTrue, EventSteps
    <3> QED
      BY <1>0, <2>2, <3>1 DEF Correlate, Move, RequestIsTrue, Requests,
         EventSteps, providerVars, bookVars
  <2>3. CASE MarkUnmatched(v) \/ MarkFailed(v) \/ SendRefundNotice(v)
    BY <1>0, <1>1, <2>3 DEF MarkUnmatched, MarkFailed, SendRefundNotice, Answer
  <2>4. CASE Contradict(v)
    BY <1>0, <2>4 DEF Contradict, Move, RequestIsTrue, Requests, EventSteps,
       providerVars, bookVars
  <2>5. CASE SyncProviderRefund(v)
    <3>1. provider' >= req[v].amount /\ UNCHANGED providerVars
      BY <2>5, SyncStep DEF SyncProviderRefund
    <3>2. CASE AfterSync(req[v], Advances(req[v])) = "idle"
      BY <1>0, <1>1, <2>5, <3>2 DEF SyncProviderRefund
    <3>3. CASE AfterSync(req[v], Advances(req[v])) # "idle"
      BY <1>0, <2>5, <3>1, <3>3
      DEF SyncProviderRefund, AfterSync, RequestIsTrue, Requests, EventSteps,
          providerVars
    <3> QED
      BY <3>2, <3>3
  <2>6. CASE MarkProcessed(v)
    BY <1>0, <2>6 DEF MarkProcessed, Move, RequestIsTrue, Requests, EventSteps,
       providerVars, bookVars
  <2>7. CASE CheckTotals(v) \/ Flag(v)
    <3>1. \/ req'[v] = Idle
          \/ \E step \in {"flag", "notice"} : Move(v, step)
      BY <1>0, <2>7 DEF CheckTotals, Flag, Answer
    <3>2. UNCHANGED providerVars
      BY <2>7 DEF CheckTotals, Flag
    <3> QED
      BY <1>0, <1>1, <3>1, <3>2 DEF Move, RequestIsTrue, Requests, EventSteps,
         providerVars
  <2>8. CASE CallProvider(v)
    <3>1. CASE req'[v] = Idle
      BY <1>1, <3>1
    <3>2. CASE Move(v, "sync") /\ charge' = Total
      <4>1. req[v].by = "refund" /\ req[v].amount = Total
        BY <1>0, <2>8 DEF CallProvider, RequestIsTrue
      <4> QED
        BY <1>0, <3>2, <4>1 DEF Move, RequestIsTrue, Requests, EventSteps
    <3> QED
      BY <1>0, <2>8, <3>1, <3>2 DEF CallProvider, Returns
  <2> QED
    BY <1>2, <2>1, <2>2, <2>3, <2>4, <2>5, <2>6, <2>7, <2>8 DEF RequestStep
<1>3. CASE FormStep(v)
  <2>1. CASE RequestRefund(v)
    BY <1>0, <2>1 DEF RequestRefund, Start, Idle, RequestIsTrue, EventSteps
  <2>2. CASE SyncByHand(v)
    BY <1>0, <2>2 DEF SyncByHand, Start, Idle, RequestIsTrue, EventSteps,
       providerVars
  <2>3. ASSUME NEW amt \in Cash, NEW note \in Notes,
               RecordExternalRefund(v, amt, note)
        PROVE  RequestIsTrue(req[v])'
    BY <1>0, <2>3 DEF RecordExternalRefund, Start, Idle, RequestIsTrue,
       EventSteps
  <2>4. ASSUME NEW e \in RefundEvents, Retry(v, e)
        PROVE  RequestIsTrue(req[v])'
    BY <1>0, <2>4 DEF Retry, Start, Idle, RequestIsTrue, EventSteps,
       providerVars, IInv, EventsAreIssued
  <2> QED
    BY <1>3, <2>1, <2>2, <2>3, <2>4 DEF FormStep
<1>4. CASE RequestDies(v)
  BY <1>0, <1>1, <1>4 DEF RequestDies
<1>5. ASSUME NEW e \in RefundEvents, Deliver(v, e)
      PROVE  RequestIsTrue(req[v])'
  BY <1>0, <1>5 DEF Deliver, Start, Idle, RequestIsTrue, EventSteps, providerVars
<1>6. ASSUME NEW w \in Workers, w # v,
             \/ RequestStep(w) \/ FormStep(w) \/ RequestDies(w)
             \/ \E e \in RefundEvents : Deliver(w, e)
      PROVE  req'[v] = req[v]
  BY <1>0, <1>6 DEF RequestStep, FormStep, RequestDies, Deliver, Start, Move,
     Answer, PersistRefundEvent, Correlate, MarkUnmatched, Contradict,
     MarkFailed, SyncProviderRefund, MarkProcessed, CheckTotals, Flag,
     SendRefundNotice, CallProvider, RequestRefund, SyncByHand,
     RecordExternalRefund, Retry
<1>7. ASSUME \/ \E row \in recorded : VoidRecordedRefund(row)
             \/ AcknowledgeRefundReview
             \/ \E e \in RefundEvents : DismissRefundEvent(e) \/ DashboardRefund(e)
             \/ UNCHANGED vars
      PROVE  req' = req
  BY <1>7 DEF VoidRecordedRefund, AcknowledgeRefundReview, DismissRefundEvent,
     DashboardRefund, vars
<1> QED
  BY <1>2, <1>3, <1>4, <1>5, <1>6, <1>7 DEF Next

-----------------------------------------------------------------------------
(* The history *)

\* A history that has been written so far is finite: a step adds at most a row.
RowsAreFinite == IsFiniteSet(synced) /\ IsFiniteSet(recorded)

Amounts(rows) == [row \in rows |-> row.amount]

\* A row is added to a history of naturals.
LEMMA SumOfAdd ==
    ASSUME NEW rows, IsFiniteSet(rows), NEW row, row \notin rows,
           \A x \in rows \cup {row} : x.amount \in Nat
    PROVE  /\ IsFiniteSet(rows \cup {row})
           /\ SumOf(rows \cup {row}) = SumOf(rows) + row.amount
           /\ SumOf(rows) \in Nat
<1> DEFINE f == Amounts(rows \cup {row})
<1>1. SumFunctionOnSet(f, rows \cup {row}) = f[row] + SumFunctionOnSet(f, rows)
  BY SumAdd DEF Amounts
<1>2. SumFunctionOnSet(f, rows) = SumOf(rows)
  BY SumSame DEF Amounts, SumOf
<1>3. SumOf(rows) \in Nat
  BY SumNat DEF SumOf
<1>4. f[row] = row.amount /\ SumFunctionOnSet(f, rows \cup {row}) = SumOf(rows \cup {row})
  BY DEF Amounts, SumOf
<1> HIDE DEF f
<1> QED
  BY <1>1, <1>2, <1>3, <1>4, FS_AddElement

\* A part of a history sums to no more.
LEMMA SumOfPart ==
    ASSUME NEW rows, IsFiniteSet(rows), NEW part \in SUBSET rows,
           \A x \in rows : x.amount \in Nat
    PROVE  SumOf(part) <= SumOf(rows)
<1>1. SumFunctionOnSet(Amounts(rows), part) <= SumOf(rows)
  BY SumSubset DEF Amounts, SumOf
<1>2. SumFunctionOnSet(Amounts(rows), part) = SumOf(part)
  BY FS_Subset, SumSame DEF Amounts, SumOf
<1> QED
  BY <1>1, <1>2

LEMMA HistoryInit == Init => RowsAreFinite /\ HistoryAddsUp
  BY FS_EmptySet, SumEmpty DEF Init, RowsAreFinite, HistoryAddsUp, SumOf

\* A report that advances the total is one new row, of the difference.
LEMMA SyncAdds ==
    ASSUME TypeOK, RowsAreFinite, NEW w \in Workers, SyncProviderRefund(w),
           Advances(req[w])
    PROVE  /\ IsFiniteSet(synced')
           /\ SumOf(synced') = SumOf(synced) + req[w].amount - provider
           /\ SumOf(synced) \in Nat
<1> DEFINE row == [key |-> KeyOf(req[w]), amount |-> req[w].amount - provider]
<1>1. synced' = synced \cup {row}
  BY DEF SyncProviderRefund, ApplySync
<1>2. row \notin synced /\ row.amount \in Nat /\ row.amount = req[w].amount - provider
  BY RefundsAssumption DEF Advances, TypeOK, Requests
<1>3. \A x \in synced : x.amount \in Nat
  BY DEF TypeOK
<1> HIDE DEF row
<1>4. \A x \in synced \cup {row} : x.amount \in Nat
  BY <1>2, <1>3
<1>5. /\ IsFiniteSet(synced \cup {row})
      /\ SumOf(synced \cup {row}) = SumOf(synced) + row.amount
      /\ SumOf(synced) \in Nat
  BY <1>2, <1>4, SumOfAdd DEF RowsAreFinite
<1>6. req[w].amount \in Int /\ provider \in Int
  BY RefundsAssumption DEF TypeOK, Requests
<1> QED
  BY <1>1, <1>2, <1>5, <1>6

LEMMA RecordAdds ==
    ASSUME TypeOK, RowsAreFinite, NEW w \in Workers, NEW amt \in Cash, NEW note \in Notes,
           RecordExternalRefund(w, amt, note)
    PROVE  /\ IsFiniteSet(recorded')
           /\ SumOf(recorded') = SumOf(recorded) + amt
           /\ SumOf(recorded) \in Nat /\ amt \in Nat
<1> DEFINE row == [amount |-> amt, note |-> note]
<1>1. recorded' = recorded \cup {row} /\ row \notin recorded /\ row.amount = amt
  BY DEF RecordExternalRefund
<1> HIDE DEF row
<1>2. \A x \in recorded \cup {row} : x.amount \in Nat
  BY <1>1, RefundsAssumption DEF TypeOK
<1> QED
  BY <1>1, <1>2, SumOfAdd DEF RowsAreFinite

\* A void is covered: what remains recorded is at least the voided amount, so
\* the floor at zero is never needed.
LEMMA VoidAdds ==
    ASSUME TypeOK, RowsAreFinite, HistoryAddsUp, NEW row \in recorded,
           VoidRecordedRefund(row)
    PROVE  /\ SumOf(voided') = SumOf(voided) + row.amount
           /\ external' = external - row.amount
           /\ SumOf(voided) \in Nat /\ row.amount \in Nat
<1>1. voided' = voided \cup {row} /\ row \notin voided /\ voided' \in SUBSET recorded
  BY DEF VoidRecordedRefund, Voidable, TypeOK
<1>2. \A x \in recorded : x.amount \in Nat
  BY RefundsAssumption DEF TypeOK
<1>3. /\ SumOf(voided') = SumOf(voided) + row.amount
      /\ SumOf(voided) \in Nat
  BY <1>1, <1>2, SumOfAdd, FS_Subset DEF RowsAreFinite, TypeOK
<1>4. SumOf(voided') <= SumOf(recorded)
  BY <1>1, <1>2, SumOfPart DEF RowsAreFinite
<1>5. row.amount <= external
  BY <1>2, <1>3, <1>4 DEF HistoryAddsUp, TypeOK
<1> QED
  BY <1>2, <1>3, <1>5 DEF VoidRecordedRefund, TypeOK

LEMMA HistoryStep ==
    ASSUME TypeOK, RowsAreFinite, HistoryAddsUp, [Next]_vars
    PROVE  RowsAreFinite' /\ HistoryAddsUp'
<1> USE DEF RowsAreFinite, HistoryAddsUp
<1>1. ASSUME NEW w \in Workers, SyncProviderRefund(w)
      PROVE  RowsAreFinite' /\ HistoryAddsUp'
  <2>1. CASE Advances(req[w])
    <3>1. /\ provider' = req[w].amount
          /\ UNCHANGED <<external, recorded, voided>>
      BY <1>1, <2>1 DEF SyncProviderRefund, ApplySync
    <3>2. req[w].amount \in Int /\ provider \in Int
      BY RefundsAssumption DEF TypeOK, Requests
    <3> QED BY <1>1, <2>1, <3>1, <3>2, SyncAdds DEF SumOf
  <2>2. CASE ~Advances(req[w])
    BY <1>1, <2>2 DEF SyncProviderRefund, bookVars, SumOf
  <2> QED BY <2>1, <2>2
<1>2. ASSUME NEW w \in Workers, NEW amt \in Cash, NEW note \in Notes,
             RecordExternalRefund(w, amt, note)
      PROVE  RowsAreFinite' /\ HistoryAddsUp'
  <2>1. external' = external + amt /\ UNCHANGED <<provider, synced, voided>>
    BY <1>2 DEF RecordExternalRefund
  <2>2. SumOf(voided) \in Int
    <3>1. IsFiniteSet(voided)
      BY FS_Subset DEF TypeOK
    <3>2. \A x \in voided : [row \in voided |-> row.amount][x] \in Nat
      BY RefundsAssumption DEF TypeOK
    <3> QED BY <3>1, <3>2, SumNat DEF SumOf
  <2> QED BY <1>2, <2>1, <2>2, RecordAdds DEF SumOf, TypeOK
<1>3. ASSUME NEW row \in recorded, VoidRecordedRefund(row)
      PROVE  RowsAreFinite' /\ HistoryAddsUp'
  <2>1. UNCHANGED <<provider, synced, recorded>>
    BY <1>3 DEF VoidRecordedRefund
  <2> QED BY <1>3, <2>1, VoidAdds DEF SumOf, TypeOK
<1>4. ASSUME \/ \E w \in Workers :
                   \/ RequestStep(w) /\ ~SyncProviderRefund(w)
                   \/ RequestRefund(w) \/ SyncByHand(w) \/ RequestDies(w)
                   \/ \E e \in RefundEvents : Retry(w, e) \/ Deliver(w, e)
             \/ AcknowledgeRefundReview
             \/ \E e \in RefundEvents : DismissRefundEvent(e) \/ DashboardRefund(e)
             \/ UNCHANGED vars
      PROVE  UNCHANGED <<provider, external, synced, recorded, voided>>
  BY <1>4 DEF RequestStep, PersistRefundEvent, Correlate, MarkUnmatched, Contradict,
     MarkFailed, MarkProcessed, CheckTotals, Flag, SendRefundNotice, CallProvider,
     RequestRefund, SyncByHand, RequestDies, Retry, Deliver, AcknowledgeRefundReview,
     DismissRefundEvent, DashboardRefund, bookVars, vars
<1>5. UNCHANGED <<provider, external, synced, recorded, voided>>
         => RowsAreFinite' /\ HistoryAddsUp'
  BY DEF SumOf
<1> QED
  BY <1>1, <1>2, <1>3, <1>4, <1>5 DEF Next, FormStep

-----------------------------------------------------------------------------
(* The mails *)

Deltas == [w \in Workers |-> req[w].delta]

\* What is owed changes with the one request that moves.
LEMMA OwedChange ==
    ASSUME TypeOK, TypeOK', NEW w \in Workers,
           \A v \in Workers : v # w => req'[v] = req[v]
    PROVE  /\ Owed' = Owed + req'[w].delta - req[w].delta
           /\ Owed \in Nat /\ Owed' \in Nat
           /\ req[w].delta \in Nat /\ req'[w].delta \in Nat
<1>1. \A v \in Workers : Deltas[v] \in Nat /\ Deltas'[v] \in Nat
  BY DEF Deltas, TypeOK, Requests
<1>2. IsFiniteSet(Workers)
  BY RefundsAssumption
<1>3. \A v \in Workers \ {w} : Deltas[v] = Deltas'[v]
  BY DEF Deltas
<1>4. Owed = SumFunctionOnSet(Deltas, Workers)
  BY DEF Owed, Deltas
<1>5. Owed' = SumFunctionOnSet(Deltas', Workers)
  BY DEF Owed, Deltas
<1>6. Deltas[w] = req[w].delta /\ Deltas'[w] = req'[w].delta
  BY DEF Deltas
<1> HIDE DEF Deltas
<1>7. Owed' = Owed + Deltas'[w] - Deltas[w]
  <2>1. ASSUME NEW f, NEW g, f = Deltas, g = Deltas'
        PROVE  SumFunctionOnSet(g, Workers) = SumFunctionOnSet(f, Workers) + g[w] - f[w]
    <3>1. \A v \in Workers : f[v] \in Int /\ g[v] \in Int
      BY <1>1, <2>1
    <3>2. \A v \in Workers \ {w} : f[v] = g[v]
      BY <1>3, <2>1
    <3> QED BY <1>2, <3>1, <3>2, SumChange
  <2> QED BY <1>4, <1>5, <2>1
<1>8. Owed \in Nat /\ Owed' \in Nat
  BY <1>1, <1>2, <1>4, <1>5, SumNat
<1> QED
  BY <1>1, <1>6, <1>7, <1>8

\* Nothing is owed before anything is recognised.
LEMMA MailInit == Init => MailedAtMostOnce
<1> SUFFICES ASSUME Init PROVE MailedAtMostOnce
  OBVIOUS
<1>1. SumOf(recorded) = 0
  BY SumEmpty DEF Init, SumOf
<1>2. \A w \in Workers : Deltas[w] = 0
  BY DEF Init, Deltas, Idle
<1>3. Owed = 0
  BY <1>2, RefundsAssumption, SumZero DEF Owed, Deltas
<1> QED
  BY <1>1, <1>3 DEF MailedAtMostOnce, Init

LEMMA IdleOwesNothing == Idle.delta = 0
  BY DEF Idle

LEMMA RecordedSum ==
    ASSUME TypeOK, RowsAreFinite
    PROVE  SumOf(recorded) \in Nat
<1>1. \A row \in recorded : Amounts(recorded)[row] \in Nat
  BY RefundsAssumption DEF TypeOK, Amounts
<1>2. SumOf(recorded) = SumFunctionOnSet(Amounts(recorded), recorded)
  BY DEF SumOf, Amounts
<1> QED
  BY <1>1, <1>2, SumNat DEF RowsAreFinite

LEMMA SameRows == ASSUME UNCHANGED recorded PROVE SumOf(recorded') = SumOf(recorded)
  OBVIOUS

\* A step of a worker that neither counts nor tells anything owes no more.
LEMMA QuietStep ==
    ASSUME TypeOK, TypeOK', RowsAreFinite, MailedAtMostOnce, NEW w \in Workers,
           \A v \in Workers : v # w => req'[v] = req[v],
           req'[w].delta <= req[w].delta,
           UNCHANGED <<mailed, provider, recorded>>
    PROVE  MailedAtMostOnce'
  BY OwedChange, RecordedSum, SameRows DEF MailedAtMostOnce, TypeOK

LEMMA OthersStay ==
    ASSUME TypeOK, NEW w \in Workers, NEW r, req' = [req EXCEPT ![w] = r]
    PROVE  req'[w] = r /\ \A v \in Workers : v # w => req'[v] = req[v]
  BY DEF TypeOK

LEMMA MailStep ==
    ASSUME TypeOK, TypeOK', IInv, RowsAreFinite, MailedAtMostOnce, [Next]_vars
    PROVE  MailedAtMostOnce'
<1>1. ASSUME NEW w \in Workers, SyncProviderRefund(w)
      PROVE  MailedAtMostOnce'
  <2>1. \A v \in Workers : v # w => req'[v] = req[v]
    BY <1>1 DEF SyncProviderRefund, TypeOK
  <2>2. UNCHANGED <<mailed, recorded>>
    BY <1>1 DEF SyncProviderRefund, ApplySync, bookVars
  <2>3. req'[w] = Idle \/ req'[w] = [req[w] EXCEPT !.at = AfterSync(req[w], Advances(req[w])),
                                                  !.delta = DeltaOf(req[w])]
    BY <1>1 DEF SyncProviderRefund, TypeOK
  <2>4. req'[w].delta \in {0, DeltaOf(req[w])}
    <3>1. req[w] \in Requests
      BY DEF TypeOK
    <3> QED BY <2>3, <3>1, IdleOwesNothing DEF Requests
  <2>5. provider' = provider + DeltaOf(req[w]) /\ DeltaOf(req[w]) \in Nat
    <3>1. req[w].amount \in Int /\ provider \in Int
      BY RefundsAssumption DEF TypeOK, Requests
    <3>2. CASE Advances(req[w])
      BY <1>1, <3>1, <3>2, RefundsAssumption
      DEF SyncProviderRefund, ApplySync, DeltaOf, Advances, TypeOK, Requests
    <3>3. CASE ~Advances(req[w])
      BY <1>1, <3>1, <3>3 DEF SyncProviderRefund, bookVars, DeltaOf
    <3> QED BY <3>2, <3>3
  <2> QED
    BY <2>1, <2>2, <2>4, <2>5, OwedChange, RecordedSum, SameRows
    DEF MailedAtMostOnce, TypeOK
<1>2. ASSUME NEW w \in Workers, NEW amt \in Cash, NEW note \in Notes,
             RecordExternalRefund(w, amt, note)
      PROVE  MailedAtMostOnce'
  <2>1. req[w].delta = 0 /\ req'[w].delta = amt
    BY <1>2 DEF RecordExternalRefund, Start, Idle, TypeOK
  <2>2. \A v \in Workers : v # w => req'[v] = req[v]
    BY <1>2 DEF RecordExternalRefund, Start, TypeOK
  <2>3. UNCHANGED <<mailed, provider>>
    BY <1>2 DEF RecordExternalRefund
  <2> QED BY <1>2, <2>1, <2>2, <2>3, OwedChange, RecordAdds DEF MailedAtMostOnce, TypeOK
<1>3. ASSUME NEW w \in Workers, SendRefundNotice(w)
      PROVE  MailedAtMostOnce'
  <2>1. /\ mailed' = mailed + req[w].delta
        /\ req' = [req EXCEPT ![w] = Idle]
        /\ UNCHANGED <<provider, recorded>>
    BY <1>3 DEF SendRefundNotice, Answer, bookVars
  <2>2. req'[w].delta = 0
    BY <2>1, OthersStay, IdleOwesNothing
  <2> QED
    BY <2>1, <2>2, OthersStay, OwedChange, RecordedSum, SameRows
    DEF MailedAtMostOnce, TypeOK
<1>4. ASSUME NEW w \in Workers,
             \/ RequestStep(w) /\ ~SyncProviderRefund(w) /\ ~SendRefundNotice(w)
             \/ RequestRefund(w) \/ SyncByHand(w) \/ RequestDies(w)
             \/ \E e \in RefundEvents : Retry(w, e) \/ Deliver(w, e)
      PROVE  MailedAtMostOnce'
  <2>1. UNCHANGED <<mailed, provider, recorded>>
    BY <1>4 DEF RequestStep, PersistRefundEvent, Correlate, MarkUnmatched, Contradict,
       MarkFailed, MarkProcessed, CheckTotals, Flag, CallProvider,
       RequestRefund, SyncByHand, RequestDies, Retry, Deliver, bookVars
  <2>2. \/ \E step \in Steps : Move(w, step)
        \/ req' = [req EXCEPT ![w] = Idle]
        \/ \E r \in Requests : Start(w, r) /\ r.delta = 0
    <3>1. CASE RequestStep(w) /\ ~SyncProviderRefund(w) /\ ~SendRefundNotice(w)
      BY <3>1 DEF RequestStep, PersistRefundEvent, Correlate, MarkUnmatched, Contradict,
         MarkFailed, MarkProcessed, CheckTotals, Flag, CallProvider, Answer, Move,
         Steps, EventSteps
    <3>2. CASE RequestDies(w)
      BY <3>2 DEF RequestDies
    <3>3. CASE RequestRefund(w)
      <4>1. Total \in 0..Total
        BY RefundsAssumption
      <4> DEFINE r == [Idle EXCEPT !.at = "call", !.by = "refund", !.amount = Total]
      <4>2. r \in Requests /\ r.delta = 0
        BY <4>1 DEF Idle, Requests, Steps
      <4> QED BY <3>3, <4>2 DEF RequestRefund
    <3>4. CASE SyncByHand(w)
      <4> DEFINE r == [Idle EXCEPT !.at = "sync", !.by = "byhand", !.amount = charge]
      <4>1. r \in Requests /\ r.delta = 0
        BY DEF Idle, Requests, Steps, TypeOK
      <4> QED BY <3>4, <4>1 DEF SyncByHand
    <3>5. ASSUME NEW e \in RefundEvents, Retry(w, e) \/ Deliver(w, e)
          PROVE  \E r \in Requests : Start(w, r) /\ r.delta = 0
      <4>1. ASSUME NEW at \in EventSteps, NEW by \in {"webhook", "retry"}
            PROVE  [Idle EXCEPT !.at = at, !.by = by, !.event = e,
                                !.amount = Cum[e]].delta = 0
        BY DEF Idle
      <4> QED BY <3>5, <4>1, EventRequestType DEF Retry, Deliver, EventSteps
    <3> QED BY <1>4, <3>1, <3>2, <3>3, <3>4, <3>5
  <2>3. req'[w].delta <= req[w].delta /\ \A v \in Workers : v # w => req'[v] = req[v]
    <3>1. req[w] \in Requests /\ req[w].delta \in Nat
      BY DEF TypeOK, Requests
    <3>2. ASSUME NEW step \in Steps, Move(w, step)
          PROVE  req'[w].delta = req[w].delta /\ \A v \in Workers : v # w => req'[v] = req[v]
      BY <3>1, <3>2 DEF Move, TypeOK, Requests
    <3>3. ASSUME req' = [req EXCEPT ![w] = Idle]
          PROVE  req'[w].delta = 0 /\ \A v \in Workers : v # w => req'[v] = req[v]
      BY <3>3, OthersStay, IdleOwesNothing
    <3>4. ASSUME NEW r \in Requests, Start(w, r), r.delta = 0
          PROVE  req'[w].delta = 0 /\ \A v \in Workers : v # w => req'[v] = req[v]
      BY <3>4, OthersStay DEF Start
    <3> QED BY <2>2, <3>1, <3>2, <3>3, <3>4
  <2> QED BY <2>1, <2>3, QuietStep
<1>5. ASSUME \/ \E row \in recorded : VoidRecordedRefund(row)
             \/ AcknowledgeRefundReview
             \/ \E e \in RefundEvents : DismissRefundEvent(e) \/ DashboardRefund(e)
             \/ UNCHANGED vars
      PROVE  MailedAtMostOnce'
  <2>1. UNCHANGED <<mailed, provider, recorded, req>>
    BY <1>5 DEF VoidRecordedRefund, AcknowledgeRefundReview, DismissRefundEvent,
       DashboardRefund, bookVars, vars
  <2>2. Owed' = Owed
    BY <2>1 DEF Owed
  <2> QED BY <2>1, <2>2, SameRows DEF MailedAtMostOnce
<1> QED
  BY <1>1, <1>2, <1>3, <1>4, <1>5 DEF Next, FormStep

-----------------------------------------------------------------------------
(* The ledger *)

\* What the parts of the invariant say of the numbers of one state.
LEMMA BooksAreNumbers ==
    ASSUME TypeOK, RowsAreFinite
    PROVE  /\ provider \in Nat /\ external \in Nat /\ mailed \in Nat
           /\ charge \in 0..Total /\ Total \in Nat
           /\ SumOf(recorded) \in Nat
  BY RefundsAssumption, RecordedSum DEF TypeOK

\* A report that advances the total counts more of what was returned.
LEMMA SyncCounts ==
    ASSUME TypeOK, TypeOK', IInv, IInv', RowsAreFinite,
           NEW w \in Workers, SyncProviderRefund(w)
    PROVE  Books!Count \/ UNCHANGED Books!refundVars
<1>1. UNCHANGED <<charge, mailed, external, recorded>>
  BY DEF SyncProviderRefund, ApplySync, bookVars, providerVars
<1>2. CASE Advances(req[w])
  <2>1. provider' \in (provider + 1) .. charge
    <3>1. provider' = req[w].amount /\ provider < req[w].amount
      BY <1>2 DEF SyncProviderRefund, ApplySync, Advances
    <3>2. provider' <= charge
      BY SyncStep
    <3> QED BY <3>1, <3>2, BooksAreNumbers DEF TypeOK
  <2>2. provider' + SumOf(recorded')
           = provider + SumOf(recorded) + (provider' - provider)
    BY <1>1, <2>1, BooksAreNumbers, SameRows
  <2>3. (status' = "refunded") = (provider' + external' >= Total)
    BY DEF IInv, StatusFollowsTotals
  <2> QED BY <1>1, <2>1, <2>2, <2>3 DEF Books!Count, Books!Close
<1>3. CASE ~Advances(req[w])
  <2>1. UNCHANGED <<provider, status>>
    BY <1>3 DEF SyncProviderRefund, bookVars
  <2> QED BY <1>1, <2>1, SameRows DEF Books!refundVars
<1> QED
  BY <1>2, <1>3

\* A record is made of what is left of the order.
LEMMA RecordRecords ==
    ASSUME TypeOK, IInv', RowsAreFinite, NEW w \in Workers, NEW amt \in Cash,
           NEW note \in Notes, RecordExternalRefund(w, amt, note)
    PROVE  Books!Record
<1>1. /\ external' = external + amt /\ provider + external + amt <= Total
      /\ UNCHANGED <<provider, charge, mailed>>
  BY DEF RecordExternalRefund, FitsBalance, providerVars
<1>2. amt \in Nat \ {0} /\ SumOf(recorded') = SumOf(recorded) + amt
  BY RecordAdds, RefundsAssumption
<1>3. external' \in (external + 1) .. (Total - provider)
  BY <1>1, <1>2, BooksAreNumbers
<1>4. provider' + SumOf(recorded')
         = provider + SumOf(recorded) + (external' - external)
  BY <1>1, <1>2, BooksAreNumbers
<1>5. (status' = "refunded") = (provider' + external' >= Total)
  BY DEF IInv, StatusFollowsTotals
<1> QED
  BY <1>1, <1>3, <1>4, <1>5 DEF Books!Record, Books!Close

\* A void takes back what stands, and no more.
LEMMA VoidVoids ==
    ASSUME TypeOK, TypeOK', IInv', RowsAreFinite, HistoryAddsUp,
           NEW row \in recorded, VoidRecordedRefund(row)
    PROVE  Books!Void
<1>1. external' = external - row.amount /\ UNCHANGED <<provider, charge, mailed, recorded>>
  BY VoidAdds DEF VoidRecordedRefund, providerVars
<1>2. row.amount \in Nat \ {0}
  BY RefundsAssumption DEF TypeOK
<1>3. external' \in 0 .. (external - 1)
  BY <1>1, <1>2 DEF TypeOK
<1>4. provider' + SumOf(recorded') = provider + SumOf(recorded)
  BY <1>1, SameRows
<1>5. (status' = "refunded") = (provider' + external' >= Total)
  BY DEF IInv, StatusFollowsTotals
<1> QED
  BY <1>1, <1>3, <1>4, <1>5 DEF Books!Void, Books!Close

\* A notice tells what was recognised and is not told yet.
LEMMA NoticeTells ==
    ASSUME TypeOK, TypeOK', RowsAreFinite, MailedAtMostOnce',
           NEW w \in Workers, SendRefundNotice(w)
    PROVE  Books!Tell \/ UNCHANGED Books!refundVars
<1>1. /\ mailed' = mailed + req[w].delta
      /\ req' = [req EXCEPT ![w] = Idle]
      /\ UNCHANGED <<provider, external, status, recorded, charge>>
  BY DEF SendRefundNotice, Answer, bookVars, providerVars
<1>2. Owed' \in Nat /\ req[w].delta \in Nat
  BY <1>1, OthersStay, OwedChange
<1>3. mailed' <= provider + SumOf(recorded)
  BY <1>1, <1>2, BooksAreNumbers, SameRows DEF MailedAtMostOnce
<1>4. provider' + SumOf(recorded') = provider + SumOf(recorded)
  BY <1>1, SameRows
<1>5. CASE req[w].delta = 0
  BY <1>1, <1>4, <1>5, BooksAreNumbers DEF Books!refundVars
<1>6. CASE req[w].delta # 0
  <2>1. mailed' \in (mailed + 1) .. (provider + SumOf(recorded))
    BY <1>1, <1>2, <1>3, <1>6, BooksAreNumbers
  <2> QED BY <1>1, <1>4, <2>1 DEF Books!Tell
<1> QED
  BY <1>5, <1>6

\* Money that goes back, in the dashboard or for the form.
LEMMA ReturnsReturn ==
    ASSUME TypeOK, NEW e \in RefundEvents, Returns(e),
           UNCHANGED <<provider, external, status, recorded, mailed>>
    PROVE  Books!Return
<1>1. charge' \in (charge + 1) .. Total
  BY RefundsAssumption DEF Returns, TypeOK
<1> QED
  BY <1>1, SameRows DEF Books!Return

\* Every step of the order is a step of the ledger, or none.
LEMMA LedgerStep ==
    ASSUME TypeOK, TypeOK', IInv, IInv', RowsAreFinite, HistoryAddsUp,
           MailedAtMostOnce', [Next]_vars
    PROVE  [Books!RefundNext]_(Books!refundVars)
<1>1. ASSUME NEW w \in Workers, SyncProviderRefund(w)
      PROVE  [Books!RefundNext]_(Books!refundVars)
  BY <1>1, SyncCounts DEF Books!RefundNext
<1>2. ASSUME NEW w \in Workers, NEW amt \in Cash, NEW note \in Notes,
             RecordExternalRefund(w, amt, note)
      PROVE  [Books!RefundNext]_(Books!refundVars)
  BY <1>2, RecordRecords DEF Books!RefundNext
<1>3. ASSUME NEW row \in recorded, VoidRecordedRefund(row)
      PROVE  [Books!RefundNext]_(Books!refundVars)
  BY <1>3, VoidVoids DEF Books!RefundNext
<1>4. ASSUME NEW w \in Workers, SendRefundNotice(w)
      PROVE  [Books!RefundNext]_(Books!refundVars)
  BY <1>4, NoticeTells DEF Books!RefundNext
<1>5. ASSUME NEW e \in RefundEvents, DashboardRefund(e)
      PROVE  [Books!RefundNext]_(Books!refundVars)
  BY <1>5, ReturnsReturn DEF DashboardRefund, bookVars, Books!RefundNext
<1>6. ASSUME NEW w \in Workers, CallProvider(w)
      PROVE  [Books!RefundNext]_(Books!refundVars)
  <2>1. UNCHANGED <<provider, external, status, recorded, mailed>>
    BY <1>6 DEF CallProvider, bookVars
  <2>2. ASSUME NEW e \in RefundEvents, Returns(e)
        PROVE  [Books!RefundNext]_(Books!refundVars)
    BY <2>1, <2>2, ReturnsReturn DEF Books!RefundNext
  <2>3. ASSUME UNCHANGED charge
        PROVE  [Books!RefundNext]_(Books!refundVars)
    BY <2>1, <2>3, SameRows DEF Books!refundVars
  <2> QED BY <1>6, <2>2, <2>3 DEF CallProvider, providerVars
<1>7. ASSUME \/ \E w \in Workers :
                   \/ /\ RequestStep(w) /\ ~SyncProviderRefund(w)
                      /\ ~SendRefundNotice(w) /\ ~CallProvider(w)
                   \/ RequestRefund(w) \/ SyncByHand(w) \/ RequestDies(w)
                   \/ \E e \in RefundEvents : Retry(w, e) \/ Deliver(w, e)
             \/ AcknowledgeRefundReview
             \/ \E e \in RefundEvents : DismissRefundEvent(e)
             \/ UNCHANGED vars
      PROVE  [Books!RefundNext]_(Books!refundVars)
  <2>1. UNCHANGED <<provider, external, status, recorded, mailed, charge>>
    BY <1>7 DEF RequestStep, PersistRefundEvent, Correlate, MarkUnmatched, Contradict,
       MarkFailed, MarkProcessed, CheckTotals, Flag, RequestRefund, SyncByHand,
       RequestDies, Retry, Deliver, AcknowledgeRefundReview, DismissRefundEvent,
       bookVars, providerVars, vars
  <2> QED BY <2>1, SameRows DEF Books!refundVars
<1> QED
  BY <1>1, <1>2, <1>3, <1>4, <1>5, <1>6, <1>7 DEF Next, FormStep, RequestStep

-----------------------------------------------------------------------------
(* The theorems *)

\* The requests, the events and the books of an order agree at every moment:
\* the invariant the properties below are parts of.
THEOREM InductiveInvariant == Spec => [](TypeOK /\ IInv)
<1>1. Init => TypeOK /\ IInv
  BY TypeInit, IInvInit
<1>2. TypeOK /\ IInv /\ [Next]_vars => TypeOK' /\ IInv'
  BY TypeStep, EventsStep, RequestsStep, BooksStep DEF IInv
<1> QED
  BY <1>1, <1>2, PTL DEF Spec

\* Every variable keeps its type; in particular no row of the history is
\* negative and the external total never goes below zero.
THEOREM TypeCorrect == Spec => []TypeOK
  BY InductiveInvariant, PTL

\* The order never claims that the provider returned more than it did.
THEOREM ProviderTotalStaysTrue == Spec => []ProviderTotalIsTrue
<1>1. IInv => ProviderTotalIsTrue
  BY DEF IInv
<1> QED
  BY <1>1, InductiveInvariant, PTL

\* The order is "refunded" exactly while the two totals cover it.
THEOREM StatusAlwaysFollows == Spec => []StatusFollowsTotals
<1>1. IInv => StatusFollowsTotals
  BY DEF IInv
<1> QED
  BY <1>1, InductiveInvariant, PTL

\* A processed event and a used idempotency key are counted.
THEOREM ProcessedStaysCounted == Spec => []ProcessedIsCounted
<1>1. IInv => ProcessedIsCounted
  BY DEF IInv
<1> QED
  BY <1>1, InductiveInvariant, PTL

\* The rows of the history add up to the totals of the order.
THEOREM HistoryAlwaysAddsUp == Spec => []HistoryAddsUp
<1>1. Init => RowsAreFinite /\ HistoryAddsUp
  BY HistoryInit
<1>2. TypeOK /\ RowsAreFinite /\ HistoryAddsUp /\ [Next]_vars
         => (RowsAreFinite /\ HistoryAddsUp)'
  BY HistoryStep
<1> QED
  BY <1>1, <1>2, TypeCorrect, PTL DEF Spec

\* However deliveries, retries and forms interleave and die, the customer is
\* told of no cent that was not counted, and of none twice.
THEOREM NothingIsMailedTwice == Spec => []MailedAtMostOnce
<1>1. Init => RowsAreFinite /\ MailedAtMostOnce
  BY HistoryInit, MailInit
<1>2. TypeOK /\ TypeOK' /\ IInv /\ RowsAreFinite /\ MailedAtMostOnce /\ [Next]_vars
         => MailedAtMostOnce'
  BY MailStep
<1>3. Spec => [](RowsAreFinite /\ HistoryAddsUp)
  BY HistoryInit, HistoryStep, TypeCorrect, PTL DEF Spec
<1> QED
  BY <1>1, <1>2, <1>3, InductiveInvariant, PTL DEF Spec

\* Whatever webhooks, retries and forms do to an order, and wherever they die, is
\* what the ledger of one paid order allows.
THEOREM RefundsImplementLedger == Spec => ImplementsRefundLedger
<1>1. Init => Books!RefundInit
  BY SumEmpty DEF Init, SumOf, Books!RefundInit
<1>2. TypeOK /\ TypeOK' /\ IInv /\ IInv' /\ RowsAreFinite /\ HistoryAddsUp
         /\ MailedAtMostOnce' /\ [Next]_vars
         => [Books!RefundNext]_(Books!refundVars)
  BY LedgerStep
<1>3. Spec => [](RowsAreFinite /\ HistoryAddsUp)
  BY HistoryInit, HistoryStep, TypeCorrect, PTL DEF Spec
<1> QED
  BY <1>1, <1>2, <1>3, InductiveInvariant, NothingIsMailedTwice, PTL
     DEF Spec, ImplementsRefundLedger, Books!RefundSpec
=============================================================================

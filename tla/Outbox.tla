------------------------------- MODULE Outbox -------------------------------
(***************************************************************************)
(* The e-mail outbox of one settled order.                                 *)
(*                                                                         *)
(* Every mail is a row of order_notifications that is queued with the fact *)
(* it announces.  Delivery passes (the settling request, a webhook that is *)
(* delivered again, an admin action, the scheduled sweep) list the rows    *)
(* that are not delivered yet and claim, build, send and mark one after    *)
(* the other; passes overlap and die half-way, and the lease of a claim    *)
(* may be over at any moment.  Rows of different orders share no           *)
(* statement, so one order is enough.  It has a customer to write to:      *)
(* without one its mails are all skipped.                                  *)
(***************************************************************************)
EXTENDS Integers, FiniteSets

CONSTANTS Notices,      \* bound: mails beside reissues, receipt and shipped
          Workers,      \* bound: delivery passes under way at one time
          MaxAttempts,  \* MAX_ATTEMPTS
          MaxGeneration \* bound: generations of the guest link

ASSUME OutboxAssumption ==
    /\ Notices \subseteq {"receipt", "shipped"}
    /\ MaxAttempts \in Nat \ {0}
    /\ MaxGeneration \in Nat \ {0}

\* receipt stands for the customer's and the owner's, which differ only in
\* the address; a reissue's kind carries the generation it announces.
Receipt == <<"receipt", 1>>
Shipped == <<"shipped", 1>>
Reissue(g) == <<"reissue", g>>
Reissues == {Reissue(g) : g \in 2..MaxGeneration}
Kinds == (Notices \X {1}) \cup Reissues

NoKind == <<"none", 0>>

VARIABLES
    row,        \* row[k]: the order's row of that kind
    generation, \* order_guest_access.generation
    fulfilled,  \* orders.fulfillment_status = 'fulfilled'
    toQueue,    \* an admin's request has fulfilled and not yet queued
    job,        \* job[w]: the pass worker w runs
    mails       \* mails[k]: copies the provider took for delivery

orderVars == <<generation, fulfilled, toQueue>>
vars == <<row, generation, fulfilled, toQueue, job, mails>>

-----------------------------------------------------------------------------
(* Vocabulary *)

Rows == [state : {"absent", "pending", "processing", "sent", "skipped", "dead"},
         attempts : 0..MaxAttempts]

NoRow == [state |-> "absent", attempts |-> 0]
NewRow == [state |-> "pending", attempts |-> 0]

\* The claim's attempt number is its token.  A pass reads the order once, for
\* the first row it builds; what it saw is kept while a row that asks is left.
Holding == {"build", "send", "sent", "skip", "fail"}
Jobs == [at : {"idle", "claim"} \cup Holding,
         left : SUBSET Kinds,
         kind : Kinds \cup {NoKind},
         token : 0..MaxAttempts,
         seen : {"unread", "fulfilled", "unfulfilled"}]

Idle == [at |-> "idle", left |-> {}, kind |-> NoKind, token |-> 0,
         seen |-> "unread"]

TypeOK ==
    /\ row \in [Kinds -> Rows]
    /\ generation \in 1..MaxGeneration
    /\ fulfilled \in BOOLEAN
    /\ toQueue \in BOOLEAN
    /\ job \in [Workers -> Jobs]
    /\ mails \in [Kinds -> Nat]

Init ==
    /\ row = [k \in Kinds |-> IF k = Receipt THEN NewRow ELSE NoRow]
    /\ generation = 1
    /\ fulfilled = FALSE /\ toQueue = FALSE
    /\ job = [w \in Workers |-> Idle]
    /\ mails = [k \in Kinds |-> 0]

InState(state) == {k \in Kinds : row[k].state = state}

\* INSERT OR IGNORE
Queue(k) ==
    row' = IF k \in InState("absent") THEN [row EXCEPT ![k] = NewRow] ELSE row

\* Definitions marked "a slip" are plausible errors, each of which breaks a
\* property below; the specification uses none of them.

-----------------------------------------------------------------------------
(* What happens to the order *)

\* The link is rotated and its mail queued in one batch, guarded by the
\* generation that was read.
ReissueGuestAccess ==
    /\ generation < MaxGeneration
    /\ generation' = generation + 1
    /\ Queue(Reissue(generation'))
    /\ UNCHANGED <<fulfilled, toQueue, job, mails>>

\* By hand, in two statements.
FulfillOrder ==
    /\ ~toQueue
    /\ fulfilled' = TRUE
    /\ toQueue' = TRUE
    /\ UNCHANGED <<row, generation, job, mails>>

QueueNotification ==
    /\ toQueue
    /\ toQueue' = FALSE
    /\ Queue(Shipped)
    /\ UNCHANGED <<generation, fulfilled, job, mails>>

\* A label's purchase fulfils and queues in one batch.
RecordPurchased ==
    /\ ~fulfilled
    /\ fulfilled' = TRUE
    /\ Queue(Shipped)
    /\ UNCHANGED <<generation, toQueue, job, mails>>

UnfulfillOrder ==
    /\ fulfilled
    /\ fulfilled' = FALSE
    /\ UNCHANGED <<row, generation, toQueue, job, mails>>

AdminDies ==
    /\ toQueue
    /\ toQueue' = FALSE
    /\ UNCHANGED <<row, generation, fulfilled, job, mails>>

-----------------------------------------------------------------------------
(* Claiming *)

\* A pass lists the pending rows, and the claimed ones whose lease is over.
\* One that finds nothing changes nothing and is left out.
Deliver(w, list) ==
    /\ job[w] = Idle
    /\ list # {}
    /\ InState("pending") \subseteq list
    /\ list \subseteq InState("pending") \cup InState("processing")
    /\ job' = [job EXCEPT ![w] = [Idle EXCEPT !.at = "claim", !.left = list]]
    /\ UNCHANGED <<row, orderVars, mails>>

\* The pass goes on to its next row, or ends.
Onwards(w, rest) ==
    job' = [job EXCEPT ![w] =
              IF rest = {} THEN Idle
              ELSE [Idle EXCEPT !.at = "claim", !.left = rest, !.seen = job[w].seen]]

SpentLate(k) == row[k].attempts > MaxAttempts \* a slip
Spent(k) == row[k].attempts >= MaxAttempts

AttemptsUncounted(n) == IF n = 0 THEN 1 ELSE n \* a slip
AttemptsAfter(n) == n + 1

\* Claiming is two statements: one parks an abandoned row whose attempts are
\* spent, the other takes a row with attempts left.  No row is both and
\* attempts never shrink, so nothing can come between them.
Park(w, k) ==
    /\ job[w].at = "claim" /\ k \in job[w].left
    /\ row[k].state = "processing" /\ Spent(k)
    /\ row' = [row EXCEPT ![k].state = "dead"]
    /\ Onwards(w, job[w].left \ {k})
    /\ UNCHANGED <<orderVars, mails>>

ClaimNotification(w, k) ==
    LET token == AttemptsAfter(row[k].attempts)
    IN  /\ job[w].at = "claim" /\ k \in job[w].left
        /\ row[k].state \in {"pending", "processing"} /\ ~Spent(k)
        /\ row' = [row EXCEPT ![k] = [state |-> "processing", attempts |-> token]]
        /\ job' = [job EXCEPT ![w].at = "build", ![w].left = @ \ {k},
                              ![w].kind = k, ![w].token = token]
        /\ UNCHANGED <<orderVars, mails>>

\* Another pass holds the row, or has settled it.
PassOver(w, k) ==
    /\ job[w].at = "claim" /\ k \in job[w].left
    /\ row[k].state # "pending" \/ Spent(k)
    /\ Onwards(w, job[w].left \ {k})
    /\ UNCHANGED <<row, orderVars, mails>>

-----------------------------------------------------------------------------
(* Building and sending *)

AlwaysSkipped(k) == "skip" \* a slip

\* Mail is switched off or its key is missing.  A reissue carries a credential
\* and is retried; any other mail is not applicable.
WithoutProvider(k) == IF k \in Reissues THEN "fail" ELSE "skip"

ProviderUnavailable(w) ==
    /\ job[w].at = "build"
    /\ job' = [job EXCEPT ![w].at = WithoutProvider(job[w].kind)]
    /\ UNCHANGED <<row, orderVars, mails>>

Applicable(k, seen) ==
    /\ k = Shipped => seen = "fulfilled"
    /\ k \in Reissues => k = Reissue(generation)

\* The order, unless this pass has it, and the guest link are read.
Build(w) ==
    LET seen == IF job[w].seen # "unread" THEN job[w].seen
                ELSE IF fulfilled THEN "fulfilled" ELSE "unfulfilled"
    IN  /\ job[w].at = "build"
        /\ job' = [job EXCEPT
              ![w].at = IF Applicable(job[w].kind, seen) THEN "send" ELSE "skip",
              ![w].seen = IF Shipped \in job[w].left THEN seen ELSE "unread"]
        /\ UNCHANGED <<row, orderVars, mails>>

\* The provider (external) takes a copy.  Resend answers a key it knows
\* without another copy, or refuses it with other contents; the Cloudflare
\* binding knows no keys.
Send(w) ==
    LET k == job[w].kind
    IN  /\ job[w].at = "send"
        /\ \/ mails' = [mails EXCEPT ![k] = @ + 1]
           \/ mails[k] > 0 /\ UNCHANGED mails
        /\ \E at \in {"sent", "fail"} : \* answered, or not
              job' = [job EXCEPT ![w].at = at]
        /\ UNCHANGED <<row, orderVars>>

-----------------------------------------------------------------------------
(* Marking *)

FencedByState(w) == row[job[w].kind].state = "processing" \* a slip

\* Every completion is fenced by the claim's token.
Fenced(w) == row[job[w].kind] = [state |-> "processing", attempts |-> job[w].token]

Mark(w, state) ==
    /\ row' = IF Fenced(w) THEN [row EXCEPT ![job[w].kind].state = state] ELSE row
    /\ Onwards(w, job[w].left)
    /\ UNCHANGED <<orderVars, mails>>

MarkNotificationSent(w) == job[w].at = "sent" /\ Mark(w, "sent")
MarkNotificationSkipped(w) == job[w].at = "skip" /\ Mark(w, "skipped")

FailedState(token) == IF token >= MaxAttempts THEN "dead" ELSE "pending"

MarkNotificationFailed(w) == job[w].at = "fail" /\ Mark(w, FailedState(job[w].token))

\* Whatever throws, from the settings to the mark itself, is caught and
\* reported as a failed send.
Throws(w) ==
    /\ job[w].at \in {"build", "send", "sent", "skip"}
    /\ job' = [job EXCEPT ![w].at = "fail"]
    /\ UNCHANGED <<row, orderVars, mails>>

-----------------------------------------------------------------------------
PassDies(w) ==
    /\ job[w] # Idle
    /\ job' = [job EXCEPT ![w] = Idle]
    /\ UNCHANGED <<row, orderVars, mails>>

PassStep(w) ==
    \/ \E k \in Kinds : Park(w, k) \/ ClaimNotification(w, k) \/ PassOver(w, k)
    \/ ProviderUnavailable(w) \/ Build(w) \/ Send(w) \/ Throws(w)
    \/ MarkNotificationSent(w) \/ MarkNotificationSkipped(w)
    \/ MarkNotificationFailed(w)

OrderStep ==
    \/ ReissueGuestAccess \/ FulfillOrder \/ QueueNotification
    \/ RecordPurchased \/ UnfulfillOrder \/ AdminDies

Next ==
    \/ OrderStep
    \/ \E w \in Workers : \/ \E list \in SUBSET Kinds : Deliver(w, list)
                          \/ PassStep(w) \/ PassDies(w)

Spec == Init /\ [][Next]_vars

\* A running pass goes on unless it dies.  The scheduled sweep starts passes
\* again and again, leases run out, and not every pass dies before it claims:
\* a row that is not settled is listed, and taken or parked, in the end.
\* Nothing is asked of admins or of the provider.
Fairness ==
    /\ \A w \in Workers : WF_vars(PassStep(w))
    /\ \A k \in Kinds :
          /\ SF_vars(\E w \in Workers, list \in SUBSET Kinds :
                        k \in list /\ Deliver(w, list))
          /\ SF_vars(\E w \in Workers : Park(w, k) \/ ClaimNotification(w, k))

LiveSpec == Spec /\ Fairness

-----------------------------------------------------------------------------
(* Properties *)

\* Two passes never work on the same row under the same token: what fences
\* their completions tells them apart, whatever lease ran out when.
TokensAreUnique ==
    \A w, v \in Workers :
        /\ job[w].at \in Holding /\ job[v].at \in Holding
        /\ job[w].kind = job[v].kind /\ job[w].token = job[v].token
        => w = v

\* Every copy is paid for by an attempt, so crashes and lost answers send a
\* mail at most MAX_ATTEMPTS times.
CopiesAreBounded == \A k \in Kinds : mails[k] <= row[k].attempts

\* A mail is given up only when its attempts are spent, and one that waits for
\* a retry still has an attempt to be claimed with, also after a pass whose
\* lease had run out reports its failure while another pass has the last claim.
RetriedUntilSpent ==
    \A k \in Kinds :
        /\ row[k].state = "pending" => row[k].attempts < MaxAttempts
        /\ row[k].state = "dead" => row[k].attempts = MaxAttempts

\* Rotating the guest link kills the old ones, so the mail with the link now
\* in force is always queued and never skipped.
CurrentLinkIsQueued ==
    generation > 1 =>
        row[Reissue(generation)].state \notin {"absent", "skipped"}

\* A queued mail is sent, found not applicable, or given up with its attempts
\* spent; it is never left claimed by a dead pass.
QueuedIsSettled ==
    \A k \in Kinds :
        row[k].state = "pending" ~> row[k].state \in {"sent", "skipped", "dead"}
=============================================================================

---------------------------- MODULE Outbox_proofs ----------------------------
(***************************************************************************)
(* What TLAPS proves of Outbox for any number of concurrent passes, of     *)
(* attempts and of reissues: its type invariant, that the fencing tokens   *)
(* tell passes apart, that a mail has at most as many copies as attempts,  *)
(* that no mail is given up early, and that the link in force is queued.   *)
(***************************************************************************)
EXTENDS Outbox, FiniteSetTheorems, TLAPS

\* A pass that holds a claim took it from a row that was there, and every
\* claim since then raised the row's attempts.
HoldsClaim(w) ==
    job[w].at \in Holding =>
        /\ job[w].kind \in Kinds
        /\ job[w].token >= 1
        /\ job[w].token <= row[job[w].kind].attempts
        /\ row[job[w].kind].state # "absent"

\* A row that is not queued has cost no attempt.
FreshIfAbsent == \A k \in Kinds : row[k].state = "absent" => row[k].attempts = 0

\* The passes that hold an attempt of k they have not spent on a copy.
Unsent(k) == {w \in Workers : job[w].at \in {"build", "send"} /\ job[w].kind = k}

\* A copy taken and a copy still to send use different attempts.
CopiesArePaid ==
    \A k \in Kinds :
        /\ IsFiniteSet(Unsent(k))
        /\ mails[k] + Cardinality(Unsent(k)) <= row[k].attempts

\* A reissue is queued with its generation, and skipped only after it.
ReissuesInOrder ==
    \A g \in 2..MaxGeneration :
        /\ row[Reissue(g)].state # "absent" => g <= generation
        /\ \A w \in Workers :
              job[w].at = "skip" /\ job[w].kind = Reissue(g) => g < generation

IInv == /\ FreshIfAbsent
        /\ \A w \in Workers : HoldsClaim(w)
        /\ TokensAreUnique
        /\ CopiesArePaid
        /\ RetriedUntilSpent
        /\ ReissuesInOrder
        /\ CurrentLinkIsQueued
-----------------------------------------------------------------------------
(* Type correctness *)

LEMMA IdleIsJob == Idle \in Jobs
  BY OutboxAssumption DEF Idle, Jobs

LEMMA RowsInit == NoRow \in Rows /\ NewRow \in Rows
  BY OutboxAssumption DEF NoRow, NewRow, Rows

LEMMA ReissueIsKind ==
    ASSUME NEW g \in 2..MaxGeneration
    PROVE  Reissue(g) \in Kinds
  BY DEF Kinds, Reissues

LEMMA QueueType ==
    ASSUME TypeOK, NEW k \in Kinds, Queue(k)
    PROVE  row' \in [Kinds -> Rows]
  BY RowsInit DEF TypeOK, Queue

LEMMA OnwardsType ==
    ASSUME TypeOK, NEW w \in Workers, NEW rest \in SUBSET Kinds, Onwards(w, rest)
    PROVE  job' \in [Workers -> Jobs]
  BY IdleIsJob DEF TypeOK, Onwards, Idle, Jobs

LEMMA TypeInit == Init => TypeOK
<1> SUFFICES ASSUME Init PROVE TypeOK
  OBVIOUS
<1>1. row \in [Kinds -> Rows]
  BY RowsInit DEF Init
<1>2. job \in [Workers -> Jobs] /\ mails \in [Kinds -> Nat]
  BY IdleIsJob DEF Init
<1>3. generation \in 1..MaxGeneration
  BY OutboxAssumption DEF Init
<1>4. fulfilled \in BOOLEAN /\ toQueue \in BOOLEAN
  BY DEF Init
<1> QED
  BY <1>1, <1>2, <1>3, <1>4 DEF TypeOK

LEMMA TypeStep == TypeOK /\ [Next]_vars => TypeOK'
<1> SUFFICES ASSUME TypeOK, [Next]_vars PROVE TypeOK'
  OBVIOUS
<1>1. ASSUME OrderStep PROVE TypeOK'
  <2>1. CASE ReissueGuestAccess
    <3>1. generation' \in 2..MaxGeneration
      BY <2>1, OutboxAssumption DEF ReissueGuestAccess, TypeOK
    <3>2. row' \in [Kinds -> Rows]
      BY <2>1, <3>1, ReissueIsKind, QueueType DEF ReissueGuestAccess
    <3> QED
      BY <2>1, <3>1, <3>2 DEF ReissueGuestAccess, TypeOK
  <2>2. CASE FulfillOrder
    BY <2>2 DEF FulfillOrder, TypeOK
  <2>3. CASE QueueNotification
    BY <2>3, RowsInit DEF QueueNotification, Queue, InState, TypeOK
  <2>4. CASE RecordPurchased
    BY <2>4, RowsInit DEF RecordPurchased, Queue, InState, TypeOK
  <2>5. CASE UnfulfillOrder
    BY <2>5 DEF UnfulfillOrder, TypeOK
  <2>6. CASE AdminDies
    BY <2>6 DEF AdminDies, TypeOK
  <2> QED
    BY <1>1, <2>1, <2>2, <2>3, <2>4, <2>5, <2>6 DEF OrderStep
<1>2. ASSUME NEW w \in Workers, NEW list \in SUBSET Kinds, Deliver(w, list)
      PROVE  TypeOK'
  <2>1. job' \in [Workers -> Jobs]
    BY <1>2, IdleIsJob DEF Deliver, TypeOK, Jobs, Idle
  <2> QED
    BY <1>2, <2>1 DEF Deliver, TypeOK, orderVars
<1>3. ASSUME NEW w \in Workers, NEW k \in Kinds,
             Park(w, k) \/ ClaimNotification(w, k) \/ PassOver(w, k)
      PROVE  TypeOK'
  <2> DEFINE rest == job[w].left \ {k}
  <2>1. rest \in SUBSET Kinds
    BY DEF TypeOK, Jobs
  <2>2. CASE Park(w, k)
    <3>1. job' \in [Workers -> Jobs]
      BY <2>1, <2>2, OnwardsType DEF Park
    <3>2. row' \in [Kinds -> Rows]
      BY <2>2 DEF Park, TypeOK, Rows
    <3> QED
      BY <2>2, <3>1, <3>2 DEF Park, TypeOK, orderVars
  <2>3. CASE ClaimNotification(w, k)
    <3>1. row[k].attempts + 1 \in 1..MaxAttempts
      BY <2>3, OutboxAssumption DEF ClaimNotification, Spent, TypeOK, Rows
    <3>2. row' \in [Kinds -> Rows]
      BY <2>3, <3>1 DEF ClaimNotification, AttemptsAfter, TypeOK, Rows
    <3>3. job' \in [Workers -> Jobs]
      BY <2>3, <3>1 DEF ClaimNotification, AttemptsAfter, TypeOK, Jobs, Holding
    <3> QED
      BY <2>3, <3>2, <3>3 DEF ClaimNotification, TypeOK, orderVars
  <2>4. CASE PassOver(w, k)
    <3>1. job' \in [Workers -> Jobs]
      BY <2>1, <2>4, OnwardsType DEF PassOver
    <3> QED
      BY <2>4, <3>1 DEF PassOver, TypeOK, orderVars
  <2> QED
    BY <1>3, <2>2, <2>3, <2>4
<1>4. ASSUME NEW w \in Workers,
             ProviderUnavailable(w) \/ Build(w) \/ Throws(w)
      PROVE  TypeOK'
  <2>1. job' \in [Workers -> Jobs]
    BY <1>4 DEF ProviderUnavailable, WithoutProvider, Build, Throws, TypeOK, Jobs, Holding
  <2> QED
    BY <1>4, <2>1 DEF ProviderUnavailable, Build, Throws, TypeOK,
                      orderVars
<1>5. ASSUME NEW w \in Workers, Send(w) PROVE TypeOK'
  <2>1. job' \in [Workers -> Jobs]
    BY <1>5 DEF Send, TypeOK, Jobs, Holding
  <2>2. mails' \in [Kinds -> Nat]
    BY <1>5 DEF Send, TypeOK
  <2> QED
    BY <1>5, <2>1, <2>2 DEF Send, TypeOK, orderVars
<1>6. ASSUME NEW w \in Workers,
             \/ MarkNotificationSent(w) \/ MarkNotificationSkipped(w)
             \/ MarkNotificationFailed(w)
      PROVE  TypeOK'
  <2>1. PICK state \in {"sent", "skipped", "dead", "pending"} : Mark(w, state)
    BY <1>6 DEF MarkNotificationSent, MarkNotificationSkipped,
                MarkNotificationFailed, FailedState
  <2>2. job' \in [Workers -> Jobs]
    BY <2>1, OnwardsType DEF Mark, TypeOK, Jobs
  <2>3. row' \in [Kinds -> Rows]
    BY <2>1 DEF Mark, TypeOK, Rows
  <2> QED
    BY <2>1, <2>2, <2>3 DEF Mark, TypeOK, orderVars
<1>7. ASSUME NEW w \in Workers, PassDies(w) PROVE TypeOK'
  BY <1>7, IdleIsJob DEF PassDies, TypeOK, orderVars
<1>8. CASE UNCHANGED vars
  BY <1>8 DEF vars, TypeOK
<1> QED
  BY <1>1, <1>2, <1>3, <1>4, <1>5, <1>6, <1>7, <1>8 DEF Next, PassStep
-----------------------------------------------------------------------------
(* The inductive invariant *)

LEMMA InvInit == Init => IInv
<1> SUFFICES ASSUME Init PROVE IInv
  OBVIOUS
<1>1. \A w \in Workers : HoldsClaim(w)
  BY DEF Init, HoldsClaim, Idle, Holding
<1>2. TokensAreUnique
  BY DEF Init, TokensAreUnique, Idle, Holding
<1>3. CopiesArePaid
  <2> SUFFICES ASSUME NEW k \in Kinds
               PROVE  /\ IsFiniteSet(Unsent(k))
                      /\ mails[k] + Cardinality(Unsent(k)) <= row[k].attempts
    BY DEF CopiesArePaid
  <2>1. Unsent(k) = {}
    BY DEF Init, Unsent, Idle
  <2>2. mails[k] = 0 /\ row[k].attempts = 0
    BY DEF Init, NoRow, NewRow
  <2> QED
    BY <2>1, <2>2, FS_EmptySet
<1>4. RetriedUntilSpent
  BY OutboxAssumption DEF Init, RetriedUntilSpent, NoRow, NewRow
<1>5. ReissuesInOrder
  <2>1. \A g \in 2..MaxGeneration : row[Reissue(g)].state = "absent"
    BY ReissueIsKind DEF Init, Reissue, Receipt, NoRow
  <2>2. \A w \in Workers : job[w].at # "skip"
    BY DEF Init, Idle
  <2> QED
    BY <2>1, <2>2 DEF ReissuesInOrder
<1>6. CurrentLinkIsQueued
  BY DEF Init, CurrentLinkIsQueued
<1>7. FreshIfAbsent
  BY DEF Init, FreshIfAbsent, NoRow, NewRow
<1> QED
  BY <1>1, <1>2, <1>3, <1>4, <1>5, <1>6, <1>7 DEF IInv

LEMMA OneLess ==
    ASSUME NEW S, NEW x, IsFiniteSet(S)
    PROVE  /\ IsFiniteSet(S \ {x})
           /\ Cardinality(S) \in Nat
           /\ Cardinality(S \ {x}) \in Nat
           /\ Cardinality(S \ {x}) <= Cardinality(S)
           /\ x \in S => Cardinality(S \ {x}) + 1 = Cardinality(S)
<1>1. IsFiniteSet(S \ {x})
  BY FS_RemoveElement
<1>2. Cardinality(S) \in Nat /\ Cardinality(S \ {x}) \in Nat
  BY <1>1, FS_CardinalityType
<1>3. Cardinality(S \ {x}) = IF x \in S THEN Cardinality(S) - 1 ELSE Cardinality(S)
  BY FS_RemoveElement
<1> QED
  BY <1>1, <1>2, <1>3

\* Queueing takes no row away, changes none that is there, moves no pass.
LEMMA Queueing ==
    ASSUME TypeOK, IInv, NEW k \in Kinds, Queue(k), UNCHANGED <<job, mails>>
    PROVE  /\ row'[k].state # "absent"
           /\ row[k].state = "absent" => row'[k].state = "pending"
           /\ \A l \in Kinds : l # k \/ row[l].state # "absent" => row'[l] = row[l]
           /\ FreshIfAbsent' /\ TokensAreUnique' /\ CopiesArePaid' /\ RetriedUntilSpent'
           /\ \A w \in Workers : HoldsClaim(w)'
<1>1. \A l \in Kinds : \/ row'[l] = row[l] /\ (l = k => row[l].state # "absent")
                       \/ l = k /\ row[l].state = "absent" /\ row'[l] = NewRow
  BY DEF TypeOK, Queue, InState
<1>2. \A l \in Kinds : row'[l].attempts = row[l].attempts
  BY <1>1 DEF IInv, FreshIfAbsent, NewRow
<1>3. \A l \in Kinds : /\ row[l].state # "absent" => row'[l] = row[l]
                       /\ l # k => row'[l] = row[l]
                       /\ l = k => row'[l].state # "absent"
                       /\ l = k /\ row[l].state = "absent" => row'[l].state = "pending"
  BY <1>1 DEF NewRow
<1>4. FreshIfAbsent'
  BY <1>1 DEF IInv, FreshIfAbsent, NewRow
<1>5. TokensAreUnique'
  BY DEF IInv, TokensAreUnique
<1>6. CopiesArePaid'
  <2>1. \A l \in Kinds : Unsent(l)' = Unsent(l)
    BY DEF Unsent
  <2> QED
    BY <1>2, <2>1 DEF IInv, CopiesArePaid
<1>7. RetriedUntilSpent'
  BY <1>1, OutboxAssumption DEF IInv, RetriedUntilSpent, NewRow
<1>8. \A w \in Workers : HoldsClaim(w)'
  BY <1>3 DEF IInv, HoldsClaim
<1> QED
  BY <1>3, <1>4, <1>5, <1>6, <1>7, <1>8

\* A pass may stop holding its claim at any time.
LEMMA LettingGo ==
    ASSUME TypeOK, IInv, NEW w \in Workers,
           job' \in [Workers -> Jobs],
           \A v \in Workers : v # w => job'[v] = job[v],
           job'[w].at \notin Holding,
           UNCHANGED <<row, generation, mails>>
    PROVE  IInv'
<1>1. \A v \in Workers : HoldsClaim(v)'
  BY DEF IInv, HoldsClaim
<1>2. TokensAreUnique'
  BY DEF IInv, TokensAreUnique
<1>3. CopiesArePaid'
  <2> SUFFICES ASSUME NEW k \in Kinds
               PROVE  /\ IsFiniteSet(Unsent(k)')
                      /\ mails[k] + Cardinality(Unsent(k)') <= row[k].attempts
    BY DEF CopiesArePaid
  <2>1. Unsent(k)' = Unsent(k) \ {w}
    BY DEF Unsent, Holding
  <2>2. /\ IsFiniteSet(Unsent(k))
        /\ mails[k] + Cardinality(Unsent(k)) <= row[k].attempts
    BY DEF IInv, CopiesArePaid
  <2>3. /\ IsFiniteSet(Unsent(k) \ {w})
        /\ Cardinality(Unsent(k) \ {w}) <= Cardinality(Unsent(k))
        /\ Cardinality(Unsent(k) \ {w}) \in Nat
        /\ Cardinality(Unsent(k)) \in Nat
    BY <2>2, OneLess
  <2>4. mails[k] \in Nat /\ row[k].attempts \in Nat
    BY DEF TypeOK, Rows
  <2> QED
    BY <2>1, <2>2, <2>3, <2>4
<1>4. RetriedUntilSpent' /\ CurrentLinkIsQueued' /\ FreshIfAbsent'
  BY DEF IInv, RetriedUntilSpent, CurrentLinkIsQueued, FreshIfAbsent
<1>5. ReissuesInOrder'
  BY DEF IInv, ReissuesInOrder, Holding
<1> QED
  BY <1>1, <1>2, <1>3, <1>4, <1>5 DEF IInv

LEMMA OnwardsLetsGo ==
    ASSUME TypeOK, NEW w \in Workers, NEW rest \in SUBSET Kinds, Onwards(w, rest)
    PROVE  /\ job' \in [Workers -> Jobs]
           /\ \A v \in Workers : v # w => job'[v] = job[v]
           /\ job'[w].at \notin Holding
<1>1. job' \in [Workers -> Jobs]
  BY OnwardsType
<1> QED
  BY <1>1 DEF Onwards, TypeOK, Jobs, Idle, Holding

LEMMA ReissueInv ==
    ASSUME TypeOK, IInv, ReissueGuestAccess
    PROVE  IInv'
<1> DEFINE new == generation + 1
<1>1. /\ new \in 2..MaxGeneration
      /\ generation \in Nat
      /\ generation' = new
      /\ UNCHANGED <<job, mails>>
  BY OutboxAssumption DEF ReissueGuestAccess, TypeOK
<1>2. Reissue(new) \in Kinds /\ Queue(Reissue(new))
  BY <1>1, ReissueIsKind DEF ReissueGuestAccess
<1>3. row[Reissue(new)].state = "absent"
  BY <1>1, OutboxAssumption DEF IInv, ReissuesInOrder
<1>4. /\ row'[Reissue(new)].state = "pending"
      /\ \A l \in Kinds : l # Reissue(new) => row'[l] = row[l]
      /\ FreshIfAbsent' /\ TokensAreUnique' /\ CopiesArePaid' /\ RetriedUntilSpent'
      /\ \A w \in Workers : HoldsClaim(w)'
  BY <1>1, <1>2, <1>3, Queueing
<1>5. ReissuesInOrder'
  <2> SUFFICES ASSUME NEW g \in 2..MaxGeneration
               PROVE  /\ row'[Reissue(g)].state # "absent" => g <= new
                      /\ \A w \in Workers :
                            job[w].at = "skip" /\ job[w].kind = Reissue(g) => g < new
    BY <1>1 DEF ReissuesInOrder
  <2>1. g # new => Reissue(g) # Reissue(new)
    BY DEF Reissue
  <2>2. Reissue(g) \in Kinds
    BY ReissueIsKind
  <2>3. row'[Reissue(g)].state # "absent" => g <= new
    BY <1>1, <1>4, <2>1, <2>2 DEF IInv, ReissuesInOrder
  <2>4. \A w \in Workers : job[w].at = "skip" /\ job[w].kind = Reissue(g) => g < new
    BY <1>1 DEF IInv, ReissuesInOrder
  <2> QED
    BY <2>3, <2>4
<1>6. CurrentLinkIsQueued'
  BY <1>1, <1>4 DEF CurrentLinkIsQueued
<1> QED
  BY <1>4, <1>5, <1>6 DEF IInv

\* Queueing the shipped notice leaves the reissues alone.
LEMMA ShippedInv ==
    ASSUME TypeOK, IInv, Queue(Shipped), UNCHANGED <<generation, job, mails>>
    PROVE  IInv'
<1>1. CASE Shipped \notin Kinds
  <2>1. row' = row
    BY <1>1 DEF Queue, InState
  <2>2. FreshIfAbsent' /\ RetriedUntilSpent' /\ TokensAreUnique' /\ CurrentLinkIsQueued'
    BY <2>1 DEF IInv, FreshIfAbsent, RetriedUntilSpent, TokensAreUnique,
                CurrentLinkIsQueued
  <2>3. CopiesArePaid'
    BY <2>1 DEF IInv, CopiesArePaid, Unsent
  <2>4. ReissuesInOrder' /\ \A w \in Workers : HoldsClaim(w)'
    BY <2>1 DEF IInv, ReissuesInOrder, HoldsClaim
  <2> QED
    BY <2>2, <2>3, <2>4 DEF IInv
<1>2. CASE Shipped \in Kinds
  <2>1. /\ \A l \in Kinds : l # Shipped => row'[l] = row[l]
        /\ FreshIfAbsent' /\ TokensAreUnique' /\ CopiesArePaid' /\ RetriedUntilSpent'
        /\ \A w \in Workers : HoldsClaim(w)'
    BY <1>2, Queueing
  <2>2. \A g \in 2..MaxGeneration : row'[Reissue(g)] = row[Reissue(g)]
    BY <2>1, ReissueIsKind DEF Reissue, Shipped
  <2>3. ReissuesInOrder'
    BY <2>2 DEF IInv, ReissuesInOrder
  <2>4. generation > 1 => generation \in 2..MaxGeneration
    BY OutboxAssumption DEF TypeOK
  <2>5. CurrentLinkIsQueued'
    BY <2>2, <2>4 DEF IInv, CurrentLinkIsQueued
  <2> QED
    BY <2>1, <2>3, <2>5 DEF IInv
<1> QED
  BY <1>1, <1>2

\* The other variables of the order are not in the invariant.
LEMMA UnseenInv ==
    ASSUME IInv, UNCHANGED <<row, generation, job, mails>>
    PROVE  IInv'
<1>1. FreshIfAbsent' /\ RetriedUntilSpent' /\ TokensAreUnique' /\ CurrentLinkIsQueued'
  BY DEF IInv, FreshIfAbsent, RetriedUntilSpent, TokensAreUnique, CurrentLinkIsQueued
<1>2. CopiesArePaid'
  BY DEF IInv, CopiesArePaid, Unsent
<1>3. ReissuesInOrder' /\ \A w \in Workers : HoldsClaim(w)'
  BY DEF IInv, ReissuesInOrder, HoldsClaim
<1> QED
  BY <1>1, <1>2, <1>3 DEF IInv

LEMMA OrderStepInv ==
    ASSUME TypeOK, IInv, OrderStep
    PROVE  IInv'
<1>1. CASE ReissueGuestAccess
  BY <1>1, ReissueInv
<1>2. CASE QueueNotification
  BY <1>2, ShippedInv DEF QueueNotification
<1>3. CASE RecordPurchased
  BY <1>3, ShippedInv DEF RecordPurchased
<1>4. CASE FulfillOrder \/ UnfulfillOrder \/ AdminDies
  BY <1>4, UnseenInv DEF FulfillOrder, UnfulfillOrder, AdminDies
<1> QED
  BY <1>1, <1>2, <1>3, <1>4 DEF OrderStep

LEMMA ParkInv ==
    ASSUME TypeOK, IInv, NEW w \in Workers, NEW k \in Kinds, Park(w, k)
    PROVE  IInv'
<1> DEFINE rest == job[w].left \ {k}
<1>1. /\ job' \in [Workers -> Jobs]
      /\ \A v \in Workers : v # w => job'[v] = job[v]
      /\ job'[w].at \notin Holding
  <2>1. rest \in SUBSET Kinds
    BY DEF TypeOK, Jobs
  <2> QED
    BY <2>1, OnwardsLetsGo DEF Park
<1>2. /\ row[k].state = "processing" /\ row[k].attempts = MaxAttempts
      /\ row'[k].state = "dead"
      /\ \A l \in Kinds : row'[l].attempts = row[l].attempts
      /\ \A l \in Kinds : l # k => row'[l] = row[l]
      /\ UNCHANGED <<generation, mails>>
  BY OutboxAssumption DEF Park, Spent, TypeOK, Rows, orderVars
<1>3. FreshIfAbsent' /\ RetriedUntilSpent'
  BY <1>2 DEF IInv, FreshIfAbsent, RetriedUntilSpent
<1>4. TokensAreUnique'
  BY <1>1 DEF IInv, TokensAreUnique
<1>5. \A v \in Workers : HoldsClaim(v)'
  BY <1>1, <1>2 DEF IInv, HoldsClaim
<1>6. CopiesArePaid'
  <2> SUFFICES ASSUME NEW l \in Kinds
               PROVE  /\ IsFiniteSet(Unsent(l)')
                      /\ mails[l] + Cardinality(Unsent(l)') <= row[l].attempts
    BY <1>2 DEF CopiesArePaid
  <2>1. Unsent(l)' = Unsent(l)
    BY <1>1 DEF Unsent, Holding, Park
  <2> QED
    BY <2>1 DEF IInv, CopiesArePaid
<1>7. ReissuesInOrder'
  <2>1. \A l \in Kinds : row'[l].state # "absent" => row[l].state # "absent"
    BY <1>2
  <2> QED
    BY <1>1, <1>2, <2>1, ReissueIsKind DEF IInv, ReissuesInOrder, Holding
<1>8. CurrentLinkIsQueued'
  <2>1. generation > 1 => Reissue(generation) \in Kinds
    BY OutboxAssumption, ReissueIsKind DEF TypeOK
  <2>2. \A l \in Kinds : row'[l].state \in {row[l].state, "dead"}
    BY <1>2
  <2> QED
    BY <1>2, <2>1, <2>2 DEF IInv, CurrentLinkIsQueued
<1> QED
  BY <1>3, <1>4, <1>5, <1>6, <1>7, <1>8 DEF IInv

\* The new token is larger than any that was handed out for the row.
LEMMA ClaimInv ==
    ASSUME TypeOK, IInv, NEW w \in Workers, NEW k \in Kinds, ClaimNotification(w, k)
    PROVE  IInv'
<1> DEFINE token == row[k].attempts + 1
<1>1. /\ token \in 1..MaxAttempts
      /\ row[k].state \in {"pending", "processing"}
      /\ row' = [row EXCEPT ![k] = [state |-> "processing", attempts |-> token]]
      /\ job[w].at = "claim"
      /\ job'[w].at = "build" /\ job'[w].kind = k /\ job'[w].token = token
      /\ \A v \in Workers : v # w => job'[v] = job[v]
      /\ UNCHANGED <<generation, mails>>
  BY OutboxAssumption
     DEF ClaimNotification, AttemptsAfter, Spent, TypeOK, Rows, Jobs, orderVars
<1>2. /\ row'[k].state = "processing" /\ row'[k].attempts = token
      /\ \A l \in Kinds : l # k => row'[l] = row[l]
      /\ \A l \in Kinds : row[l].attempts \in Nat
  BY <1>1 DEF TypeOK, Rows
<1>3. FreshIfAbsent' /\ RetriedUntilSpent'
  BY <1>2 DEF IInv, FreshIfAbsent, RetriedUntilSpent
<1>4. TokensAreUnique'
  <2>1. \A v \in Workers : v # w /\ job[v].at \in Holding /\ job[v].kind = k
                             => job[v].token < token
    BY <1>2 DEF IInv, HoldsClaim, TypeOK, Jobs
  <2> QED
    BY <1>1, <2>1 DEF IInv, TokensAreUnique, TypeOK, Jobs
<1>5. \A v \in Workers : HoldsClaim(v)'
  <2> SUFFICES ASSUME NEW v \in Workers PROVE HoldsClaim(v)'
    OBVIOUS
  <2>1. CASE v = w
    BY <1>1, <1>2, <2>1 DEF HoldsClaim
  <2>2. CASE v # w
    BY <1>1, <1>2, <2>2 DEF IInv, HoldsClaim, TypeOK, Jobs
  <2> QED
    BY <2>1, <2>2
<1>6. CopiesArePaid'
  <2> SUFFICES ASSUME NEW l \in Kinds
               PROVE  /\ IsFiniteSet(Unsent(l)')
                      /\ mails[l] + Cardinality(Unsent(l)') <= row'[l].attempts
    BY <1>1 DEF CopiesArePaid
  <2>1. /\ IsFiniteSet(Unsent(l))
        /\ mails[l] + Cardinality(Unsent(l)) <= row[l].attempts
        /\ Cardinality(Unsent(l)) \in Nat
        /\ mails[l] \in Nat
    BY FS_CardinalityType DEF IInv, CopiesArePaid, TypeOK
  <2>2. CASE l = k
    <3>1. Unsent(l)' = Unsent(l) \cup {w} /\ w \notin Unsent(l)
      BY <1>1, <2>2 DEF Unsent
    <3>2. /\ IsFiniteSet(Unsent(l) \cup {w})
          /\ Cardinality(Unsent(l) \cup {w}) = Cardinality(Unsent(l)) + 1
      BY <2>1, <3>1, FS_AddElement
    <3> QED
      BY <1>2, <2>1, <2>2, <3>1, <3>2
  <2>3. CASE l # k
    <3>1. Unsent(l)' = Unsent(l)
      BY <1>1, <2>3 DEF Unsent
    <3> QED
      BY <1>2, <2>1, <2>3, <3>1
  <2> QED
    BY <2>2, <2>3
<1>7. ReissuesInOrder'
  BY <1>1, <1>2, ReissueIsKind DEF IInv, ReissuesInOrder
<1>8. CurrentLinkIsQueued'
  <2>1. generation > 1 => Reissue(generation) \in Kinds
    BY OutboxAssumption, ReissueIsKind DEF TypeOK
  <2>2. \A l \in Kinds : row'[l].state \in {row[l].state, "processing"}
    BY <1>2
  <2> QED
    BY <1>1, <2>1, <2>2 DEF IInv, CurrentLinkIsQueued
<1> QED
  BY <1>3, <1>4, <1>5, <1>6, <1>7, <1>8 DEF IInv

\* A pass that goes on with the row it holds, and does not send.
LEMMA HoldingOn ==
    ASSUME TypeOK, IInv, NEW w \in Workers,
           job[w].at \in Holding, job'[w].at \in Holding,
           job'[w].at \in {"build", "send"} => job[w].at \in {"build", "send"},
           job'[w].kind = job[w].kind, job'[w].token = job[w].token,
           \A v \in Workers : v # w => job'[v] = job[v],
           \A g \in 2..MaxGeneration :
              job'[w].at = "skip" /\ job[w].kind = Reissue(g) => g # generation,
           UNCHANGED <<row, generation, mails>>
    PROVE  IInv'
<1>1. FreshIfAbsent' /\ RetriedUntilSpent' /\ CurrentLinkIsQueued'
  BY DEF IInv, FreshIfAbsent, RetriedUntilSpent, CurrentLinkIsQueued
<1>2. TokensAreUnique'
  BY DEF IInv, TokensAreUnique
<1>3. \A v \in Workers : HoldsClaim(v)'
  BY DEF IInv, HoldsClaim
<1>4. CopiesArePaid'
  <2> SUFFICES ASSUME NEW k \in Kinds
               PROVE  /\ IsFiniteSet(Unsent(k)')
                      /\ mails[k] + Cardinality(Unsent(k)') <= row[k].attempts
    BY DEF CopiesArePaid
  <2>1. Unsent(k)' = Unsent(k) \/ Unsent(k)' = Unsent(k) \ {w}
    BY DEF Unsent
  <2>2. /\ IsFiniteSet(Unsent(k))
        /\ mails[k] + Cardinality(Unsent(k)) <= row[k].attempts
    BY DEF IInv, CopiesArePaid
  <2>3. mails[k] \in Nat /\ row[k].attempts \in Nat
    BY DEF TypeOK, Rows
  <2>4. /\ IsFiniteSet(Unsent(k) \ {w})
        /\ Cardinality(Unsent(k) \ {w}) <= Cardinality(Unsent(k))
        /\ Cardinality(Unsent(k) \ {w}) \in Nat
        /\ Cardinality(Unsent(k)) \in Nat
    BY <2>2, OneLess
  <2>5. CASE Unsent(k)' = Unsent(k)
    BY <2>2, <2>5
  <2>6. CASE Unsent(k)' = Unsent(k) \ {w}
    BY <2>2, <2>3, <2>4, <2>6
  <2> QED
    BY <2>1, <2>5, <2>6
<1>5. ReissuesInOrder'
  <2> SUFFICES ASSUME NEW g \in 2..MaxGeneration, NEW v \in Workers,
                      job'[v].at = "skip", job'[v].kind = Reissue(g)
               PROVE  g < generation
    BY DEF IInv, ReissuesInOrder
  <2>1. CASE v = w
    <3>1. row[Reissue(g)].state # "absent"
      BY <2>1 DEF IInv, HoldsClaim
    <3>2. g <= generation /\ g # generation
      BY <2>1, <3>1 DEF IInv, ReissuesInOrder
    <3> QED
      BY <3>2, OutboxAssumption DEF TypeOK
  <2>2. CASE v # w
    BY <2>2 DEF IInv, ReissuesInOrder
  <2> QED
    BY <2>1, <2>2
<1> QED
  BY <1>1, <1>2, <1>3, <1>4, <1>5 DEF IInv

\* A copy uses up the attempt the pass held.
LEMMA SendInv ==
    ASSUME TypeOK, IInv, NEW w \in Workers, Send(w)
    PROVE  IInv'
<1> DEFINE k == job[w].kind
<1>1. /\ job[w].at = "send" /\ k \in Kinds
      /\ job'[w].at \in {"sent", "fail"}
      /\ job'[w].kind = k /\ job'[w].token = job[w].token
      /\ \A v \in Workers : v # w => job'[v] = job[v]
      /\ UNCHANGED <<row, generation>>
  BY DEF Send, orderVars, TypeOK, Jobs, IInv, HoldsClaim, Holding
<1>2. mails' = mails \/ mails' = [mails EXCEPT ![k] = @ + 1]
  BY DEF Send
<1>3. FreshIfAbsent' /\ RetriedUntilSpent' /\ CurrentLinkIsQueued'
  BY <1>1 DEF IInv, FreshIfAbsent, RetriedUntilSpent, CurrentLinkIsQueued
<1>4. TokensAreUnique'
  BY <1>1 DEF IInv, TokensAreUnique, Holding
<1>5. \A v \in Workers : HoldsClaim(v)'
  BY <1>1 DEF IInv, HoldsClaim, Holding
<1>6. CopiesArePaid'
  <2> SUFFICES ASSUME NEW l \in Kinds
               PROVE  /\ IsFiniteSet(Unsent(l)')
                      /\ mails'[l] + Cardinality(Unsent(l)') <= row[l].attempts
    BY <1>1 DEF CopiesArePaid
  <2>1. /\ IsFiniteSet(Unsent(l))
        /\ mails[l] + Cardinality(Unsent(l)) <= row[l].attempts
        /\ mails[l] \in Nat /\ row[l].attempts \in Nat
    BY DEF IInv, CopiesArePaid, TypeOK, Rows
  <2>2. CASE l = k
    <3>1. w \in Unsent(l) /\ Unsent(l)' = Unsent(l) \ {w}
      BY <1>1, <2>2 DEF Unsent
    <3>2. /\ IsFiniteSet(Unsent(l) \ {w})
          /\ Cardinality(Unsent(l) \ {w}) + 1 = Cardinality(Unsent(l))
          /\ Cardinality(Unsent(l) \ {w}) \in Nat
      BY <2>1, <3>1, OneLess
    <3>3. mails'[l] = mails[l] \/ mails'[l] = mails[l] + 1
      BY <1>2, <2>2 DEF TypeOK
    <3> QED
      BY <2>1, <3>1, <3>2, <3>3
  <2>3. CASE l # k
    <3>1. Unsent(l)' = Unsent(l)
      BY <1>1, <2>3 DEF Unsent
    <3>2. mails'[l] = mails[l]
      BY <1>2, <2>3 DEF TypeOK
    <3> QED
      BY <2>1, <3>1, <3>2
  <2> QED
    BY <2>2, <2>3
<1>7. ReissuesInOrder'
  BY <1>1 DEF IInv, ReissuesInOrder
<1> QED
  BY <1>3, <1>4, <1>5, <1>6, <1>7 DEF IInv

\* A completion that its token lets through finds the row as its claim left it.
LEMMA MarkInv ==
    ASSUME TypeOK, IInv, NEW w \in Workers, NEW state, Mark(w, state),
           state \in {"sent", "skipped", "dead", "pending"},
           job[w].at \in Holding,
           state = "pending" => job[w].token < MaxAttempts,
           state = "dead" => job[w].token = MaxAttempts,
           state = "skipped" => job[w].at = "skip"
    PROVE  IInv'
<1> DEFINE k == job[w].kind
<1>1. k \in Kinds
  BY DEF IInv, HoldsClaim
<1>2. /\ job' \in [Workers -> Jobs]
      /\ \A v \in Workers : v # w => job'[v] = job[v]
      /\ job'[w].at \notin Holding
      /\ UNCHANGED <<generation, mails>>
  BY OnwardsLetsGo DEF Mark, orderVars, TypeOK, Jobs
<1>3. CASE ~Fenced(w)
  <2>1. row' = row
    BY <1>3 DEF Mark
  <2> QED
    BY <1>2, <2>1, LettingGo
<1>4. CASE Fenced(w)
  <2>1. /\ row[k].state = "processing" /\ row[k].attempts = job[w].token
        /\ row'[k].state = state
        /\ \A l \in Kinds : row'[l].attempts = row[l].attempts
        /\ \A l \in Kinds : l # k => row'[l] = row[l]
    BY <1>1, <1>4 DEF Mark, Fenced, TypeOK, Rows
  <2>2. FreshIfAbsent' /\ RetriedUntilSpent'
    BY <2>1 DEF IInv, FreshIfAbsent, RetriedUntilSpent
  <2>3. TokensAreUnique'
    BY <1>2 DEF IInv, TokensAreUnique
  <2>4. \A v \in Workers : HoldsClaim(v)'
    BY <1>2, <2>1 DEF IInv, HoldsClaim
  <2>5. CopiesArePaid'
    <3> SUFFICES ASSUME NEW l \in Kinds
                 PROVE  /\ IsFiniteSet(Unsent(l)')
                        /\ mails[l] + Cardinality(Unsent(l)') <= row[l].attempts
      BY <1>2, <2>1 DEF CopiesArePaid
    <3>1. Unsent(l)' = Unsent(l) \ {w}
      BY <1>2 DEF Unsent, Holding
    <3>2. /\ IsFiniteSet(Unsent(l))
          /\ mails[l] + Cardinality(Unsent(l)) <= row[l].attempts
          /\ mails[l] \in Nat /\ row[l].attempts \in Nat
      BY DEF IInv, CopiesArePaid, TypeOK, Rows
    <3>3. /\ IsFiniteSet(Unsent(l) \ {w})
          /\ Cardinality(Unsent(l) \ {w}) <= Cardinality(Unsent(l))
          /\ Cardinality(Unsent(l) \ {w}) \in Nat
          /\ Cardinality(Unsent(l)) \in Nat
      BY <3>2, OneLess
    <3> QED
      BY <3>1, <3>2, <3>3
  <2>6. ReissuesInOrder'
    <3>1. \A l \in Kinds : row'[l].state # "absent" => row[l].state # "absent"
      BY <2>1
    <3> QED
      BY <1>2, <3>1, ReissueIsKind DEF IInv, ReissuesInOrder, Holding
  <2>7. CurrentLinkIsQueued'
    <3> SUFFICES ASSUME generation > 1
                 PROVE  row'[Reissue(generation)].state \notin {"absent", "skipped"}
      BY <1>2 DEF CurrentLinkIsQueued
    <3>1. generation \in 2..MaxGeneration /\ Reissue(generation) \in Kinds
      BY OutboxAssumption, ReissueIsKind DEF TypeOK
    <3>2. k = Reissue(generation) => job[w].at # "skip"
      BY <3>1 DEF IInv, ReissuesInOrder
    <3> QED
      BY <2>1, <3>1, <3>2 DEF IInv, CurrentLinkIsQueued
  <2> QED
    BY <2>2, <2>3, <2>4, <2>5, <2>6, <2>7 DEF IInv
<1> QED
  BY <1>3, <1>4

LEMMA InvStep == TypeOK /\ IInv /\ [Next]_vars => IInv'
<1> SUFFICES ASSUME TypeOK, IInv, [Next]_vars PROVE IInv'
  OBVIOUS
<1>1. CASE OrderStep
  BY <1>1, OrderStepInv
<1>2. ASSUME NEW w \in Workers, NEW list \in SUBSET Kinds, Deliver(w, list)
      PROVE  IInv'
  <2>1. job' \in [Workers -> Jobs] /\ job'[w].at \notin Holding
    BY <1>2, IdleIsJob DEF Deliver, TypeOK, Jobs, Idle, Holding
  <2> QED
    BY <1>2, <2>1, LettingGo DEF Deliver, TypeOK, orderVars
<1>3. ASSUME NEW w \in Workers, NEW k \in Kinds, PassOver(w, k) PROVE IInv'
  <2> DEFINE rest == job[w].left \ {k}
  <2>1. rest \in SUBSET Kinds
    BY DEF TypeOK, Jobs
  <2> QED
    BY <1>3, <2>1, OnwardsLetsGo, LettingGo DEF PassOver, orderVars
<1>4. ASSUME NEW w \in Workers, PassDies(w) PROVE IInv'
  <2>1. /\ job' \in [Workers -> Jobs]
        /\ job'[w].at \notin Holding
        /\ \A v \in Workers : v # w => job'[v] = job[v]
    BY <1>4, IdleIsJob DEF PassDies, TypeOK, Idle, Holding
  <2> QED
    BY <1>4, <2>1, LettingGo DEF PassDies, orderVars
<1>5. ASSUME NEW w \in Workers, ProviderUnavailable(w) PROVE IInv'
  <2>1. job[w].kind \in Reissues => job'[w].at = "fail"
    BY <1>5 DEF ProviderUnavailable, WithoutProvider, TypeOK, Jobs
  <2>2. /\ job[w].at = "build" /\ job'[w].at \in {"skip", "fail"}
        /\ job'[w].kind = job[w].kind /\ job'[w].token = job[w].token
        /\ \A v \in Workers : v # w => job'[v] = job[v]
        /\ UNCHANGED <<row, generation, mails>>
    BY <1>5 DEF ProviderUnavailable, WithoutProvider, TypeOK, Jobs, orderVars
  <2> QED
    BY <2>1, <2>2, HoldingOn DEF Holding, Reissues
<1>6. ASSUME NEW w \in Workers, Build(w) PROVE IInv'
  <2>1. job[w].kind = Reissue(generation) /\ generation > 1 => job'[w].at = "send"
    BY <1>6 DEF Build, Applicable, Reissue, Shipped, TypeOK, Jobs
  <2>2. /\ job[w].at = "build" /\ job'[w].at \in {"skip", "send"}
        /\ job'[w].kind = job[w].kind /\ job'[w].token = job[w].token
        /\ \A v \in Workers : v # w => job'[v] = job[v]
        /\ UNCHANGED <<row, generation, mails>>
    BY <1>6 DEF Build, TypeOK, Jobs, orderVars
  <2>3. \A g \in 2..MaxGeneration :
           job'[w].at = "skip" /\ job[w].kind = Reissue(g) => g # generation
    BY <2>1
  <2> QED
    BY <2>2, <2>3, HoldingOn DEF Holding
<1>7. ASSUME NEW w \in Workers, Throws(w) PROVE IInv'
  <2>1. /\ job[w].at \in Holding /\ job'[w].at = "fail"
        /\ job'[w].kind = job[w].kind /\ job'[w].token = job[w].token
        /\ \A v \in Workers : v # w => job'[v] = job[v]
        /\ UNCHANGED <<row, generation, mails>>
    BY <1>7 DEF Throws, TypeOK, Jobs, orderVars, Holding
  <2> QED
    BY <2>1, HoldingOn DEF Holding
<1>8. ASSUME NEW w \in Workers, MarkNotificationSent(w) \/ MarkNotificationSkipped(w)
      PROVE  IInv'
  BY <1>8, MarkInv DEF MarkNotificationSent, MarkNotificationSkipped, Holding
<1>9. ASSUME NEW w \in Workers, MarkNotificationFailed(w) PROVE IInv'
  <2> DEFINE state == FailedState(job[w].token)
  <2>1. /\ state \in {"dead", "pending"}
        /\ state = "pending" => job[w].token < MaxAttempts
        /\ state = "dead" => job[w].token = MaxAttempts
    BY OutboxAssumption DEF FailedState, TypeOK, Jobs
  <2>2. job[w].at \in Holding /\ Mark(w, state)
    BY <1>9 DEF MarkNotificationFailed, Holding
  <2> HIDE DEF state
  <2> QED
    BY <2>1, <2>2, MarkInv
<1>10. CASE UNCHANGED vars
  BY <1>10, UnseenInv DEF vars
<1> QED
  BY <1>1, <1>2, <1>3, <1>4, <1>5, <1>6, <1>7, <1>8, <1>9, <1>10,
     ParkInv, ClaimInv, SendInv DEF Next, PassStep

\* The inductive invariant holds in every reachable state.
THEOREM InductiveInvariant == Spec => [](TypeOK /\ IInv)
<1>1. Init => TypeOK /\ IInv
  BY TypeInit, InvInit
<1>2. TypeOK /\ IInv /\ [Next]_vars => (TypeOK /\ IInv)'
  BY TypeStep, InvStep
<1> QED
  BY <1>1, <1>2, PTL DEF Spec

\* Every variable keeps its type, whatever the passes and the attempts.
THEOREM TypeCorrect == Spec => []TypeOK
  BY InductiveInvariant, PTL

\* No two passes hold the same row under the same fencing token.
THEOREM FencingWorks == Spec => []TokensAreUnique
<1>1. IInv => TokensAreUnique
  BY DEF IInv
<1> QED
  BY <1>1, InductiveInvariant, PTL

\* A mail is sent at most once for each attempt that was claimed.
THEOREM CopiesStayBounded == Spec => []CopiesAreBounded
<1>1. TypeOK /\ IInv => CopiesAreBounded
  <2> SUFFICES ASSUME TypeOK, IInv, NEW k \in Kinds
               PROVE  mails[k] <= row[k].attempts
    BY DEF CopiesAreBounded
  <2>1. /\ IsFiniteSet(Unsent(k))
        /\ mails[k] + Cardinality(Unsent(k)) <= row[k].attempts
        /\ mails[k] \in Nat /\ row[k].attempts \in Nat
    BY DEF IInv, CopiesArePaid, TypeOK, Rows
  <2>2. Cardinality(Unsent(k)) \in Nat
    BY <2>1, FS_CardinalityType
  <2> QED
    BY <2>1, <2>2
<1> QED
  BY <1>1, InductiveInvariant, PTL

\* No mail is given up, or left without an attempt to be retried with, early.
THEOREM RetriedToTheEnd == Spec => []RetriedUntilSpent
<1>1. IInv => RetriedUntilSpent
  BY DEF IInv
<1> QED
  BY <1>1, InductiveInvariant, PTL

\* The mail with the guest link in force is queued and never skipped.
THEOREM LinkIsQueued == Spec => []CurrentLinkIsQueued
<1>1. IInv => CurrentLinkIsQueued
  BY DEF IInv
<1> QED
  BY <1>1, InductiveInvariant, PTL
=============================================================================

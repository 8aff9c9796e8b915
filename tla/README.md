# Verification of the event-day-signs store

TLA+ models of the parts of the store where money, stock, credentials and mail
can go wrong: what the code does, one action per atomic step, checked by TLC on
small instances and, where a property matters most, proved by TLAPS for every
instance. Line references are to the repository.

The store is a Cloudflare Worker over one D1 (SQLite) database. Every request,
webhook and scheduled run is a Worker invocation that may stop at any `await`.
D1 runs one statement at a time, and a `db.batch([...])` as one transaction.
Everything else interleaves. All models take this as their notion of atomicity:
**one action is one statement or batch, with the in-memory work around it**.

1. Inventory
2. Modules and how they correspond to the code
3. What each run checks and shows
4. Bounds and fairness
5. What is proved, and how
6. What the code does that its documents deny
7. What is not modelled
8. Plan

## 1. Inventory

### Stock reservation (`features/orders/reservations.ts`)
*State*: `products.stock`, `product_variants.stock` (NULL: not tracked),
`checkout_reservations.status` (active, payment_pending, settled, expired,
failed, released), reservation items.
*Operations*: `reserveInventory` (first releases due holds, then one guarded
batch that takes a cart whole or not at all), `releaseReservation` (guarded by a
live status), `releaseExpiredReservations` (self-rendered rails only),
`expireSelfRenderedReservation`, `markReservationPaymentPending`.
*Hard*: holds are released by five callers; a hosted payment may arrive after
the release; two carts race for the last unit.
*Correct when*: no unit is lost or returned twice; a payable checkout keeps its
units; a paid one can always be settled.

### Checkout request (`pages/api/checkout.ts`)
*State*: the stage of one POST, none of it persistent but through the others.
*Operations*: claim the order identity and guest link, reserve, open a provider
session, store the pending payment, answer with a URL; on failure undo in the
order hold, access row.
*Interacts with*: reservation, guest access, the provider's API.
*Hard*: a crash at every await; `createCheckout` throwing after the provider
already has a session.

### Settlement (`features/orders/recordWebhook.ts`, `orders/db.ts`, `payments/checkout/settle.ts`, `pages/pay/[publicId].astro`)
*State*: `orders`, `order_items`, `inventory_exceptions`, `pending_payments`.
*Operations*: a provider's paid, pending, expired and failed events; the pay page
that settles when it is viewed; the demo form; `recordPaidOrder`, one batch whose
statements all depend on winning `orders.provider_session_id`.
*Hard*: the same payment settled by two paths at once, events repeated and out of
order, the reservation read before the batch.
*Correct when*: one order per payment, written if the payment was taken, with
the lines that were reserved.

### Payment providers (`features/payments/*`)
Stripe, OpenNode, direct Lightning and Demo. External: the models keep what each
can report and when, never the wire format.

### Guest access (`features/orders/guestAccess.ts`)
*State*: `order_guest_access` (token, generation, hidden).
*Operations*: claim, delete if unsettled, sweep of abandoned checkouts, reissue
(rotate and queue its mail in one batch).
*Correct when*: the buyer of a paid order can reach it, and the link in force is
on its way to the customer.

### Refund ledger (`features/refunds/*`, `pages/api/admin/refunds.ts`, the order forms)
*State*: `orders.provider_refunded_cents` and `external_refunded_cents`, status,
review; the append-only `refunds` table; `refund_sync_events`.
*Operations*: webhook (persist, apply, mark, check totals), retry, refund through
the provider, synchronise by hand, record, void, acknowledge, dismiss; one notice
per advance.
*Hard*: two sources of truth for one total; events late, repeated and out of
order; a crash between the batch and what follows it.
*Correct when*: the history adds up, the provider total is never ahead of the
provider, the status follows the totals, the customer is told once.

### Shipping labels (`features/shipping/labelStore.ts`, `labels.ts`, the order forms)
*State*: one `shipping_labels` row per order (quoted, purchasing, purchased,
failed, uncertain), fenced by a claim token; `shipping_label_attempts`; the
order's fulfilment and tracking.
*Operations*: quote, claim, purchase at Shippo, record, fail, park, reconcile,
discard, force-discard, fulfil and unfulfil by hand.
*Hard*: the purchase moves money and its answer may be lost or not final; the
reconciliation races the request it replaces.
*Correct when*: never two charges; no attempt disappears; the trail is true.

### Notification outbox (`features/email/outboxStore.ts`, `outbox.ts`)
*State*: `order_notifications` (pending, processing with lease and attempts, sent,
skipped, dead).
*Operations*: queue with the fact announced, list, claim (park when spent), build,
send, mark under the claim's attempt number; the sweep.
*Hard*: overlapping passes, leases that run out, passes that die mid-send.
*Correct when*: tokens fence, attempts bound the copies, nothing is stuck.

### Shipping quotes and the cart (`features/shipping/calculator.ts`, `settings.ts`, `weight.ts`, `cart/cart.ts`, `lines.ts`, the checkout pages)
*State*: the shipping document as stored, products and variants with their
weights, each shopper's cart cookie, and what an order records of the option
that was chosen.
*Operations*: validate a document, fall back from an invalid one to a closed
store, weigh a basket, offer the options of a destination; add, set, remove,
clear; price a basket by the card form, the JSON API, the in-app page and the
demo form; settle a hosted session or a pending payment; ask for labels.
*Hard*: every way to buy must ask for the same; the in-app page prices twice,
and the store may change in between; free shipping is a choice or a bypass.
*Correct when*: a chosen option means one price; a sale that cannot ship is
refused; nothing picked up in person gets a label; a heavier basket never
falls through the scale.

### Shipping settings (`features/shipping/settings.ts`, `pages/admin/settings/shipping.astro`, the product forms)
*State*: one JSON row with a revision, the forms open in several tabs, and the
weights of products that must agree with the scale.
*Operations*: open, type, save (read, validate, check the products, write under
the revision that was shown), repair a broken row; save or delete a product
(read the document, check, write).
*Hard*: two tabs with the same revision; a product saved against a document
that is about to change.
*Correct when*: no save overwrites an edit its tab never showed; a store that
cannot sell is the work of a race, never of one save alone.

### Media library (`media/db.ts`, `usage.ts`, `pages/save.ts`, the product and page forms)
*State*: objects in the bucket, rows of `media`, galleries, thumbnails, the
logo, bodies of pages and the `page_media` claims they make.
*Operations*: upload, attach, reorder, detach, delete a product, delete a file,
set the logo, save, publish and delete a page; a stop between any two statements.
*Hard*: a file deleted while an editor uses it; publication decided on one read
and written later.
*Correct when*: what the store shows exists; what a page embeds is claimed.

### Categories (`categories/db.ts`)
*State*: a tree by `parent_id`, links to products.
*Hard*: a guard against cycles that reads first and writes later.
*Correct when*: each category is reached from the top; an orphan or a cycle can
only be the work of two requests.

### Navigation (`navigation/db.ts`)
*State*: two menus of items with positions.
*Hard*: ordering by position where two overlapping moves leave ties.
*Correct when*: one request alone does to the order what was asked.

### Edge cache (`cache/purge.ts`, `middleware.ts`, the admin handlers)
*State*: copies at the edge, with the tags they were stored under.
*Hard*: a visitor that reads before a write and stores after the purge; purges
that fail; tags that do not name all that was read.
*Correct when*: a stale copy has a reason that is on the list.

### Membership (`membership/db.ts`)
*State*: `membership_events`, customers, memberships, an audit.
*Hard*: events repeated and out of order, a crash between recording an event and
applying it, three kinds of event that write the same columns.
*Correct when*: who subscribes is entitled (section 6: not so).

### Other components
| component | what it does | status |
|---|---|---|
| Reviews (`reviews/db.ts`) | a token, a submission and a moderation, each one statement | only as a writer that purges nothing (EdgeCache) |
| Prices, extras, specs of products and variants | rows without protocol; absolute stock edits overwrite holds | hazards only |
| Settings (`settings/db.ts`) | one row per key; modelled for shipping, the logo and the cache | in part |
| Search, public ids, authentication, themes, MCP server, installer | see PROJECT.json | not modelled |

## 2. Modules and how they correspond to the code

| module | what it is |
|---|---|
| `StockLedger` | what the reservation code promises about finite stock, without saying how |
| `Checkout` | reservation, checkout request, settlement, guest access, four payment rails; implements `StockLedger` |
| `RefundLedger` | what the refund code promises about one paid order: six numbers and five steps |
| `Refunds` | the refund accounting of one order; implements `RefundLedger` |
| `LabelPurchase` | what the label code promises: one purchase at a time, each ended once and truly |
| `Labels` | buying the label of one order; implements `LabelPurchase` |
| `Outbox` | the mails of one settled order, and reissued links |
| `Rates` | the pure functions of shipping: validation, weights, scales, offers; no state |
| `Catalog` | the products and variants that quotes read and forms edit |
| `ShippingQuote` | shoppers, carts and the ways to buy over `Catalog`, down to the order and its labels |
| `ShippingSettings` | the editors of the shipping document and of products, over `Catalog` |
| `Media` | uploads and everything that refers to a file |
| `Categories` | the tree of categories and its links to products |
| `Navigation` | the two menus |
| `Structure` | Categories and Navigation side by side, which share no state |
| `EdgeCache` | the shared copy of one document, those who write and those who fill it |
| `Membership` | Stripe's subscription events and the read model they feed |
| `Sums` | lemmas on sums over finite sets, for the proofs that count units, cents and grams |
| `<part>_proofs` | theorems: Checkout, Refunds, Labels, Outbox, Media; Storefront (Categories, Navigation, EdgeCache); Shipping (ShippingQuote, ShippingSettings) |
| `MC*` | constants of the small instances |

Each definition that stands for code is listed with its lines in PROJECT.json
under `map`. Definitions commented *a slip* (or in a block headed so) are
plausible errors used to test that the properties can fail; no specification
uses them.

### Checkout
`stage[c]` is the program counter of one POST: `claimed` → `sweeping` → `held` →
`session` → `ready` → `open` (the buyer has the URL), or `undo` → `undone` →
`ended`. `hold`, `orders`, `pending`, `guest` are the rows of checkout *c*;
`inFlight` are settlements between their read of the reservation and their
batch, `listed` holds a request has read as due and not yet released. `pay` and
`events` are the provider.

Abstractions:
- Lines of one stock target are added up; an untracked product is no target.
- Time is the order of two instants per checkout: the reservation falls due
  (`due`) and the pay window closes (`closed`). For Lightning the grace of five
  minutes puts `closed` first (`checkout.ts:79`); for Demo it may be `due`.
- The sweep's SELECT and its releases are one step per hold: the release tests
  the status again, so the read adds nothing. The 50-row limit is left out. The
  sweep at the head of `reserveInventory` is kept apart (`listed`), because
  another request can change a hold between its list and its release.
- Random ids do not collide (the code retries on the UNIQUE index).
- `sale[c].taken` partly records what no column does: which units an order got.
- `LateRails` says which hosted rails may report a payment after an expiry.

### Refunds
`req[w]` is one request and its step; a webhook persists the event, finds the
order, synchronises, marks, checks the totals and mails. One order and the events
of its charge are enough, since statements of different orders touch different
rows. The read and the batch of `syncProviderRefund` are one step: the guard is
repeated in the batch, and the provider's total only grows. The read of a void is
taken at its batch for the same reason (the reversal row is the guard). What a
merchant types into the sync form is a total of the provider's dashboard; typing
errors are not modelled. The notice's outcome is not stored, so `mailed` counts
cents handed to the mailer.

### Labels
A claim is named by its token. A quote is spent by the claim and only a new
shipment reopens the row, so asking Shippo about a rate is asking about one
claim. `shippo[c]` is the transaction, from `travelling` (posted, not yet seen) on.
A `purchasing` row may be reconciled once its lease is over; the model lets that
happen at any time, which allows more than the code. An error while reconciling
and an incomplete record end the request, which `RequestDies` covers.
`delivery_method` is `shipping`.

### Outbox
`job[w]` is a delivery pass: the rows it listed, the one it holds with its token,
and what it saw of the order, which it reads once (`order ??=`). A lease may be
over at any moment. `Park` and `ClaimNotification` are the two statements of
`claimNotification`; no row satisfies both and attempts never shrink, so nothing
can come between them. `receipt` stands for the customer's and the owner's mail.
A pass takes its rows in any order. The provider may or may not know the
idempotency key. The sweep's minimum age and limit are left out.

### Rates, ShippingQuote and ShippingSettings
`Rates` translates the pure functions of `features/shipping`: `ValidDocument` and
its parts are the validation, `Effective` is the document a request uses,
`QuoteShipping` the calculator, `ItemWeight` the scale, `MissingWeight` Admin's count.
A quote is a function of the places of the rates that a zone offers, with 0 for
free shipping. `visit[s]` is where shopper *s* stands:
in which form, with which basket, with the quotes that were shown, the choice
and the order. The property `QuotesFollowTheScale` compares the quotes with
`IsDue`, a reference definition that knows neither the code's loops nor its order.

Abstractions: a request reads the store at one moment; extras and zone names are
left out; reading the cookie and writing it is one step; a cart that is switched
off is a stutter; the charged price is the one quoted in the same request.
`ClearCart` stands for the order pages, which any order may open.

In `ShippingSettings` a save is a read, the checks and the write, each its own
step. `tab[t].fresh` and `editor[e].fresh` are history: whether anything was
written since the read. The code keeps no such mark; the properties need it to
tell a race from a wrong decision. The row may also be edited by hand, which
is how an unparsable document comes to be.

### Media
A key is drawn once (`drawn`), so a file is its key. `edit[e]` is a request on
uploads, products and galleries, `save[a]` one that saves a page; each statement
is an action. Alt texts and sizes are left out. Foreign keys bind nothing, as
the code itself assumes; a request may stop between any two statements.

### Categories and Navigation
`request[e]` is what a handler has read and is about to do. Categories' recursive
queries use `UNION ALL`, and would not end under a cycle; that is why
`TreeShowsAll` and the properties of writes are stated for an acyclic tree, and
cycles are a property of their own. Labels, slugs and link targets are left out; what a menu
points at may become private or public at any time (`public`).

### EdgeCache
A document is known by the facts it has read, and a fact written afterwards is
stale in it: seven kinds of fact, four kinds of document, by the shape of what the
route reads and the tags it sets. Copies of different URLs do not interact, so
one stands for all. The property is about the facts, never about their content.
Settings are two facts, after what the settings handler does (`settings.astro:313-327`):
`settings` is saved by the actions it counts as public, and purged;
`providers` is how mail is sent and with which credentials payments are taken, saved
by the sections for e-mail, Stripe, Lightning and OpenNode, and not purged. Both come
with the one read of the settings table; that the Resend key is looked up again when
the header is rendered is left out, and so are saves that no shared document shows
(Turnstile, Shippo, shipping) and the related products a first view stores for
later ones (`products/db.ts:177`).

### Membership
`truth` is the subscription at Stripe, `unanswered` the events not yet answered;
a webhook applies each of its statements as a step. The paid period is left out,
and a customer has one subscription.

## 3. What each run checks and shows

| run | instance | properties | shows |
|---|---|---|---|
| `checkout_safety` | 3 checkouts (Lightning, OpenNode, Demo), two targets with 2 and 1 units, late payments, 2 settlements in flight | `StockConserved`, `SettledIffOrdered`, `PayableIsHeld`, `PaidIsSettleable`, `OrderIsReachable`, `LossNeedsStaleRead`, `ImplementsLedger` | stock is conserved and every payment can be turned into one reachable order, through every interleaving, crash and late event |
| `checkout_live` | two buyers of one unit: Stripe, and beside it Lightning or OpenNode | `PaidBecomesOrder`, `HoldEnds` | what a hosted provider was paid becomes an order, and so does a paid invoice whose node repeats its nudge; a hold ends if the clock or a session that can be matched may end it |
| `refunds_safety` | 2 requests, 2 events (one contradicting), 2 cash amounts, one crash | `HistoryAddsUp`, `StatusFollowsTotals`, `MailedAtMostOnce`, `ImplementsRefundLedger` | totals, history, status and notices agree, and move only as the ledger allows |
| `refunds_live` | partial and full refund, one crash | `RefundIsCounted`, `OverRefundIsReviewed` | refunds arrive, and excess totals reach a human |
| `labels_safety` | 3 purchases, 2 requests | `OneCharge`, `EveryClaimIsAccounted`, `OneRouteFulfils`, `LabelledOrderIsTold`, `ImplementsPurchase` | one charge, nothing lost, a trail that is true of the money |
| `outbox` | 2 passes, 2 attempts, a shipped notice and one reissue | `CopiesAreBounded`, `RetriedUntilSpent`, `CurrentLinkIsQueued`, `QueuedIsSettled` | bounded copies, nothing stuck |
| `media` | 2 files, 1 product, 1 page, 2 gallery rows, 2 requests | `ReferencesAreBacked`, `EmbeddedIsClaimed`, `PublicationFollowsTheRead` | uploads, deletions and saves in any order never leave a gallery or logo without its file, nor an embedded file unclaimed |
| `shipping_quote` | 1 product with 1 variant, 3 countries of which Stripe refuses one, 8 documents, weights 0, 1 and none, quantities to 2, 1 shopper | `ChoiceIsUnambiguous`, `BlockedSaleIsCounted`, `PickupIsNeverLabelled`, `QuotesFollowTheScale`, `UnshippedByChoice` | what is asked for shipping, and kept of it, on each way to buy |
| `shipping_settings` | 2 tabs, 2 product editors, 3 documents, 1 revision, 1 edit by hand | `NoLostEdit`, `UnsellableNeedsStaleRead` | the revision guards edits; only races make an unsellable store |
| `structure` | 3 categories and 1 product, or one menu of 3 items; 2 administrators | `TreeShowsAll`, `CycleNeedsStaleWrite`, `OrphanNeedsStaleWrite`, `ListingFollowsLinks`, `MenuOrderNeedsNoLuck` | trees and menus are right unless two administrators overlap, and then only in named ways |
| `edge` | 2 writers, 2 visitors, 3 edits | `StaleIsExplained` | the reasons for a stale copy are the listed ones and no other |
| `membership` | 1 customer, 1 request, 4 events | `SubscriberIsEntitled` (violated) | section 6 |

The type invariant of every module but Membership is proved, so no run repeats
it; Membership's can be put into its cfg.

Deadlock checking is off where an instance really ends: a checkout run has finitely many
checkouts, a shopper may be done, and revisions, items and events are bounded. In
the other models an administrator or a provider can always do something, and
deadlock is checked.

Properties worth a word:

- `ImplementsLedger` is the refinement to `StockLedger`: a hold takes a cart whole,
  each held unit is sold once or given back once, and a late sale takes at most
  what is left.
- `ImplementsRefundLedger` is the refinement to `RefundLedger`. It carries what is
  said of the provider's total step by step: a count goes up and never past what was
  returned, a record fits the balance of that moment, a void never goes below zero,
  the order is closed by the step that covers it, and a notice tells of what
  was recognised and is not yet told.
- `ImplementsPurchase` is the refinement to `LabelPurchase`. The trail of a claim
  changes once, and then says what became of the money; a claim is sent to Shippo
  before it ends, or after a human gave it up without knowing; nothing begins after
  one was bought.
- `LossNeedsStaleRead` says precisely how an order can come to miss units without
  a recorded exception: its settlement read a live reservation, and the hold was
  given back before its batch. It holds, and is proved; `LateSaleIsAccounted`,
  which the documents promise, does not (section 6).
- `PayableIsHeld` leaves out nothing but money that cannot be taken: it speaks of
  checkouts whose URL the buyer has and whose provider session is open.
- `OneCharge` excuses a claim a human force-discarded, as the form warns.
- `OverRefundIsReviewed` holds under Refunds' fairness only because each path that
  can exceed the total checks it or is followed by an event that does; a crash
  between is repaired by the provider's redelivery.
- `UnsellableNeedsStaleRead`, `CycleNeedsStaleWrite` and `OrphanNeedsStaleWrite` have one
  shape: the bad state is reachable, but no request that decided on what
  is still true brings it about. They separate races, which the code accepts, from
  wrong guards.
- `StaleIsExplained` lists each reason a visitor may be served an old copy: a fill
  that read before the write, a purge that failed, a failed read, and four edges that
  have no purge: e-mail and payment credentials on both kinds of page, reviews on a
  design's page, stock in the feed. The first two contradict a comment (section 6).
- `PaidBecomesOrder` carries its assumption about Lightning as a condition, the strong
  fairness of the node's webhook; for Stripe and OpenNode it is in `Fairness`.
- `MenuOrderNeedsNoLuck` speaks of a menu without two equal positions: a request
  whose read is still true leaves it so, and has the asked effect.
- `PublicationFollowsTheRead` is as much as the code keeps of "a live page is never
  demoted": it holds of what the save had loaded (section 6).

## 4. Bounds and fairness

Bounds are constants, named as such where they are declared: checkouts, units,
`MaxInFlight`, workers, `MaxDeaths`, `MaxClaims`, `MaxAttempts`, `MaxGeneration`,
files, rows, editors, `MaxRevision`, `MaxByHand`, `MaxItem`, `MaxEdits`, `MaxEvents`.

- Two workers are enough for every race named in section 1: each is between two
  requests, and a third would only repeat one of them. Checkout has three buyers
  for two units of one target and one of another, so that two carts fit, the
  third is refused, and a released unit is resold.
- Three claims let a claim be discarded or fail, a second be bought, and a third be
  claimed while answers for the first two are still out.
- Two attempts make the last attempt reachable by a lease that ran out as well as
  by a failure. `MAX_ATTEMPTS` is 5 in the code; theorems hold for every value.
- A charge of 3 cents refunded as 2 then 3, with records of 1 and 2, reaches every
  order between totals and their sum.
- Crashes in Refunds are counted (`MaxDeaths`) since a provider that repeats an
  event for ever needs a crash that stops; elsewhere they are unbounded.
- Two files let one replace another in a gallery, a body or the logo while the
  first is deleted. Three categories make the shortest chain in which two
  requests, each right by itself, close a cycle or leave an orphan below a parent.
- The eight documents of `shipping_quote` are chosen so that each rule of
  validation and of the scale decides something: flat and banded, open-ended and
  closed, a catch-all zone, pickup, two options, a destination Stripe refuses.
  Quantity 2 with weights 0 and 1 crosses each band's edge. Shoppers share nothing
  that a shopper writes, so one is enough; the administrator changes the store around
  that one.
- `structure` checks two modules in one run, in behaviours of the one or of the
  other: they share no state, so no behaviour of both says more.
- `checkout_live` has a buyer for each of three rails, and its constraint `TwoBuyers`
  lets either the Lightning or the OpenNode buyer come, beside Stripe's: what a payment
  waits for is its own rail, and a second buyer is enough to compete for the unit and to
  sweep the first one's hold. TLC warns of constraints under liveness because they may
  cut off a step that fairness asks for; this one cuts off only the start of a
  checkout, for which no fairness is assumed.
- Three edits let a copy be refilled between two writes and the purge of the first
  meet the second.

Fairness, in `LiveSpec` only:

- *Checkout*: a running request goes on or dies; time passes; the scheduled sweep
  runs (`src/worker.ts`); hosted sessions end at their provider, paid or expired, a
  processing payment clears or fails; a hosted provider repeats a webhook until it is
  answered (`recordWebhook.ts:34`, `middleware.ts:126`), so delivery of a paid event of
  Stripe or OpenNode is strongly fair, and so is a settlement that is retried again and
  again. The merchant leaves the rail configured, since the route of another answers 404.
  Nothing is asked of a buyer or of a Lightning node: its webhook is "only a nudge"
  (`lightning-provider.ts:102`), a store may have no public webhook at all
  (`settle.ts:94`), and no job polls the node. That it repeats the nudge is a condition
  of `PaidBecomesOrder`, for Lightning only.
- *Refunds*: requests go on; an unanswered event is delivered again (strong).
  Nothing is asked of administrators.
- *Outbox*: a pass goes on unless it dies; the sweep lists an unsettled row again
  and again, and not every pass dies before it claims (strong, per row). Nothing
  is asked of the provider.
- *Labels*, *Media*, *Categories*, *Navigation*, the shipping modules and *EdgeCache* have
  no liveness: every step waits for a person, nothing is retried, and the code
  schedules nothing for them. An edge copy would expire by its age, which the model
  lets happen and does not rely on.

`HoldEnds` speaks of holds which the store's clock may end, or whose provider session
exists and can be matched when it ends. Two crashes leave a hosted hold that no event
and no sweep releases, and no document promises otherwise: a stop between the
reservation and the session (`checkout.ts:369`), and with OpenNode a stop between
the charge and its pending row, since the expired event then finds no row and names no
reservation (`opennode.ts:84`); they are one hazard in the list. The second is in the
instance: `SessionHoldEnds`, which leaves out the condition, is refuted by it, as
`PaidInvoiceBecomesOrder` is by an invoice paid when its page is closed.

## 5. What is proved, and how

Every theorem is checked to its last leaf; none is assumed. The only assumptions
are the named ones on the constants: sets that a sentinel value is not in, bounds
that are naturals, functions with the right domains; that a finite number of
requests on one order run at a time (`Refunds`); and that what an administrator
may save is a document at all (`Catalog`). All theorems hold for any number of checkouts,
workers, events, claims, attempts, files, categories, menu items, editors, tabs,
shoppers, documents or visitors.

All safety invariants and action properties of the passing runs are proved. What is
only model-checked is liveness.

| module | theorems |
|---|---|
| `Checkout_proofs` | `TypeCorrect`, `InductiveInvariant`, `SettledExactlyWhenOrdered`, `PendingSettledOnlyWithOrder`, `PayableKeepsItsHold`, `PaidStaysSettleable`, `OrderStaysReachable`, `LossIsOnlyStaleRead`, `StockIsConserved`, `CheckoutImplementsLedger` |
| `Refunds_proofs` | `TypeCorrect`, `InductiveInvariant`, `ProviderTotalStaysTrue`, `StatusAlwaysFollows`, `ProcessedStaysCounted`, `HistoryAlwaysAddsUp`, `NothingIsMailedTwice`, `RefundsImplementLedger` |
| `Labels_proofs` | `TypeCorrect`, `InductiveInvariant`, `NeverChargedTwice`, `NoClaimIsLost`, `AuditStaysTrue`, `OneRouteAtATime`, `LabelledIsTold`, `LabelsImplementPurchase` |
| `Outbox_proofs` | `TypeCorrect`, `InductiveInvariant`, `FencingWorks`, `CopiesStayBounded`, `RetriedToTheEnd`, `LinkIsQueued` |
| `Media_proofs` | `TypeCorrect`, `ReferencesAreAlwaysBacked`, `EmbeddedIsAlwaysClaimed`, `PublicationIsAsRead` |
| `Storefront_proofs` | categories: `TypeCorrect`, `TreeAlwaysShowsAll`, `CycleNeedsARace`, `OrphanNeedsARace`, `ListingsFollowTheLinks`; menus: `MenuTypeCorrect`, `MenusKeepTheirOrder`; the edge: `EdgeTypeCorrect`, `StaleIsAlwaysExplained` |
| `Shipping_proofs` | settings: `TypeCorrect`, `NoEditIsLost`, `UnsellableIsARace`; quotes: `QuoteTypeCorrect`, `PickupIsNeverShipped`, `LabelsNameOneOption`, `NoBlockedSaleIsMissed`, `EveryoneElsePaysByTheScale`, `OnlyTheOwnerShipsFree` |

**Sums.** `SumFunctionOnSet` of the community modules is a fold, a function on the
subsets of a set that is defined by what remains when a chosen element is taken
away. The proofs need that a sum grows by what is added and does not depend on the
order. Where a textbook uses induction, `Sums` takes a smallest counterexample: a set
of finite sets that is not empty has a member with no other below it (`Smallest`),
and no fold can go wrong there first. `Minimal` is the same for a strict order,
which finds the first and last item of a menu and the tightest band of a scale.

**Checkout.** That a paid reservation stays settleable is not inductive: it needs
to know that a hold is released (status `released`) only by a request that undoes
itself, that such a request has no payable session, and that a session exists only
in some stages. `IInv` says per checkout how hold, access row and pending row
follow the stage, that the provider's state and events agree, and for what reason a
hold may have ended; and per settlement in flight that it was paid for and, if its
hold has ended since it read it, how. `StockConserved` is inductive once it is said that only finitely many checkouts
hold or have ordered: each step moves the cart of one checkout between the shelf,
the units held and the units sold, or takes at most what is left.

**Refunds.** The provider total is never ahead because each request carries a
cumulative amount that the provider has reached (`RequestIsTrue`), which charge only
increases; a request about to mark its event has already been counted. The history
adds up because each batch that moves a total adds one row of the difference under a
key that is new; and since voided rows are part of the recorded ones, no void
takes back more than stands (`VoidAdds`), so the code's floor at zero is never
needed. For the notices the invariant counts what is owed: the `delta` of every
request that has counted and not yet told (`Owed`). Each step changes the delta of
one request, a batch raises it by what it counts, and a notice moves it into `mailed`.
With these three the steps of `RefundLedger` follow action by action.

**Labels.** `OneCharge` follows from: a claim that may cost money is neither
unsent nor refused; `AuditIsTrue` then leaves it without outcome, or
bought, or force-discarded; without outcome it is the row's open claim
(`EveryClaimIsAccounted`), and bought it is the row's purchased claim
(`RowMatchesAudit`); the row names one claim. `JobIsTrue` says that what a request is
about to write is true of its claim. In particular only the request that made a
claim may still post it, so a claim that is about to be called failed before it was
posted is never posted.

The refinement to `LabelPurchase` needs the same facts in another order: a claim
that is open has no outcome, so settling it is the first word of the trail; the
request that settles it writes what is true of the money; and what may still be
posted is either open or force-discarded.

**Outbox.** Copies are bounded by a count: copies taken plus passes that have still
to send never exceed the attempts claimed (`CopiesArePaid`). Tokens are unique as
each is larger than any held for the row. A reissue is skipped only when an older
generation's (`ReissuesInOrder`), so the one in force never is.

**Media.** A reference stays backed because the row of a file is deleted only by the
statement that finds no gallery row, no claim and no logo of it, and because each
insertion is one statement with a test of what it refers to. The strengthening
says that an upload or a deletion under way has a key that no other request may
write (`UploadsApart`), and that what a body embeds has been uploaded and a save
that is about to commit has found what the library has of it (`EmbeddedIsKnown`).

**Categories.** The recursive queries are modelled by the sets they return, defined
by quantification over closed sets, so that no induction over the tree is needed:
what descends from a category is in every set that has it and is closed under
children, and a tree is acyclic if every non-empty set of categories has a member
whose parent is outside it. The invariant says that what a request that is still
fresh has read is still so (`FreshIsTrue`), and that nothing refers to an id
that has not been given out (`NothingAhead`): a new category has no children, so
it cannot close a cycle.

**Navigation.** Two menus share one table of items. The invariant says that
positions stay below the number of ids given out (so that the next position exists
and is a number), and that a request about to write, if it is still fresh, holds
either a numbering of the whole menu or an exchange of two neighbours
(`WriteKnows`). A new item then comes last, a whole numbering shows what was asked,
and an exchange of neighbours is the only thing a move does.

**EdgeCache.** Each fact that is stale in the copy (`CopyExplained`) or in the hands
of a visitor (`VisitExplained`) has one of the listed reasons. The lemma `TagsCover`
shows that each writer purges a tag of every document that shows what it wrote,
but for the four named edges.

**ShippingSettings.** What a tab shows is the stored revision or an older one (`ShownOrLater`), so a
write under the shown revision overwrites only what the tab showed. For the other
theorem a check that is still fresh holds of the present store (`CheckHolds`,
`CountHolds`).

**ShippingQuote.** `QuoteInv` says that only validated documents are stored, that carts
are finite, and what each visit knows: the basket it priced, the quote it was shown
and what it was told. What is asked for shipping is followed from the
calculator to the reference definition in three lemmas: a band that is found is the
tightest that carries the weight (`BandIsTightest`), a scale yields what is due
(`ScaleIs`), and a quote offers exactly that (`QuoteIs`). Weights are sums over the
lines of a basket. That a label names one option uses that validation has
counted the labels of a zone.

*Model-checked only*: `PaidBecomesOrder`, `HoldEnds`, `RefundIsCounted`,
`OverRefundIsReviewed` and `QueuedIsSettled`. Each is a liveness property under fairness,
which needs `ENABLED`, and that is out of the prover's reach.

## 6. What the code does that its documents deny

One disagreement is a run that TLC refutes; PROJECT.json quotes the document.

- `membership`: an event without an address stores a placeholder over the customer's
  address (`membership/db.ts:119-124`: the COALESCE never sees NULL, since a placeholder is
  bound), and a session's or an invoice's event stores `incomplete` over an
  active subscription. Once all events of a paid subscription are applied its
  customer may not be eligible, though `migrations/0043_membership_state.sql:2-3` calls
  the table "the application read model used for eligibility and pricing".
  The property excludes crashes; with them there is one more way, since
  the event's own row is written first and makes the retry a duplicate.

The others are defined in their modules, with the sentence they come from, and
are refuted when put into the cfg of the run named here (the temporal ones as PROPERTIES):

| property | cfg | what happens |
|---|---|---|
| `LateSaleIsAccounted` | `checkout_safety` | `recordPaidOrder` decides from a status its caller read earlier whether units must still be taken; if the sweep expires the hold in between, no stock is taken and no exception recorded (`orders/db.ts:562`; promised at `orders/db.ts:604`) |
| `MemberSnapshotKept` | `checkout_safety` | `getReservation` does not select the membership snapshot, so no order carries it (`reservations.ts:101`) |
| `EntitlementKept` | `checkout_safety` | an order settled by the pay page has lines rebuilt from the pending payment, without file keys or item ids (`settle.ts:80`) |
| `DismissedIsTerminal` | `refunds_safety` | a retry under way while an administrator dismisses the event puts it back in the queue (`sync.ts:66`; `migrations/0025_refunds.sql:139-140`) |
| `AdvanceIsMailed` | `refunds_safety` | an event that advances the total beyond the order ends as a review and never mails (`sync.ts:181`; `notify.ts:16-17`) |
| `FulfilsWhatItRecords` | `labels_safety` | a second `recordPurchased`, which records nothing, fulfils again an order the merchant unfulfilled (`labelStore.ts:234`) |
| `ThumbnailIsBacked` | `media` | a product's thumbnail key may outlive its file; `media/db.ts` promises "Neither order can produce a dangling reference." |
| `OnePrice` | `shipping_quote` | the card form weighs a variant as its product (`checkout.ts:160-195`, 242 drop the variant), so its session may offer other amounts than the other ways to buy, which `lines.ts:1-4` excludes |
| `BypassedIsFree` | `shipping_quote` | the in-app page prices whatever basket it has read again, without asking whether shipping still applies to it (`checkout.astro`), though `calculator.ts` has every caller bypass it |
| `ProvidersAreNotShown` | `edge` | a shared page keeps the account link or the Buy now from before a save of e-mail or payment credentials, which purges nothing (`settings.astro:313-327`, `Layout.astro:52-56`, `productDetail.ts:156-157`), though `settings.astro:308-309` says "Provider credentials and other operational settings are not represented in cached storefront HTML" |
| `AnsweredSaveIsShown` | `edge` | a copy that a visitor filled before the write may be served after the save has been answered (`cache/purge.ts:28-32`) |
| `MoveIsSeen` | `structure` | two overlapping moves leave a tie, and later moves are silent no-ops (`navigation/db.ts`, its comment on one batch) |

Met on the way, without a property: a live page may be demoted by two authors
(`pages/save.ts:48-49` says never), and a file may be shown as used by gallery rows
of a product that is gone (`usage.ts:3`).

## 7. What is not modelled, and why

- *Reviews*: a token, a submission and a moderation are single guarded statements. What
  lies between them is left to a person: a failed mail is not sent again, and a Worker
  that stops leaves a token unredeemed. That moderation purges no copy is in `EdgeCache`.
- *Prices, extras, discounts and member pricing*: arithmetic on data that no
  protocol touches. Absolute stock edits (`products/db.ts:412`) do overwrite holds,
  and `setPaymentMethodDisabled` (`settings/db.ts:255`) reads and writes one list in
  two statements: one hazard names both, with the reason.
- *The choice of a home page, slugs and link resolution*: lookups.
- *Search* and image processing: best effort around external services, with no
  promise the repository states.
- *Public ids*: random, with a retry on the unique index.
- *Authentication*: stateless checks. Signatures, request parsing, currency
  conversion and rate limits hold no state the properties speak of.
- *Themes, admin pages, MCP server, installer*: rendering, a client, a script.

Message contents, addresses, parcels and amounts beyond what the properties tell
apart are data.

## 8. What could come next

1. `Fulfilment`, composing `Labels` and `Outbox` over the shared order row: what the
   shipped mail says against the label that was bought.
2. Abstract specifications of the outbox (one mail, so many copies at most, an end)
   and of the library (a file and what refers to it), with refinements proved.
3. `ShippingQuote` over a store that changes between the rows of one request.
4. `Reviews`, with the mail that asks for one, over `Outbox`.
5. Theorems about `Membership` without the two kinds of event that break it.

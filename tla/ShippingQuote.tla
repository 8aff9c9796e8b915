---------------------------- MODULE ShippingQuote ----------------------------
(***************************************************************************)
(* What shoppers are asked for shipping, on each way to buy.               *)
(*                                                                         *)
(* A basket is priced by the card form and the JSON API in one request; on *)
(* the in-app page in two, and the store may change in between.  A request *)
(* reads the store at one moment here: that the rows it reads one by one   *)
(* may change meanwhile is left out.  Holds and payments are Checkout's;   *)
(* what an order keeps of the option that was chosen, and whether a label  *)
(* may be asked for it, are here.                                          *)
(***************************************************************************)
EXTENDS Catalog

CONSTANTS Shoppers, \* bound: shoppers at a time
          MaxQty    \* CART_QTY_MAX

ASSUME QuoteAssumption == MaxQty \in Nat \ {0}

VARIABLES
    stored,  \* what settings.shipping_config parses to
    cart,    \* cart[s]: the cookie of shopper s, quantities by line key
    visit    \* visit[s]: where shopper s has got to

quoteVars == <<stored, catalog, cart, visit>>

-----------------------------------------------------------------------------
(* Vocabulary *)

NoDocument == [kind |-> "absent", doc |-> Closed]
Corrupt == [kind |-> "invalid", doc |-> Closed]
Saved(doc) == [kind |-> "valid", doc |-> doc]

\* The key of a cart's line: a product and, or None, a variant.  Extras, which
\* tell lines apart too, are left out.
Keys == Products \X (Variants \cup {None})
NoCart == [k \in {} |-> 0]

Line(p, v, q) == [product |-> p, variant |-> v, carried |-> v, qty |-> q]

Idle == [at |-> "idle"]
Config == Effective(stored)

QuoteInit ==
    /\ stored = NoDocument
    /\ catalog \in Catalogs
    /\ \A p \in Products : catalog.item[p].active
    /\ cart = [s \in Shoppers |-> NoCart]
    /\ visit = [s \in Shoppers |-> Idle]

-----------------------------------------------------------------------------
(* Administrators *)

\* Validation is the same for a save and for a row that is read.
SaveDocument(doc) ==
    /\ ValidateShippingDocument(doc)
    /\ stored' = Saved(doc)
    /\ UNCHANGED <<catalog, cart, visit>>

\* The row is edited by hand, or written by a later version of the program.
SpoilDocument ==
    /\ stored.kind = "valid"
    /\ stored' = Corrupt
    /\ UNCHANGED <<catalog, cart, visit>>

EditProduct(p) ==
    \E item \in Items :
        /\ catalog' = [catalog EXCEPT !.item[p] = item]
        /\ UNCHANGED <<stored, cart, visit>>

EditVariant(v) ==
    \E weight \in Weights \cup {None, Gone} :
        /\ catalog' = [catalog EXCEPT !.option[v] = weight]
        /\ UNCHANGED <<stored, cart, visit>>

-----------------------------------------------------------------------------
(* Carts *)

Keep(s, lines) ==
    /\ cart' = [cart EXCEPT ![s] = lines]
    /\ UNCHANGED <<stored, catalog, visit>>

\* A product that has variants is added with one of them.
Addable ==
    {k \in Keys :
        /\ catalog.item[k[1]].active
        /\ IF Choosable(catalog, k[1]) = {} THEN k[2] = None
                                            ELSE k[2] \in Choosable(catalog, k[1])}

Quantity(s, key) == IF key \in DOMAIN cart[s] THEN cart[s][key] ELSE 0

\* The cookie's lines, with key at a quantity of at most MaxQty.
WithLine(s, key, qty) ==
    [k \in DOMAIN cart[s] \cup {key} |->
        IF k # key THEN cart[s][k] ELSE IF qty <= MaxQty THEN qty ELSE MaxQty]

AddToCart(s) ==
    \E key \in Addable : Keep(s, WithLine(s, key, Quantity(s, key) + 1))

\* A page that shows a line may be older than the cart, or than the catalog: no
\* line need be there for its quantity to be set.
UpdateLine(s) ==
    \E key \in Keys, qty \in 1 .. MaxQty + 1 : Keep(s, WithLine(s, key, qty))

RemoveLine(s) ==
    \E key \in Keys : Keep(s, Restrict(cart[s], DOMAIN cart[s] \ {key}))

\* The page of an order, of this visit or an earlier one, empties the cart.
ClearCart(s) == Keep(s, NoCart)

-----------------------------------------------------------------------------
(* Baskets *)

\* A cart keeps what is for sale; a line that names no variant stays, though
\* the product may have some by now.
ResolveCart(s) ==
    {Line(k[1], k[2], cart[s][k]) : k \in
        {k \in DOMAIN cart[s] :
            /\ catalog.item[k[1]].active
            /\ k[2] = None \/ (catalog.option[k[2]] # Gone /\ VariantOf[k[2]] = k[1])}}

\* One product to buy now, with a variant where it has any.
BuyNow == {{Line(k[1], k[2], 1)} : k \in Addable}

\* Everything that s may buy in one go, as the catalog is.
Resolved(s) == (BuyNow \cup {ResolveCart(s)}) \ {{}}

\* The JSON API demands a variant of every line.
Demanded(s) ==
    {lines \in Resolved(s) : \A l \in lines :
        l.variant = None => Choosable(catalog, l.product) = {}}

\* The card form keeps the id of the variant, and its record no longer.
Drafted(lines) == {[l EXCEPT !.carried = None] : l \in lines}

Applies(lines) == Config.enabled /\ ShippingRequired(catalog, lines)

Quote(lines, country) ==
    QuoteShipping(Config, Subtotal(lines), country, ItemWeight(catalog, lines))

OptionsOf(quote) == {quote.options[i] : i \in DOMAIN quote.options}

-----------------------------------------------------------------------------
(* Ways to buy *)

\* What a shopper is asked to pay for shipping: one of the options, or, if
\* there are none, nothing.  delivery is what the pending payment keeps.
Deal(path, lines, country, options) ==
    [at |-> "deal", path |-> path, lines |-> lines, country |-> country,
     options |-> options, delivery |-> None]

\* How the option is delivered, as it is written down: its label is prose.
Stamp(option) == IF option.pickup THEN "pickup" ELSE "shipping"

\* The rails that are not Stripe's get the one option with the address.
HandOver(s, path, lines, country, option) ==
    visit' = [visit EXCEPT
        ![s] = [Deal(path, lines, country, {option}) EXCEPT !.delivery = Stamp(option)]]

\* Nothing is shipped, so nothing is asked for it.
OrderUnshipped(s) ==
    \E lines \in Resolved(s) :
        /\ visit[s] = Idle
        /\ ~Applies(lines)
        /\ visit' = [visit EXCEPT ![s] = Deal("unshipped", lines, None, {})]
        /\ UNCHANGED <<stored, catalog, cart>>

\* The country that was chosen, or else one that the card page supports.
Destinations ==
    Countries \cup {c \in (IF HasCatchAll(Config) THEN Countries
                                                  ELSE AllowedCountries(Config)) :
                       c \notin Unsupported}

\* A hosted session takes the options of one country and no other address.
OpenSession(s, path, lines, priced) ==
    \E country \in Destinations :
        LET quote == Quote(priced, country) IN
        /\ visit[s] = Idle
        /\ Applies(lines)
        /\ DOMAIN quote.options # {}
        /\ SessionDestination(Config, country)
        /\ visit' = [visit EXCEPT ![s] = Deal(path, lines, country, OptionsOf(quote))]
        /\ UNCHANGED <<stored, catalog, cart>>

PayByCard(s) == \E lines \in Resolved(s) : OpenSession(s, "card", lines, Drafted(lines))

PayByCardViaApi(s) == \E lines \in Demanded(s) : OpenSession(s, "api", lines, lines)

\* The other rails take an address with the request, and one option: the one
\* that is named, or the first.
ShipTo(s) ==
    \E lines \in Demanded(s), country \in Countries :
        LET quote == Quote(lines, country) IN
        /\ visit[s] = Idle
        /\ Applies(lines)
        /\ \E i \in DOMAIN quote.options :
            HandOver(s, "json", lines, country, quote.options[i])
        /\ UNCHANGED <<stored, catalog, cart>>

\* The form sends them to the page that asks for the address.
GoToCheckout(s) ==
    /\ visit[s] = Idle
    /\ \E lines \in Resolved(s) :
        /\ Applies(lines)
        /\ \E now \in {n \in BOOLEAN : n => lines \in BuyNow} :
            visit' = [visit EXCEPT ![s] = [at |-> "address", now |-> now, lines |-> lines]]
    /\ UNCHANGED <<stored, catalog, cart>>

\* The page resolves the basket at each step.  One product keeps its choice,
\* or forgets it if it is gone; a cart is what the cookie holds by then.
Forgotten(lines) ==
    {IF l.variant # None /\ catalog.option[l.variant] = Gone
     THEN Line(l.product, None, l.qty)
     ELSE l : l \in {l \in lines : catalog.item[l.product].active}}

Reread(s) ==
    {IF visit[s].now THEN Forgotten(visit[s].lines) ELSE ResolveCart(s)} \ {{}}

\* With an address, it shows the options there are.
ShowOptions(s) ==
    /\ visit[s].at = "address"
    /\ \E lines \in Reread(s), country \in Countries :
        LET quote == Quote(lines, country) IN
        /\ DOMAIN quote.options # {}
        /\ visit' = [visit EXCEPT
              ![s] = [at |-> "choice", now |-> visit[s].now, lines |-> lines,
                      country |-> country,
                      labels |-> {o.label : o \in OptionsOf(quote)}]]
    /\ UNCHANGED <<stored, catalog, cart>>

\* The label that was chosen is looked for among the options of the moment.
ChooseOption(s) ==
    /\ visit[s].at = "choice"
    /\ \E lines \in Reread(s), label \in visit[s].labels :
        LET quote == Quote(lines, visit[s].country)
            matches == {i \in DOMAIN quote.options : quote.options[i].label = label}
        IN  /\ matches # {}
            /\ HandOver(s, "in_app", lines, visit[s].country,
                        quote.options[First(matches)])
    /\ UNCHANGED <<stored, catalog, cart>>

\* The demo rail types an address and takes the first option by itself.
OrderDemo(s) ==
    /\ visit[s].at = "address"
    /\ \E lines \in Reread(s), country \in Countries :
        LET quote == Quote(lines, country) IN
        /\ DOMAIN quote.options # {}
        /\ HandOver(s, "in_app", lines, country,
                    quote.options[First(DOMAIN quote.options)])
    /\ UNCHANGED <<stored, catalog, cart>>

-----------------------------------------------------------------------------
(* Orders *)

\* A slip: a rate that cannot be read is taken for a delivery.
ClassifyRateDeliveryOr(stamp) == IF stamp = "pickup" THEN "pickup" ELSE "shipping"

ClassifyRateDelivery(stamp) ==
    IF stamp \in {"pickup", "shipping"} THEN stamp ELSE "unknown"

\* choice: the option that was paid for, or None; delivery: what is recorded.
Order(s, choice, delivery) ==
    [at |-> "order", path |-> visit[s].path, country |-> visit[s].country,
     choice |-> choice, delivery |-> delivery]

\* The buyer chose on Stripe's page.  What the option is comes back with the
\* rate, which may fail to load or, made before rates were stamped, say nothing.
SettleHosted(s) ==
    /\ visit[s].at = "deal" /\ visit[s].path \in {"card", "api"}
    /\ \E option \in visit[s].options : \E stamp \in {Stamp(option), None} :
        visit' = [visit EXCEPT
                    ![s] = Order(s, Stamp(option), ClassifyRateDelivery(stamp))]
    /\ UNCHANGED <<stored, catalog, cart>>

\* The other rails settle from the pending payment; with nothing to ship, it has
\* no address, and neither has a hosted session.
SettlePending(s) ==
    /\ visit[s].at = "deal" /\ visit[s].path \in {"json", "in_app", "unshipped"}
    /\ LET choices == {Stamp(option) : option \in visit[s].options} IN
       \E choice \in IF choices = {} THEN {None} ELSE choices :
        visit' = [visit EXCEPT ![s] = Order(s, choice, visit[s].delivery)]
    /\ UNCHANGED <<stored, catalog, cart>>

\* Admin asks for label rates, from an address in the same country; the quote is
\* recorded if the order is one to deliver.  What follows is Labels'.
FetchLabelRates(s) ==
    /\ visit[s].at = "order"
    /\ visit[s].country # None
    /\ visit[s].delivery = "shipping"
    /\ visit' = [visit EXCEPT ![s] = [at |-> "rated", choice |-> visit[s].choice]]
    /\ UNCHANGED <<stored, catalog, cart>>

\* The shopper goes, at once where there is nothing to choose from.
Leave(s) ==
    /\ visit[s] # Idle
    /\ visit' = [visit EXCEPT ![s] = Idle]
    /\ UNCHANGED <<stored, catalog, cart>>

-----------------------------------------------------------------------------

Shop(s) ==
    \/ AddToCart(s) \/ UpdateLine(s) \/ RemoveLine(s) \/ ClearCart(s)
    \/ OrderUnshipped(s) \/ PayByCard(s) \/ PayByCardViaApi(s) \/ ShipTo(s)
    \/ GoToCheckout(s) \/ ShowOptions(s) \/ ChooseOption(s) \/ OrderDemo(s)
    \/ SettleHosted(s) \/ SettlePending(s) \/ FetchLabelRates(s)
    \/ Leave(s)

QuoteNext ==
    \/ \E doc \in Drafts : SaveDocument(doc)
    \/ SpoilDocument
    \/ \E p \in Products : EditProduct(p)
    \/ \E v \in Variants : EditVariant(v)
    \/ \E s \in Shoppers : Shop(s)

QuoteSpec == QuoteInit /\ [][QuoteNext]_quoteVars

-----------------------------------------------------------------------------

QuoteTypeOK ==
    /\ stored \in {NoDocument, Corrupt} \cup {Saved(doc) : doc \in Drafts}
    /\ catalog \in Catalogs
    /\ \A s \in Shoppers : cart[s] \in UNION {[K -> 1 .. MaxQty] : K \in SUBSET Keys}
    /\ \A s \in Shoppers : visit[s].at \in {"idle", "address", "choice", "deal", "order", "rated"}

\* The reference: what the shipment weighs by the scale, variant by variant,
\* and the tightest band that holds it.
Scale(lines) ==
    LET shipped == Shipped(catalog, lines)
        onTheScale == [l \in shipped |->
            l.qty * (IF l.variant # None /\ catalog.option[l.variant] # None
                     THEN catalog.option[l.variant] ELSE catalog.item[l.product].weight)]
    IN  Config.package + SumFunctionOnSet(onTheScale, shipped)

Weighed(lines) ==
    \A l \in Shipped(catalog, lines) :
        \/ catalog.item[l.product].weight # None
        \/ l.variant # None /\ catalog.option[l.variant] # None

Serves(zone, country) ==
    \/ country \in zone.countries
    \/ /\ RestOfWorld \in zone.countries
       /\ country \notin AllowedCountries(Config)

Holds(band, weight) == band.upTo = None \/ weight <= band.upTo
Tightest(band, bands, weight) ==
    /\ Holds(band, weight)
    /\ \A i \in DOMAIN bands :
        Holds(bands[i], weight) =>
            bands[i].upTo = None \/ (band.upTo # None /\ band.upTo <= bands[i].upTo)

IsDue(option, lines, country) ==
    \E z \in DOMAIN Config.zones :
        /\ Serves(Config.zones[z], country)
        /\ \/ /\ option = FreeOption
              /\ Config.zones[z].free # None
              /\ Subtotal(lines) >= Config.zones[z].free
           \/ \E k \in DOMAIN Config.zones[z].rates :
                LET rate == Config.zones[z].rates[k] IN
                /\ option.label = rate.label
                /\ IF rate.mode # "weight"
                   THEN option.amount = rate.amount
                   ELSE /\ Weighed(lines)
                        /\ \E i \in DOMAIN rate.bands :
                            /\ Tightest(rate.bands[i], rate.bands, Scale(lines))
                            /\ option.amount = rate.bands[i].amount

Dealt(s, paths) ==
    /\ visit[s].at # "deal"
    /\ visit'[s].at = "deal"
    /\ visit'[s].path \in paths

\* Through the API and on the in-app page a shipment is never asked less or
\* more than its zone's rate for its weight: every variant counts by its own
\* weight, one of zero too, and a weight that is not known by none.
QuotesFollowTheScale ==
    [][\A s \in Shoppers : Dealt(s, {"api", "json", "in_app"}) =>
        \A o \in visit'[s].options : IsDue(o, visit'[s].lines, visit'[s].country)]_quoteVars

\* A shipment for which nothing is asked left a store whose owner has switched
\* shipping off: a document that is corrupt stops sales, and does not ship free.
UnshippedByChoice ==
    [][\A s \in Shoppers :
        (Dealt(s, {"unshipped"}) /\ ShippingRequired(catalog, visit'[s].lines)) =>
            CASE stored.kind = "valid" -> ~stored.doc.enabled
              [] stored.kind = "absent" ->
                    IF LegacyEnabled = None THEN ~BuildTime.enabled ELSE ~LegacyEnabled
              [] OTHER -> FALSE]_quoteVars

\* No label is bought for a parcel that its buyer collects, or for no parcel at
\* all, whatever becomes of the rate between the quote and the order; and where
\* no rate has to be read back, no order to deliver is kept from a label.
PickupIsNeverLabelled ==
    \A s \in Shoppers :
        /\ visit[s].at = "rated" => visit[s].choice = "shipping"
        /\ (visit[s].at = "order" /\ visit[s].path \in {"json", "in_app"}) =>
              visit[s].delivery = visit[s].choice

\* The chosen option is known by its label alone, and the card page takes only
\* so many: whatever may be saved, no basket is offered more, or one label twice.
ChoiceIsUnambiguous ==
    \A s \in Shoppers : \A lines \in Resolved(s), country \in Countries :
        LET options == Quote(lines, country).options IN
        /\ Cardinality(DOMAIN options) <= MaxOptions
        /\ \A i, j \in DOMAIN options : options[i].label = options[j].label => i = j

\* Admin's count of products without a weight misses none: a basket that is
\* turned away for want of a weight holds one of them, and Admin was told that
\* the zones need one.
BlockedSaleIsCounted ==
    \A s \in Shoppers : \A lines \in Demanded(s), country \in Countries :
        LET quote == Quote(lines, country) IN
        (Applies(lines) /\ DOMAIN quote.options = {} /\ quote.unweighed) =>
            /\ ZonesRequireWeight(Config)
            /\ \E l \in lines : l.product \in MissingWeight(catalog)

\* "Every purchase path (cart, Buy now, the in-app address flow, JSON) goes
\* through this so they cannot drift apart and quote different prices for the
\* same basket" (lines.ts): a card session offers what the others would.
OnePrice ==
    [][\A s \in Shoppers : Dealt(s, {"card"}) =>
        visit'[s].options = OptionsOf(Quote(visit'[s].lines, visit'[s].country))]_quoteVars

\* "An all-digital cart or a shipping-disabled store bypasses shipping entirely"
\* (calculator.ts, of every caller of quoteShipping).
BypassedIsFree ==
    [][\A s \in Shoppers : Dealt(s, {"card", "api", "json", "in_app"}) =>
        Applies(visit'[s].lines)]_quoteVars
=============================================================================

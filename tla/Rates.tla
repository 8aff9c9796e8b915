-------------------------------- MODULE Rates --------------------------------
(***************************************************************************)
(* What a shipment costs: the shipping documents a store may have, the     *)
(* weight of a basket, and the options a destination is offered for it.    *)
(* These are the pure functions of features/shipping.                      *)
(*                                                                         *)
(* Amounts and weights are small numbers.  A label stands for its spelling *)
(* up to case, as validation compares it.  The names of zones, which must  *)
(* differ too and are shown and nothing else, and the limits on lengths    *)
(* and bytes are left out.                                                 *)
(***************************************************************************)
EXTENDS Integers, Sequences, FiniteSets, Functions

CONSTANTS Countries,      \* ISO codes
          RestOfWorld,    \* '*', the code of a catch-all zone
          Unsupported,    \* STRIPE_UNSUPPORTED
          FreeShipping,   \* FREE_SHIPPING_LABEL
          MaxOptions,     \* SHIPPING_LIMITS.resolvedOptionsPerZone
          BuildTime,      \* the document in store.config.ts
          LegacyEnabled,  \* settings.shipping_enabled
          None            \* null

\* What a document may say before any rule is applied to it.  An upTo of None is
\* unlimited; a free of None offers nothing for free.
Bands == [upTo : Int \cup {None}, amount : Int]
RateTypes == [label : STRING, mode : {"flat", "pickup", "weight"},
              amount : Int, bands : Seq(Bands)]
Zones == [countries : SUBSET (Countries \cup {RestOfWorld}),
          rates : Seq(RateTypes), free : Int \cup {None}]
Documents == [enabled : BOOLEAN, package : Int, zones : Seq(Zones)]

ASSUME RatesAssumption ==
    /\ RestOfWorld \notin Countries
    /\ None \notin Countries \cup Int \cup {"pickup", "shipping"}
    /\ BuildTime \in Documents
    /\ Unsupported \subseteq Countries
    /\ MaxOptions \in Nat \ {0}
    /\ LegacyEnabled \in BOOLEAN \cup {None}

\* The first index of a sequence with a property, of those in S.
First(S) == CHOOSE i \in S : \A j \in S : i <= j

-----------------------------------------------------------------------------
(* Documents *)

ValidBands(bands) ==
    /\ bands # <<>>
    /\ \A i \in DOMAIN bands :
        /\ bands[i].amount \in Nat
        /\ IF bands[i].upTo = None
           THEN i = Len(bands)
           ELSE /\ bands[i].upTo > 0
                /\ \A j \in 1..(i - 1) :
                      bands[j].upTo # None => bands[j].upTo < bands[i].upTo

ValidRate(rate) ==
    \/ rate.mode \in {"flat", "pickup"} /\ rate.amount \in Nat
    \/ rate.mode = "weight" /\ ValidBands(rate.bands)

\* A slip: a rate may have the label of the free option.
ValidLabelsUnreserved(zone) ==
    \A i, j \in DOMAIN zone.rates :
        i # j => zone.rates[i].label # zone.rates[j].label

\* The free option is one of the options, and has a label of its own.
ValidLabels(zone) ==
    \A i \in DOMAIN zone.rates :
        /\ zone.free # None => zone.rates[i].label # FreeShipping
        /\ \A j \in DOMAIN zone.rates :
              i # j => zone.rates[i].label # zone.rates[j].label

\* Only store.config.ts may have a zone that offers nothing but free shipping.
ValidZone(zone, thresholdOnly) ==
    /\ zone.countries # {}
    /\ RestOfWorld \in zone.countries => zone.countries = {RestOfWorld}
    /\ zone.rates # <<>> \/ (thresholdOnly /\ zone.free # None)
    /\ zone.free # None => zone.free > 0
    /\ Len(zone.rates) + (IF zone.free # None THEN 1 ELSE 0) <= MaxOptions
    /\ ValidLabels(zone)
    /\ \A i \in DOMAIN zone.rates : ValidRate(zone.rates[i])

\* A country is in one zone, and the rest of the world is the last zone.
ValidDocument(doc, thresholdOnly) ==
    /\ doc.enabled => doc.zones # <<>>
    /\ \A i \in DOMAIN doc.zones :
        /\ ValidZone(doc.zones[i], thresholdOnly)
        /\ RestOfWorld \in doc.zones[i].countries => i = Len(doc.zones)
        /\ \A j \in DOMAIN doc.zones :
              i # j => doc.zones[i].countries \cap doc.zones[j].countries = {}

ValidateShippingDocument(doc) == ValidDocument(doc, FALSE)

ValidBuildTime ==
    \/ ~BuildTime.enabled /\ BuildTime.zones = <<>>
    \/ ValidDocument(BuildTime, TRUE)

-----------------------------------------------------------------------------
(* The configuration in effect *)

Closed == [enabled |-> TRUE, package |-> 0, zones |-> <<>>]

\* A slip: a document that cannot be read switches shipping off.
EffectiveOff(stored) ==
    IF stored.kind = "valid" THEN stored.doc ELSE [Closed EXCEPT !.enabled = FALSE]

\* stored: [kind, doc], what parsing the row of settings comes to.
Effective(stored) ==
    CASE stored.kind = "valid" -> stored.doc
      [] stored.kind = "invalid" -> Closed
      [] stored.kind = "absent" ->
            IF ~ValidBuildTime THEN Closed
            ELSE IF LegacyEnabled = None THEN BuildTime
            ELSE [BuildTime EXCEPT !.enabled = LegacyEnabled]

\* Some zone prices by weight alone: without a weight nothing is sold there.
ZonesRequireWeight(config) ==
    /\ config.enabled
    /\ \E i \in DOMAIN config.zones :
        /\ config.zones[i].rates # <<>>
        /\ \A k \in DOMAIN config.zones[i].rates :
              config.zones[i].rates[k].mode = "weight"

AllowedCountries(config) ==
    UNION {config.zones[i].countries : i \in DOMAIN config.zones} \ {RestOfWorld}

HasCatchAll(config) ==
    \E i \in DOMAIN config.zones : RestOfWorld \in config.zones[i].countries

\* Where a hosted session may collect an address, if priced for this country.
SessionDestination(config, country) ==
    /\ country \in Countries \ Unsupported
    /\ HasCatchAll(config) \/ country \in AllowedCountries(config)

-----------------------------------------------------------------------------
(* Quotes *)

\* The index of the zone that prices a country, or 0.
ZoneFor(country, zones) ==
    LET Listing(code) == {i \in DOMAIN zones : code \in zones[i].countries}
    IN  IF Listing(country) # {} THEN First(Listing(country))
        ELSE IF Listing(RestOfWorld) # {} THEN First(Listing(RestOfWorld))
        ELSE 0

\* The index of the band a shipment falls in, or 0.
BandFor(weight, bands) ==
    LET fits == {i \in DOMAIN bands : bands[i].upTo = None \/ weight <= bands[i].upTo}
    IN  IF fits = {} THEN 0 ELSE First(fits)

Omitted(rate, weight) ==
    rate.mode = "weight" /\ (weight = None \/ BandFor(weight, rate.bands) = 0)

OptionOf(rate, weight) ==
    [label |-> rate.label,
     amount |-> IF rate.mode = "weight"
                THEN rate.bands[BandFor(weight, rate.bands)].amount
                ELSE rate.amount,
     pickup |-> rate.mode = "pickup"]

FreeOption == [label |-> FreeShipping, amount |-> 0, pickup |-> FALSE]
NoQuote == [options |-> [k \in {} |-> FreeOption], unweighed |-> FALSE]

\* What a destination is offered: an option has the place of its rate in the zone,
\* and the free one comes before all, at 0.  unweighed: a rate was left out for
\* want of a weight.  itemWeight is None where it is not known.
QuoteShipping(config, subtotal, country, itemWeight) ==
    LET z == ZoneFor(country, config.zones)
        weight == IF itemWeight = None THEN None ELSE config.package + itemWeight
        rates == config.zones[z].rates
        offered == {i \in DOMAIN rates : ~Omitted(rates[i], weight)}
        delivers == \E i \in offered : rates[i].mode # "pickup"
        free == /\ config.zones[z].free # None
                /\ subtotal >= config.zones[z].free
                /\ rates = <<>> \/ delivers
    IN  IF z = 0 THEN NoQuote
        ELSE [options |-> [i \in offered \cup (IF free THEN {0} ELSE {}) |->
                             IF i = 0 THEN FreeOption ELSE OptionOf(rates[i], weight)],
              unweighed |-> \E i \in DOMAIN rates :
                               rates[i].mode = "weight" /\ weight = None]

-----------------------------------------------------------------------------
(* Weights *)

\* line: [product, variant, carried, qty]; carried is the variant if the path
\* hands on its record, not its id alone.  catalog: [item, option]: item[p] is
\* [active, ships, weight], option[v] the weight of a variant, or Gone.
CONSTANTS Products, Variants,
          VariantOf, \* the product of a variant
          Price,     \* of a product, whichever its variant
          Gone       \* a variant that is not there

ASSUME CatalogAssumption ==
    /\ VariantOf \in [Variants -> Products]
    /\ Price \in [Products -> Nat]
    /\ None \notin Products \cup Variants

Choosable(catalog, p) == {v \in Variants : VariantOf[v] = p /\ catalog.option[v] # Gone}

\* A slip: a variant's weight of 0 is taken for none.
UnitWeightOr(catalog, line) ==
    IF line.carried # None /\ catalog.option[line.carried] \notin {None, Gone, 0}
    THEN catalog.option[line.carried]
    ELSE catalog.item[line.product].weight

\* The variant's own weight wins, one of 0 included.
UnitWeight(catalog, line) ==
    IF line.carried # None /\ catalog.option[line.carried] \notin {None, Gone}
    THEN catalog.option[line.carried]
    ELSE catalog.item[line.product].weight

Shipped(catalog, lines) == {l \in lines : catalog.item[l.product].ships}
ShippingRequired(catalog, lines) == Shipped(catalog, lines) # {}

\* One weight that is not known makes that of the shipment unknown.  (So would
\* a sum beyond 2^53, which weights of at most 1000 kg do not come near.)
ItemWeight(catalog, lines) ==
    LET shipped == Shipped(catalog, lines)
        weights == [l \in shipped |-> UnitWeight(catalog, l) * l.qty]
    IN  IF \E l \in shipped : UnitWeight(catalog, l) = None THEN None
        ELSE SumFunctionOnSet(weights, shipped)

LineTotal(l) == Price[l.product] * l.qty
Subtotal(lines) == SumFunctionOnSet([l \in lines |-> LineTotal(l)], lines)

\* A slip: products are counted by their own weight, whatever their variants.
MissingWeightOfProducts(catalog) ==
    {p \in Products : /\ catalog.item[p].active /\ catalog.item[p].ships
                      /\ Choosable(catalog, p) = {}
                      /\ catalog.item[p].weight = None}

\* What Admin counts before it lets a zone price by weight alone.
MissingWeight(catalog) ==
    {p \in Products :
        /\ catalog.item[p].active /\ catalog.item[p].ships
        /\ \/ Choosable(catalog, p) = {} /\ catalog.item[p].weight = None
           \/ \E v \in Choosable(catalog, p) :
                 catalog.option[v] = None /\ catalog.item[p].weight = None}
=============================================================================

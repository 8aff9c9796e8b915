-------------------------- MODULE MCShippingQuote --------------------------
(***************************************************************************)
(* A small instance of ShippingQuote: one product with one variant, three  *)
(* countries, and documents that each break or use one rule.               *)
(***************************************************************************)
EXTENDS ShippingQuote, TLC

CONSTANTS ca, cu, us, \* countries; cu is one the card page does not support
          tee, large  \* a product and its variant

Flat(label, amount) == [label |-> label, mode |-> "flat", amount |-> amount, bands |-> <<>>]
Pickup(label) == [label |-> label, mode |-> "pickup", amount |-> 0, bands |-> <<>>]
ByWeight(label, bands) == [label |-> label, mode |-> "weight", amount |-> 0, bands |-> bands]
UpTo(grams, amount) == [upTo |-> grams, amount |-> amount]
Zone(countries, rates, free) == [countries |-> countries, rates |-> rates, free |-> free]
Document(package, zones) == [enabled |-> TRUE, package |-> package, zones |-> zones]

Light == ByWeight("post", <<UpTo(1, 1), UpTo(2, 2)>>)
Heavy == ByWeight("freight", <<UpTo(2, 3), UpTo(None, 4)>>)

Mixed == Document(0, <<Zone({us}, <<Flat("courier", 5), Light>>, 2),
                       Zone({RestOfWorld}, <<Heavy>>, None)>>)
Scaled == Document(1, <<Zone({us, cu}, <<Pickup("shop"), Light>>, 1),
                        Zone({ca}, <<Heavy>>, 2)>>)
Off == [Scaled EXCEPT !.enabled = FALSE]
Reserved == Document(0, <<Zone({us}, <<Flat(FreeShipping, 5)>>, 1)>>)
Twice == Document(0, <<Zone({us}, <<Light>>, None), Zone({us, ca}, <<Heavy>>, None)>>)
Crowded == Document(0, <<Zone({us}, <<Flat("courier", 5), Light, Heavy>>, 1)>>)
Unordered == Document(0, <<Zone({us}, <<ByWeight("post", <<UpTo(2, 2), UpTo(1, 1)>>)>>, None)>>)
Early == Document(0, <<Zone({RestOfWorld}, <<Light>>, None), Zone({us}, <<Heavy>>, None)>>)

MCDrafts == {Mixed, Scaled, Off, Reserved, Twice, Crowded, Unordered, Early}
MCBuildTime == Document(0, <<Zone({us}, <<>>, 2), Zone({ca}, <<Flat("courier", 5)>>, None)>>)
MCVariantOf == large :> tee
MCPrice == tee :> 1
=============================================================================

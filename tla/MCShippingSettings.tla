------------------------- MODULE MCShippingSettings -------------------------
(***************************************************************************)
(* A small instance of ShippingSettings: a document that prices by weight  *)
(* alone, one that does not, one that is not valid; one product with one   *)
(* variant.                                                                *)
(***************************************************************************)
EXTENDS ShippingSettings, TLC

CONSTANTS us, tee, large, t1, t2, e1, e2

TabSymmetry == Permutations(Tabs) \cup Permutations(Editors)

Zone(rates) == [countries |-> {us}, rates |-> rates, free |-> None]
Flat == [label |-> "courier", mode |-> "flat", amount |-> 5, bands |-> <<>>]
ByWeight == [label |-> "post", mode |-> "weight", amount |-> 0,
             bands |-> <<[upTo |-> None, amount |-> 1]>>]

WeightOnly == [enabled |-> TRUE, package |-> 0, zones |-> <<Zone(<<ByWeight>>)>>]
FlatToo == [enabled |-> TRUE, package |-> 0, zones |-> <<Zone(<<Flat, ByWeight>>)>>]
NoZones == [enabled |-> TRUE, package |-> 0, zones |-> <<>>]

MCDrafts == {WeightOnly, FlatToo, NoZones}
\* A product whose variant alone is weighed, and one that is weighed and whose
\* variant inherits that.
Form(weight, variant) ==
    [product |-> tee, item |-> [active |-> TRUE, ships |-> TRUE, weight |-> weight],
     option |-> large :> variant]
MCForms == {Form(None, 1), Form(1, None)}

MCVariantOf == large :> tee
MCPrice == tee :> 1
=============================================================================

------------------------------- MODULE Catalog -------------------------------
(***************************************************************************)
(* The products and variants of a store, which quotes read and forms edit, *)
(* and the documents and weights that its administrators may type.         *)
(***************************************************************************)
EXTENDS Rates

CONSTANTS Drafts,  \* bound: documents an administrator may try to save
          Weights  \* bound: weights that may be typed

ASSUME DraftsAssumption == Drafts \subseteq Documents /\ Weights \subseteq Nat

VARIABLE catalog \* item[p]: product p; option[v]: the weight of variant v

Items == [active : BOOLEAN, ships : BOOLEAN, weight : Weights \cup {None}]
Catalogs == [item : [Products -> Items],
             option : [Variants -> Weights \cup {None, Gone}]]
=============================================================================

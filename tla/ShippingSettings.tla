-------------------------- MODULE ShippingSettings --------------------------
(***************************************************************************)
(* How the shipping document comes to be stored, and how the store keeps   *)
(* from being one that cannot sell: editors of the document in several     *)
(* tabs and editors of products, each a request that reads, checks and     *)
(* then writes.  The row may also be edited by hand.                       *)
(***************************************************************************)
EXTENDS Catalog

CONSTANTS Tabs,        \* bound: tabs with the shipping editor
          Editors,     \* bound: requests that save a product
          Forms,       \* bound: what a product form may say: [product, item, option]
          MaxRevision, \* bound: revisions
          MaxByHand    \* bound: edits of the row by hand

ASSUME SettingsAssumption ==
    /\ MaxRevision \in Nat /\ MaxByHand \in Nat
    /\ None \notin Drafts \cup Editors
    /\ \A form \in Forms :
        /\ form.product \in Products
        /\ form.item \in Items
        /\ form.option \in [{v \in Variants : VariantOf[v] = form.product}
                              -> Weights \cup {None, Gone}]

VARIABLES
    row,     \* the row of settings with key shipping_config
    byHand,  \* edits by hand so far
    tab,     \* tab[t]: the form in tab t, and its request
    editor   \* editor[e]: a request that saves a product

shipping == <<row, byHand, tab>>
shop == <<catalog, editor>>
vars == <<shipping, shop>>

-----------------------------------------------------------------------------
(* Vocabulary *)

NoRow == [kind |-> "absent", revision |-> 0, doc |-> None]
Garbled == [kind |-> "garbled", revision |-> 0, doc |-> None]
Row(revision, doc) == [kind |-> "json", revision |-> revision, doc |-> doc]
Rows == {NoRow, Garbled}
        \cup {Row(revision, doc) : revision \in 0..MaxRevision, doc \in Drafts}

ValidDrafts == {doc \in Drafts : ValidateShippingDocument(doc)}

\* What a request makes of a row; a document is validated whenever it is read.
Parse(r) ==
    CASE r.kind = "absent" -> [kind |-> "absent", doc |-> Closed]
      [] r.kind = "json" /\ r.doc \in ValidDrafts ->
            [kind |-> "valid", doc |-> r.doc]
      [] OTHER -> [kind |-> "invalid", doc |-> Closed]

\* The form of a document that is not valid is made of the build-time rates,
\* and counts from 0.
RevisionOf(r) == IF Parse(r).kind = "valid" THEN r.revision ELSE 0

RequiresWeight == ZonesRequireWeight(Effective(Parse(row)))
Unsellable == RequiresWeight /\ MissingWeight(catalog) # {}

NoItem == [active |-> FALSE, ships |-> TRUE, weight |-> None]

\* fresh: nothing has been written since that the request has read, which is
\* the catalog for a document, the document and its product for a product.
Unopened == [at |-> "closed", shown |-> NoRow, doc |-> None,
            replace |-> FALSE, fresh |-> TRUE, behind |-> FALSE]
Resting == [at |-> "idle", form |-> None, fresh |-> TRUE]

Init ==
    /\ row = NoRow
    /\ byHand = 0
    /\ tab = [t \in Tabs |-> Unopened]
    /\ catalog = [item |-> [p \in Products |-> NoItem],
                  option |-> [v \in Variants |-> Gone]]
    /\ editor = [e \in Editors |-> Resting]

-----------------------------------------------------------------------------
(* The document *)

\* Writing the document makes what the editors of products read stale.
Store(r) ==
    /\ row' = r
    /\ editor' = [e \in Editors |-> IF editor[e] = Resting THEN Resting
                                     ELSE [editor[e] EXCEPT !.fresh = FALSE]]

\* By hand, or by another version of the program; behind: an open form shows
\* a row that has been edited so.
EditByHand ==
    /\ byHand < MaxByHand
    /\ byHand' = byHand + 1
    /\ \E r \in Rows \ {NoRow, row} : Store(r)
    /\ tab' = [t \in Tabs |-> IF tab[t].at = "closed" THEN tab[t]
                              ELSE [tab[t] EXCEPT !.behind = TRUE]]
    /\ UNCHANGED catalog

OpenEditor(t) ==
    /\ tab[t].at \in {"closed", "open"}
    /\ tab' = [tab EXCEPT ![t] = [Unopened EXCEPT !.at = "open", !.shown = row]]
    /\ UNCHANGED <<row, byHand, shop>>

\* The request validates what was typed.  The row that it reads itself says
\* whether there is something to replace.
SubmitDocument(t) ==
    /\ tab[t].at = "open"
    /\ \E doc \in ValidDrafts, replace \in BOOLEAN :
           tab' = [tab EXCEPT
              ![t].at = IF ZonesRequireWeight(doc) THEN "count" ELSE "write",
              ![t].doc = doc,
              ![t].replace = replace /\ Parse(row).kind = "invalid",
              ![t].fresh = TRUE]
    /\ UNCHANGED <<row, byHand, shop>>

\* A slip: the count is a warning, and the save goes on.
CountAndWarn(t) ==
    /\ tab[t].at = "count"
    /\ tab' = [tab EXCEPT ![t].at = "write"]
    /\ UNCHANGED <<row, byHand, shop>>

\* Zones that price by weight alone are refused while a product has none.
CountProductsMissingWeight(t) ==
    /\ tab[t].at = "count"
    /\ tab' = [tab EXCEPT
          ![t].at = IF MissingWeight(catalog) = {} THEN "write" ELSE "open"]
    /\ UNCHANGED <<row, byHand, shop>>

\* A slip: a row that is there is written over, whatever its revision.
SaveGuardUnguarded(t) == row.kind \in {"absent", "json"}

\* The plain insert wins if there is no row.
SaveGuard(t) ==
    \/ row.kind = "absent"
    \/ row.kind = "json" /\ row.revision = RevisionOf(tab[t].shown)

\* A form whose row is not invalid has no fingerprint.  The value is read,
\* compared with the fingerprint and bound in the UPDATE, so that it is the
\* row that was shown that is replaced.
ReplaceGuard(t) == Parse(tab[t].shown).kind = "invalid" /\ row = tab[t].shown

Guard(t) == IF tab[t].replace THEN ReplaceGuard(t) ELSE SaveGuard(t)
NextRevision(t) == IF tab[t].replace THEN 1 ELSE RevisionOf(tab[t].shown) + 1

SaveShippingConfig(t) ==
    /\ tab[t].at = "write"
    /\ Guard(t)
    /\ NextRevision(t) <= MaxRevision
    /\ Store(Row(NextRevision(t), tab[t].doc))
    /\ tab' = [tab EXCEPT ![t] = Unopened]
    /\ UNCHANGED <<byHand, catalog>>

\* The page keeps the form as it was, with the revision it was loaded with.
Conflict(t) ==
    /\ tab[t].at = "write"
    /\ ~Guard(t)
    /\ tab' = [tab EXCEPT ![t].at = "open", ![t].doc = None,
                          ![t].replace = FALSE, ![t].fresh = TRUE]
    /\ UNCHANGED <<row, byHand, shop>>

TabDies(t) ==
    /\ tab[t].at # "closed"
    /\ tab' = [tab EXCEPT ![t] = Unopened]
    /\ UNCHANGED <<row, byHand, shop>>

-----------------------------------------------------------------------------
(* Products *)

Refused(item) ==
    /\ RequiresWeight
    /\ item.ships /\ item.active
    /\ item.weight = None

\* The form is checked against the settings that the request has loaded.
SubmitProduct(e) ==
    /\ editor[e] = Resting
    /\ \E form \in Forms :
        /\ ~Refused(form.item)
        /\ editor' = [editor EXCEPT ![e] =
              [at |-> "update", form |-> form, fresh |-> TRUE]]
    /\ UNCHANGED <<shipping, catalog>>

\* What a product is like changes, and what tabs have counted is stale.
SetCatalog(item, option) ==
    /\ catalog' = [item |-> item, option |-> option]
    /\ tab' = [t \in Tabs |-> IF tab[t].at # "write" THEN tab[t]
                               ELSE [tab[t] EXCEPT !.fresh = FALSE]]
    /\ UNCHANGED <<row, byHand>>

\* So is what other requests have read of this product; x is the request after it.
Overtake(p, e, x) ==
    editor' = [y \in Editors |->
        IF y = e THEN x
        ELSE IF editor[y] # Resting /\ editor[y].form.product = p
        THEN [editor[y] EXCEPT !.fresh = FALSE]
        ELSE editor[y]]

UpdateProduct(e) ==
    /\ editor[e].at = "update"
    /\ LET p == editor[e].form.product IN
       /\ SetCatalog([catalog.item EXCEPT ![p] = editor[e].form.item], catalog.option)
       /\ Overtake(p, e, [editor[e] EXCEPT !.at = "variants"])

\* The variants are written last; rows of the form are made, kept or removed.
ApplyVariantForm(e) ==
    /\ editor[e].at = "variants"
    /\ LET p == editor[e].form.product IN
       /\ SetCatalog(catalog.item,
            [v \in Variants |-> IF VariantOf[v] = p THEN editor[e].form.option[v]
                                                   ELSE catalog.option[v]])
       /\ Overtake(p, e, Resting)

DeleteProduct(p) ==
    /\ catalog.item[p].active
    /\ SetCatalog([catalog.item EXCEPT ![p] = NoItem],
         [v \in Variants |-> IF VariantOf[v] = p THEN Gone ELSE catalog.option[v]])
    /\ Overtake(p, None, Resting)

\* A Worker may stop between the two.
EditorDies(e) ==
    /\ editor[e] # Resting
    /\ editor' = [editor EXCEPT ![e] = Resting]
    /\ UNCHANGED <<shipping, catalog>>

-----------------------------------------------------------------------------

Next ==
    \/ EditByHand
    \/ \E t \in Tabs :
        \/ OpenEditor(t) \/ SubmitDocument(t) \/ CountProductsMissingWeight(t)
        \/ SaveShippingConfig(t) \/ Conflict(t) \/ TabDies(t)
    \/ \E p \in Products : DeleteProduct(p)
    \/ \E e \in Editors :
        \/ SubmitProduct(e) \/ UpdateProduct(e) \/ ApplyVariantForm(e)
        \/ EditorDies(e)

Spec == Init /\ [][Next]_vars

-----------------------------------------------------------------------------

Tab == [at : {"closed", "open", "count", "write"}, shown : Rows,
        doc : Drafts \cup {None}, replace : BOOLEAN, fresh : BOOLEAN,
        behind : BOOLEAN]

TypeOK ==
    /\ row \in Rows
    /\ byHand \in 0..MaxByHand
    /\ tab \in [Tabs -> Tab]
    /\ catalog \in Catalogs
    /\ editor \in [Editors -> {Resting} \cup [at : {"update", "variants"},
                                             form : Forms, fresh : BOOLEAN]]

\* A save writes over the document that its tab has shown and no other, however
\* many tabs save and repair: what another tab has saved since is never lost.
\* (An edit by hand while the tab is open may keep or repeat a revision.)
NoLostEdit ==
    [][\A t \in Tabs : SaveShippingConfig(t) =>
        row = tab[t].shown \/ tab[t].behind]_vars

\* That some product can no longer be bought where zones price by weight alone
\* is not the doing of one request: the one that brings it about has checked
\* what was then changed under it, or else the row was edited by hand.
UnsellableNeedsStaleRead ==
    [][(~Unsellable /\ Unsellable') =>
        \/ byHand' # byHand
        \/ \E t \in Tabs : SaveShippingConfig(t) /\ ~tab[t].fresh
        \/ \E e \in Editors :
              (UpdateProduct(e) \/ ApplyVariantForm(e)) /\ ~editor[e].fresh]_vars
=============================================================================

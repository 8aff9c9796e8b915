---------------------------- MODULE Shipping_proofs ----------------------------
(***************************************************************************)
(* What TLAPS proves of shipping, for any number of shoppers, tabs,        *)
(* requests, documents and products.                                       *)
(*                                                                         *)
(* ShippingSettings: its types, that no save is lost, and that no single   *)
(* request brings about a store that cannot sell.                          *)
(*                                                                         *)
(* ShippingQuote: its types; that whoever is asked for shipping is asked   *)
(* what the scale says, by an option that its label names; that a sale is  *)
(* turned away, or shipped for nothing, for the right reason; that nothing *)
(* picked up in person gets a label.                                       *)
(*                                                                         *)
(* The two share the catalog and the rules of Rates, and no step.          *)
(***************************************************************************)
EXTENDS ShippingQuote, ShippingSettings, Sums

-----------------------------------------------------------------------------
(* Settings: the invariant *)

\* What is about to be written has been validated.
WritesValid ==
    \A t \in Tabs : tab[t].at \in {"count", "write"} => tab[t].doc \in ValidDrafts

\* A row that is not the one a tab shows was saved after it.
LaterThan(r) ==
    row.kind = "json" /\ row.doc \in ValidDrafts /\ row.revision > RevisionOf(r)

ShownOrLater ==
    \A t \in Tabs :
        tab[t].at # "closed" /\ ~tab[t].behind => row = tab[t].shown \/ LaterThan(tab[t].shown)

\* A fresh count still holds, and so does a fresh check of a product.
CountHolds ==
    \A t \in Tabs :
        tab[t].at = "write" /\ tab[t].fresh /\ ZonesRequireWeight(tab[t].doc)
            => MissingWeight(catalog) = {}

CheckHolds ==
    \A e \in Editors :
        editor[e] # Resting /\ editor[e].fresh
            => /\ ~Refused(editor[e].form.item)
               /\ editor[e].at = "variants"
                    => catalog.item[editor[e].form.product] = editor[e].form.item

IInv == TypeOK /\ WritesValid /\ ShownOrLater /\ CountHolds /\ CheckHolds

-----------------------------------------------------------------------------
(* Types *)

LEMMA RowTypes ==
    /\ NoRow \in Rows /\ Garbled \in Rows
    /\ \A revision \in 0..MaxRevision, doc \in Drafts : Row(revision, doc) \in Rows
    /\ \A r \in Rows : r.revision \in Nat /\ RevisionOf(r) \in Nat
    /\ \A revision, doc : /\ Row(revision, doc).kind = "json"
                          /\ Row(revision, doc).revision = revision
                          /\ Row(revision, doc).doc = doc
<1>1. \A revision \in 0..MaxRevision, doc \in Drafts : Row(revision, doc) \in Rows
  BY DEF Rows
<1>2. ASSUME NEW r \in Rows PROVE r.revision \in Nat
  <2>1. CASE r \in {NoRow, Garbled}
    BY <2>1 DEF NoRow, Garbled
  <2>2. ASSUME NEW revision \in 0..MaxRevision, NEW doc \in Drafts, r = Row(revision, doc)
        PROVE  r.revision \in Nat
    BY <2>2, SettingsAssumption DEF Row
  <2> QED
    BY <2>1, <2>2 DEF Rows
<1>3. \A r \in Rows : RevisionOf(r) \in Nat
  BY <1>2 DEF RevisionOf
<1>4. NoRow \in Rows /\ Garbled \in Rows
  BY DEF Rows
<1> QED
  BY <1>1, <1>2, <1>3, <1>4 DEF Row

LEMMA RestTypes == Unopened \in Tab /\ Unopened.at = "closed" /\ Resting.at = "idle"
  BY RowTypes DEF Unopened, Tab, Resting

LEMMA TypeInit == Init => TypeOK
<1> SUFFICES ASSUME Init PROVE TypeOK
  OBVIOUS
<1>1. row \in Rows /\ byHand \in 0..MaxByHand
  BY RowTypes, SettingsAssumption DEF Init
<1>2. tab \in [Tabs -> Tab]
  BY RestTypes DEF Init
<1> QED
  BY <1>1, <1>2 DEF Init, TypeOK, Catalogs, Items, NoItem

\* What each of a tab's steps leaves in the tab.
LEMMA TabStep ==
    ASSUME TypeOK, NEW t \in Tabs,
           OpenEditor(t) \/ SubmitDocument(t) \/ CountProductsMissingWeight(t)
           \/ SaveShippingConfig(t) \/ Conflict(t) \/ TabDies(t)
    PROVE  /\ tab' \in [Tabs -> Tab]
           /\ \A x \in Tabs : x # t => tab'[x] = tab[x]
           /\ \/ tab'[t].at = "closed"
              \/ tab'[t].at = "open" /\ OpenEditor(t) /\ tab'[t].shown = row
              \/ /\ tab'[t].shown = tab[t].shown /\ tab'[t].behind = tab[t].behind
                 /\ tab[t].at # "closed"
                 /\ \/ tab'[t].at = "open"
                    \/ SubmitDocument(t) /\ tab'[t].doc \in ValidDrafts
                       /\ tab'[t].at = (IF ZonesRequireWeight(tab'[t].doc)
                                        THEN "count" ELSE "write")
                    \/ CountProductsMissingWeight(t) /\ tab'[t].doc = tab[t].doc
                       /\ tab'[t].at = "write" /\ MissingWeight(catalog) = {}
<1>t. tab \in [Tabs -> Tab] /\ tab[t] \in Tab
  BY DEF TypeOK
<1>1. CASE OpenEditor(t)
  <2> DEFINE r == [Unopened EXCEPT !.at = "open", !.shown = row]
  <2>1. r \in Tab /\ r.at = "open" /\ r.shown = row
    BY RestTypes DEF TypeOK, Tab
  <2>2. tab' = [tab EXCEPT ![t] = r]
    BY <1>1 DEF OpenEditor
  <2> HIDE DEF r
  <2> QED
    BY <1>1, <2>1, <2>2, <1>t
<1>2. CASE SubmitDocument(t)
  <2>1. PICK doc \in ValidDrafts, replace \in BOOLEAN :
           tab' = [tab EXCEPT
              ![t].at = IF ZonesRequireWeight(doc) THEN "count" ELSE "write",
              ![t].doc = doc,
              ![t].replace = replace /\ Parse(row).kind = "invalid",
              ![t].fresh = TRUE]
    BY <1>2 DEF SubmitDocument
  <2>2. doc \in Drafts
    BY DEF ValidDrafts
  <2>3. /\ tab'[t].at = (IF ZonesRequireWeight(doc) THEN "count" ELSE "write")
        /\ tab'[t].doc = doc /\ tab'[t].shown = tab[t].shown /\ tab'[t].behind = tab[t].behind
        /\ tab'[t] \in Tab /\ tab' \in [Tabs -> Tab]
        /\ \A x \in Tabs : x # t => tab'[x] = tab[x]
    BY <2>1, <2>2, <1>t DEF Tab
  <2> QED
    BY <1>2, <2>3 DEF SubmitDocument
<1>3. CASE CountProductsMissingWeight(t)
  BY <1>3, <1>t DEF CountProductsMissingWeight, Tab
<1>4. CASE SaveShippingConfig(t) \/ TabDies(t)
  BY <1>4, <1>t, RestTypes DEF SaveShippingConfig, TabDies
<1>5. CASE Conflict(t)
  BY <1>5, <1>t DEF Conflict, Tab
<1> QED
  BY <1>1, <1>2, <1>3, <1>4, <1>5

\* What a save writes, and what a write to the row does to the requests on products.
LEMMA RowStep ==
    ASSUME TypeOK, WritesValid, NEW t \in Tabs, SaveShippingConfig(t)
    PROVE  /\ row' = Row(NextRevision(t), tab[t].doc)
           /\ row' \in Rows /\ row'.kind = "json" /\ row'.doc = tab[t].doc
           /\ tab[t].doc \in ValidDrafts
           /\ row'.revision = NextRevision(t) /\ NextRevision(t) \in Nat
           /\ Store(row') /\ UNCHANGED <<byHand, catalog>>
<1>1. /\ row' = Row(NextRevision(t), tab[t].doc) /\ tab[t].doc \in ValidDrafts
      /\ NextRevision(t) <= MaxRevision /\ Store(row') /\ UNCHANGED <<byHand, catalog>>
  BY DEF SaveShippingConfig, Store, WritesValid
<1>2. tab[t].shown \in Rows /\ tab[t].doc \in Drafts
  BY <1>1 DEF TypeOK, Tab, ValidDrafts
<1>3. NextRevision(t) \in Nat
  BY <1>2, RowTypes DEF NextRevision
<1>4. NextRevision(t) \in 0..MaxRevision
  BY <1>1, <1>3, SettingsAssumption
<1> QED
  BY <1>1, <1>2, <1>3, <1>4, RowTypes

Request == [at : {"update", "variants"}, form : Forms, fresh : BOOLEAN]

LEMMA StoreEditors ==
    ASSUME TypeOK, NEW r, Store(r)
    PROVE  /\ editor' \in [Editors -> {Resting} \cup Request]
           /\ \A e \in Editors : editor'[e] # Resting => editor'[e].fresh = FALSE
<1>1. editor' = [e \in Editors |-> IF editor[e] = Resting THEN Resting
                                    ELSE [editor[e] EXCEPT !.fresh = FALSE]]
  BY DEF Store
<1>2. ASSUME NEW e \in Editors
      PROVE  \/ editor'[e] = Resting
             \/ editor'[e] \in Request /\ editor'[e].fresh = FALSE
  <2>1. CASE editor[e] = Resting
    BY <1>1, <2>1
  <2>2. CASE editor[e] # Resting
    <3>1. editor[e] \in Request
      BY <2>2 DEF TypeOK, Request
    <3> QED
      BY <1>1, <2>2, <3>1 DEF Request
  <2> QED
    BY <2>1, <2>2
<1> QED
  BY <1>1, <1>2

\* The steps of a product's request.
LEMMA CatalogTabs ==
    ASSUME TypeOK, NEW item, NEW option, SetCatalog(item, option)
    PROVE  /\ tab' \in [Tabs -> Tab]
           /\ \A t \in Tabs :
                 /\ tab'[t].at = tab[t].at /\ tab'[t].shown = tab[t].shown
                 /\ tab'[t].doc = tab[t].doc /\ tab'[t].behind = tab[t].behind
                 /\ tab[t].at = "write" => tab'[t].fresh = FALSE
           /\ UNCHANGED <<row, byHand>>
  BY DEF SetCatalog, TypeOK, Tab

LEMMA OvertakeStep ==
    ASSUME TypeOK, NEW p, NEW e, NEW x \in {Resting} \cup Request, Overtake(p, e, x)
    PROVE  /\ editor' \in [Editors -> {Resting} \cup Request]
           /\ e \in Editors => editor'[e] = x
           /\ \A y \in Editors \ {e} :
                 \/ editor'[y] = editor[y] /\ (editor[y] # Resting => editor[y].form.product # p)
                 \/ editor'[y] = Resting
                 \/ editor'[y].fresh = FALSE
<1>1. ASSUME NEW y \in Editors, y # e
      PROVE  /\ editor'[y] \in {Resting} \cup Request
             /\ \/ editor'[y] = editor[y] /\ (editor[y] # Resting => editor[y].form.product # p)
                \/ editor'[y] = Resting
                \/ editor'[y].fresh = FALSE
  <2>1. CASE editor[y] # Resting /\ editor[y].form.product = p
    <3>1. editor[y] \in Request /\ editor'[y] = [editor[y] EXCEPT !.fresh = FALSE]
      BY <1>1, <2>1 DEF Overtake, TypeOK, Request
    <3> QED
      BY <3>1 DEF Request
  <2>2. CASE ~(editor[y] # Resting /\ editor[y].form.product = p)
    BY <1>1, <2>2 DEF Overtake, TypeOK, Request
  <2> QED
    BY <2>1, <2>2
<1>2. editor' = [y \in Editors |-> editor'[y]] /\ (e \in Editors => editor'[e] = x)
  BY DEF Overtake
<1> QED
  BY <1>1, <1>2

-----------------------------------------------------------------------------
(* The invariant: types *)

LEMMA EditorTypes ==
    ASSUME TypeOK, NEW e \in Editors, editor[e] # Resting
    PROVE  /\ editor[e] \in Request /\ editor[e].form \in Forms
           /\ editor[e].form.product \in Products
  BY SettingsAssumption DEF TypeOK, Request

LEMMA TypeStep == ASSUME TypeOK, WritesValid, [Next]_vars PROVE TypeOK'
<1> USE DEF shipping, shop
<1>1. CASE EditByHand
  <2>1. PICK r \in Rows \ {NoRow, row} : Store(r)
    BY <1>1 DEF EditByHand
  <2>2. row' \in Rows
    BY <2>1 DEF Store
  <2>3. editor' \in [Editors -> {Resting} \cup Request]
    BY <2>1, StoreEditors
  <2>4. tab' \in [Tabs -> Tab] /\ byHand' \in 0..MaxByHand /\ catalog' = catalog
    <3>1. ASSUME NEW t \in Tabs PROVE tab'[t] \in Tab
      BY <1>1 DEF EditByHand, TypeOK, Tab
    <3>2. tab' = [t \in Tabs |-> tab'[t]]
      BY <1>1 DEF EditByHand
    <3>3. byHand' \in 0..MaxByHand /\ catalog' = catalog
      BY <1>1, SettingsAssumption DEF EditByHand, TypeOK
    <3> QED
      BY <3>1, <3>2, <3>3
  <2> QED
    BY <2>2, <2>3, <2>4 DEF TypeOK, Request
<1>2. ASSUME NEW t \in Tabs, SaveShippingConfig(t) PROVE TypeOK'
  BY <1>2, TabStep, RowStep, StoreEditors DEF TypeOK, Request
<1>3. ASSUME NEW t \in Tabs, OpenEditor(t) \/ SubmitDocument(t)
             \/ CountProductsMissingWeight(t) \/ Conflict(t) \/ TabDies(t)
      PROVE  TypeOK'
  <2>1. tab' \in [Tabs -> Tab]
    BY <1>3, TabStep
  <2>2. UNCHANGED <<row, byHand, catalog, editor>>
    BY <1>3 DEF OpenEditor, SubmitDocument, CountProductsMissingWeight, Conflict, TabDies
  <2> QED
    BY <2>1, <2>2 DEF TypeOK
<1>4. ASSUME NEW e \in Editors, SubmitProduct(e) \/ EditorDies(e) PROVE TypeOK'
  <2>1. editor' \in [Editors -> {Resting} \cup Request]
    <3>1. CASE SubmitProduct(e)
      <4>1. PICK form \in Forms :
               editor' = [editor EXCEPT ![e] = [at |-> "update", form |-> form, fresh |-> TRUE]]
        BY <3>1 DEF SubmitProduct
      <4>2. [at |-> "update", form |-> form, fresh |-> TRUE] \in Request
        BY DEF Request
      <4> QED
        BY <4>1, <4>2 DEF TypeOK, Request
    <3>2. CASE EditorDies(e)
      BY <3>2 DEF EditorDies, TypeOK, Request
    <3> QED
      BY <1>4, <3>1, <3>2
  <2> QED
    BY <1>4, <2>1 DEF SubmitProduct, EditorDies, TypeOK, Request
<1>5. ASSUME NEW e \in Editors, UpdateProduct(e) PROVE TypeOK'
  <2> DEFINE p == editor[e].form.product
             item == [catalog.item EXCEPT ![p] = editor[e].form.item]
             x == [editor[e] EXCEPT !.at = "variants"]
  <2>1. editor[e] # Resting
    BY <1>5, RestTypes DEF UpdateProduct
  <2>2. x \in Request /\ p \in Products
    BY <2>1, EditorTypes DEF Request
  <2>3. item \in [Products -> [active : BOOLEAN, ships : BOOLEAN, weight : Weights \cup {None}]]
    BY <2>1, EditorTypes, SettingsAssumption DEF TypeOK, Catalogs, Items
  <2>4. SetCatalog(item, catalog.option) /\ Overtake(p, e, x)
    BY <1>5 DEF UpdateProduct
  <2>5. editor' \in [Editors -> {Resting} \cup Request]
    BY <2>2, <2>4, OvertakeStep
  <2>6. catalog' = [item |-> item, option |-> catalog.option]
    BY <2>4 DEF SetCatalog
  <2> HIDE DEF item
  <2> QED
    BY <2>3, <2>4, <2>5, <2>6, CatalogTabs DEF TypeOK, Catalogs, Items, Request
<1>6. ASSUME NEW e \in Editors, ApplyVariantForm(e) PROVE TypeOK'
  <2> DEFINE p == editor[e].form.product
             option == [v \in Variants |-> IF VariantOf[v] = p THEN editor[e].form.option[v]
                                                              ELSE catalog.option[v]]
  <2>1. editor[e] # Resting
    BY <1>6, RestTypes DEF ApplyVariantForm
  <2>2. option \in [Variants -> Weights \cup {None, Gone}]
    <3> SUFFICES ASSUME NEW v \in Variants
                 PROVE  option[v] \in Weights \cup {None, Gone}
      OBVIOUS
    <3>1. CASE VariantOf[v] = p
      <4>1. editor[e].form.option
              \in [{w \in Variants : VariantOf[w] = p} -> Weights \cup {None, Gone}]
        BY <2>1, EditorTypes, SettingsAssumption
      <4> QED
        BY <3>1, <4>1
    <3>2. CASE VariantOf[v] # p
      BY <3>2 DEF TypeOK, Catalogs, Items
    <3> QED
      BY <3>1, <3>2
  <2>3. SetCatalog(catalog.item, option) /\ Overtake(p, e, Resting)
    BY <1>6 DEF ApplyVariantForm
  <2>4. editor' \in [Editors -> {Resting} \cup Request]
    BY <2>3, OvertakeStep
  <2>5. catalog' = [item |-> catalog.item, option |-> option]
    BY <2>3 DEF SetCatalog
  <2> HIDE DEF option
  <2> QED
    BY <2>2, <2>3, <2>4, <2>5, CatalogTabs DEF TypeOK, Catalogs, Items, Request
<1>7. ASSUME NEW p \in Products, DeleteProduct(p) PROVE TypeOK'
  <2> DEFINE item == [catalog.item EXCEPT ![p] = NoItem]
             option == [v \in Variants |-> IF VariantOf[v] = p THEN Gone ELSE catalog.option[v]]
  <2>1. /\ item \in [Products -> [active : BOOLEAN, ships : BOOLEAN, weight : Weights \cup {None}]]
        /\ option \in [Variants -> Weights \cup {None, Gone}]
    BY DEF TypeOK, Catalogs, Items, NoItem
  <2>2. SetCatalog(item, option) /\ Overtake(p, None, Resting)
    BY <1>7 DEF DeleteProduct
  <2>3. editor' \in [Editors -> {Resting} \cup Request]
    BY <2>2, OvertakeStep
  <2>4. catalog' = [item |-> item, option |-> option]
    BY <2>2 DEF SetCatalog
  <2> HIDE DEF item, option
  <2> QED
    BY <2>1, <2>2, <2>3, <2>4, CatalogTabs DEF TypeOK, Catalogs, Items, Request
<1>8. CASE UNCHANGED vars
  BY <1>8 DEF vars, TypeOK
<1> QED
  BY <1>1, <1>2, <1>3, <1>4, <1>5, <1>6, <1>7, <1>8 DEF Next

-----------------------------------------------------------------------------
(* The invariant: what is validated, shown, counted and checked *)

LEMMA ValidStep == ASSUME TypeOK, WritesValid, [Next]_vars PROVE WritesValid'
<1> USE DEF shipping, shop
<1>1. CASE EditByHand
  BY <1>1 DEF EditByHand, WritesValid, TypeOK, Tab
<1>2. ASSUME NEW t \in Tabs, OpenEditor(t) \/ SubmitDocument(t)
             \/ CountProductsMissingWeight(t) \/ SaveShippingConfig(t) \/ Conflict(t) \/ TabDies(t)
      PROVE  WritesValid'
  <2>1. \/ tab'[t].at \in {"closed", "open"}
        \/ tab'[t].doc \in ValidDrafts
    BY <1>2, TabStep DEF WritesValid, CountProductsMissingWeight
  <2> QED
    BY <1>2, <2>1, TabStep DEF WritesValid
<1>3. ASSUME \E item, option : SetCatalog(item, option) PROVE WritesValid'
  BY <1>3, CatalogTabs DEF WritesValid
<1>4. ASSUME UNCHANGED tab PROVE WritesValid'
  BY <1>4 DEF WritesValid
<1>5. ASSUME NEW e \in Editors, UpdateProduct(e) \/ ApplyVariantForm(e)
      PROVE  \E item, option : SetCatalog(item, option)
  BY <1>5 DEF UpdateProduct, ApplyVariantForm
<1>6. ASSUME NEW p \in Products, DeleteProduct(p)
      PROVE  \E item, option : SetCatalog(item, option)
  BY <1>6 DEF DeleteProduct
<1> QED
  BY <1>1, <1>2, <1>3, <1>4, <1>5, <1>6 DEF Next, SubmitProduct, EditorDies, vars

LEMMA LaterStep ==
    ASSUME TypeOK, WritesValid, ShownOrLater, [Next]_vars
    PROVE  ShownOrLater'
<1> USE DEF shipping, shop
<1>1. CASE EditByHand
  <2> SUFFICES ASSUME NEW t \in Tabs, tab'[t].at # "closed" PROVE tab'[t].behind
    BY DEF ShownOrLater
  <2>1. tab'[t] = [tab[t] EXCEPT !.behind = TRUE]
    BY <1>1 DEF EditByHand, TypeOK, Tab
  <2> QED
    BY <2>1 DEF TypeOK, Tab
<1>2. ASSUME NEW u \in Tabs, SaveShippingConfig(u) PROVE ShownOrLater'
  <2>1. /\ row'.kind = "json" /\ row'.doc \in ValidDrafts /\ row'.revision = NextRevision(u)
        /\ tab'[u].at = "closed" /\ \A x \in Tabs : x # u => tab'[x] = tab[x]
    BY <1>2, RowStep, TabStep, RestTypes DEF SaveShippingConfig, TypeOK
  <2>2. Guard(u) /\ tab[u].shown \in Rows /\ row \in Rows
    BY <1>2 DEF SaveShippingConfig, TypeOK, Tab
  <2>3. row'.revision > RevisionOf(row)
    <3>1. CASE Parse(row).kind = "valid"
      <4>1. ~tab[u].replace /\ row.kind # "absent"
        BY <2>2, <3>1 DEF Guard, ReplaceGuard, Parse
      <4> QED
        BY <2>1, <2>2, <3>1, <4>1, RowTypes DEF Guard, SaveGuard, NextRevision, RevisionOf
    <3>2. CASE Parse(row).kind # "valid"
      BY <2>1, <2>2, <3>2, RowTypes DEF NextRevision, RevisionOf
    <3> QED
      BY <3>1, <3>2
  <2> SUFFICES ASSUME NEW t \in Tabs, tab'[t].at # "closed", ~tab'[t].behind
               PROVE  row'.revision > RevisionOf(tab'[t].shown)
    BY <2>1 DEF ShownOrLater, LaterThan
  <2>4. tab'[t] = tab[t] /\ (row = tab[t].shown \/ LaterThan(tab[t].shown))
    BY <2>1 DEF ShownOrLater
  <2>5. CASE row = tab[t].shown
    BY <2>3, <2>4, <2>5
  <2>6. CASE LaterThan(tab[t].shown)
    <3>1. RevisionOf(row) = row.revision
      BY <2>6 DEF LaterThan, RevisionOf, Parse
    <3>2. tab[t].shown \in Rows
      BY DEF TypeOK, Tab
    <3>3. /\ row'.revision \in Nat /\ row.revision \in Nat
          /\ RevisionOf(tab[t].shown) \in Nat
      BY <1>2, <2>2, <3>2, RowStep, RowTypes
    <3> QED
      BY <2>3, <2>4, <2>6, <3>1, <3>3 DEF LaterThan
  <2> QED
    BY <2>4, <2>5, <2>6
<1>3. ASSUME NEW t \in Tabs, OpenEditor(t) \/ SubmitDocument(t)
             \/ CountProductsMissingWeight(t) \/ Conflict(t) \/ TabDies(t)
      PROVE  ShownOrLater'
  <2>1. row' = row
    BY <1>3 DEF OpenEditor, SubmitDocument, CountProductsMissingWeight, Conflict, TabDies
  <2>2. \/ tab'[t].at = "closed" \/ tab'[t].shown = row
        \/ /\ tab'[t].shown = tab[t].shown /\ tab'[t].behind = tab[t].behind
           /\ tab[t].at # "closed"
    BY <1>3, TabStep
  <2>3. \A x \in Tabs : x # t => tab'[x] = tab[x]
    BY <1>3, TabStep
  <2> QED
    BY <2>1, <2>2, <2>3 DEF ShownOrLater, LaterThan
<1>4. ASSUME \E item, option : SetCatalog(item, option) PROVE ShownOrLater'
  BY <1>4, CatalogTabs DEF ShownOrLater, LaterThan
<1>5. ASSUME UNCHANGED <<row, tab>> PROVE ShownOrLater'
  BY <1>5 DEF ShownOrLater, LaterThan
<1>6. ASSUME NEW e \in Editors, UpdateProduct(e) \/ ApplyVariantForm(e)
      PROVE  \E item, option : SetCatalog(item, option)
  BY <1>6 DEF UpdateProduct, ApplyVariantForm
<1>7. ASSUME NEW p \in Products, DeleteProduct(p)
      PROVE  \E item, option : SetCatalog(item, option)
  BY <1>7 DEF DeleteProduct
<1> QED
  BY <1>1, <1>2, <1>3, <1>4, <1>5, <1>6, <1>7 DEF Next, SubmitProduct, EditorDies, vars

LEMMA CountStep ==
    ASSUME TypeOK, CountHolds, [Next]_vars
    PROVE  CountHolds'
<1> USE DEF shipping, shop
<1>1. CASE EditByHand
  BY <1>1 DEF EditByHand, CountHolds, TypeOK, Tab
<1>2. ASSUME NEW t \in Tabs, OpenEditor(t) \/ SubmitDocument(t)
             \/ CountProductsMissingWeight(t) \/ SaveShippingConfig(t) \/ Conflict(t) \/ TabDies(t)
      PROVE  CountHolds'
  <2>1. catalog' = catalog
    BY <1>2 DEF OpenEditor, SubmitDocument, CountProductsMissingWeight, SaveShippingConfig,
                Conflict, TabDies
  <2>2. \/ tab'[t].at # "write" \/ ~ZonesRequireWeight(tab'[t].doc) \/ MissingWeight(catalog) = {}
    BY <1>2, TabStep
  <2>3. \A x \in Tabs : x # t => tab'[x] = tab[x]
    BY <1>2, TabStep
  <2> QED
    BY <2>1, <2>2, <2>3 DEF CountHolds
<1>3. ASSUME \E item, option : SetCatalog(item, option) PROVE CountHolds'
  BY <1>3, CatalogTabs DEF CountHolds
<1>4. ASSUME UNCHANGED <<catalog, tab>> PROVE CountHolds'
  BY <1>4 DEF CountHolds
<1>5. ASSUME NEW e \in Editors, UpdateProduct(e) \/ ApplyVariantForm(e)
      PROVE  \E item, option : SetCatalog(item, option)
  BY <1>5 DEF UpdateProduct, ApplyVariantForm
<1>6. ASSUME NEW p \in Products, DeleteProduct(p)
      PROVE  \E item, option : SetCatalog(item, option)
  BY <1>6 DEF DeleteProduct
<1> QED
  BY <1>1, <1>2, <1>3, <1>4, <1>5, <1>6 DEF Next, SubmitProduct, EditorDies, vars

LEMMA CheckStep ==
    ASSUME TypeOK, CheckHolds, [Next]_vars
    PROVE  CheckHolds'
<1> USE DEF shipping, shop
<1>1. ASSUME NEW r, Store(r) PROVE CheckHolds'
  BY <1>1, StoreEditors DEF CheckHolds
<1>2. ASSUME UNCHANGED <<row, catalog, editor>> PROVE CheckHolds'
  BY <1>2 DEF CheckHolds, Refused, RequiresWeight
<1>3. ASSUME NEW e \in Editors, SubmitProduct(e) PROVE CheckHolds'
  <2>1. PICK form \in Forms :
           /\ ~Refused(form.item)
           /\ editor' = [editor EXCEPT ![e] = [at |-> "update", form |-> form, fresh |-> TRUE]]
           /\ UNCHANGED <<row, catalog>>
    BY <1>3 DEF SubmitProduct
  <2>2. editor'[e].at = "update" /\ editor'[e].form = form
        /\ \A x \in Editors : x # e => editor'[x] = editor[x]
    BY <2>1 DEF TypeOK
  <2> QED
    BY <2>1, <2>2 DEF CheckHolds, Refused, RequiresWeight
<1>4. ASSUME NEW e \in Editors, EditorDies(e) PROVE CheckHolds'
  <2>1. \A x \in Editors : editor'[x] \in {editor[x], Resting}
    BY <1>4 DEF EditorDies, TypeOK
  <2>2. UNCHANGED <<row, catalog>>
    BY <1>4 DEF EditorDies
  <2> QED
    BY <2>1, <2>2 DEF CheckHolds, Refused, RequiresWeight
<1>5. ASSUME NEW e \in Editors, UpdateProduct(e) PROVE CheckHolds'
  <2> DEFINE item == [catalog.item EXCEPT ![editor[e].form.product] = editor[e].form.item]
  <2>p. PICK p \in Products : p = editor[e].form.product /\ editor[e] # Resting
    BY <1>5, EditorTypes, RestTypes DEF UpdateProduct
  <2>1. SetCatalog(item, catalog.option) /\ Overtake(p, e, [editor[e] EXCEPT !.at = "variants"])
    BY <1>5, <2>p DEF UpdateProduct
  <2>2. [editor[e] EXCEPT !.at = "variants"] \in Request
    BY <2>p, EditorTypes DEF Request
  <2>x. PICK x \in Request :
           Overtake(p, e, x) /\ x.form = editor[e].form /\ x.fresh = editor[e].fresh
    BY <2>1, <2>2, <2>p, EditorTypes DEF Request
  <2>o. /\ editor'[e] = x
        /\ \A y \in Editors \ {e} :
              \/ editor'[y] = editor[y] /\ (editor[y] # Resting => editor[y].form.product # p)
              \/ editor'[y] = Resting
              \/ editor'[y].fresh = FALSE
    BY <2>x, OvertakeStep
  <2>3. catalog'.item = item /\ row' = row
    BY <2>1 DEF SetCatalog
  <2>4. item[p] = editor[e].form.item /\ \A q \in Products : q # p => item[q] = catalog.item[q]
    BY <2>p DEF TypeOK, Catalogs, Items
  <2> SUFFICES ASSUME NEW y \in Editors, editor'[y] # Resting, editor'[y].fresh
               PROVE  /\ ~Refused(editor'[y].form.item)
                      /\ editor'[y].at = "variants"
                           => item[editor'[y].form.product] = editor'[y].form.item
    BY <2>3 DEF CheckHolds, Refused, RequiresWeight
  <2> HIDE DEF item
  <2>5. CASE y = e
    <3>1. editor'[y] = x
      BY <2>5, <2>o
    <3> QED
      BY <2>p, <2>x, <2>4, <3>1 DEF CheckHolds
  <2>6. CASE y # e
    <3>1. editor'[y] = editor[y] /\ editor[y].form.product # p
      BY <2>6, <2>o
    <3>2. editor[y].form.product \in Products
      BY <3>1, EditorTypes
    <3> QED
      BY <2>4, <3>1, <3>2 DEF CheckHolds
  <2> QED
    BY <2>5, <2>6
<1>6. ASSUME NEW e \in Editors, ApplyVariantForm(e) PROVE CheckHolds'
  <2>1. PICK p, option : SetCatalog(catalog.item, option) /\ Overtake(p, e, Resting)
    BY <1>6 DEF ApplyVariantForm
  <2>2. catalog'.item = catalog.item /\ row' = row
    BY <2>1 DEF SetCatalog
  <2>3. \A y \in Editors : editor'[y] \in {editor[y], Resting} \/ editor'[y].fresh = FALSE
    BY <2>1, OvertakeStep
  <2> QED
    BY <2>2, <2>3 DEF CheckHolds, Refused, RequiresWeight
<1>7. ASSUME NEW p \in Products, DeleteProduct(p) PROVE CheckHolds'
  <2> DEFINE item == [catalog.item EXCEPT ![p] = NoItem]
  <2>1. PICK option : SetCatalog(item, option) /\ Overtake(p, None, Resting)
    BY <1>7 DEF DeleteProduct
  <2>2. catalog'.item = item /\ row' = row /\ \A q \in Products : q # p => item[q] = catalog.item[q]
    BY <2>1 DEF SetCatalog, TypeOK
  <2> HIDE DEF item
  <2> SUFFICES ASSUME NEW y \in Editors, editor'[y] # Resting, editor'[y].fresh
               PROVE  /\ ~Refused(editor'[y].form.item)
                      /\ editor'[y].at = "variants"
                           => item[editor'[y].form.product] = editor'[y].form.item
    BY <2>2 DEF CheckHolds, Refused, RequiresWeight
  <2>3. y # None
    BY SettingsAssumption
  <2>4. editor'[y] = editor[y] /\ editor[y].form.product # p
    BY <2>1, <2>3, OvertakeStep
  <2>5. editor[y].form.product \in Products
    BY <2>4, EditorTypes
  <2> QED
    BY <2>2, <2>4, <2>5 DEF CheckHolds
<1>8. ASSUME NEW t \in Tabs, OpenEditor(t) \/ SubmitDocument(t)
             \/ CountProductsMissingWeight(t) \/ Conflict(t) \/ TabDies(t)
      PROVE  UNCHANGED <<row, catalog, editor>>
  BY <1>8 DEF OpenEditor, SubmitDocument, CountProductsMissingWeight, Conflict, TabDies
<1> QED
  BY <1>1, <1>2, <1>3, <1>4, <1>5, <1>6, <1>7, <1>8
     DEF Next, EditByHand, SaveShippingConfig, vars

\* All of it holds at every moment.
LEMMA Invariance == Spec => []IInv
<1>1. Init => IInv
  <2> SUFFICES ASSUME Init PROVE IInv
    OBVIOUS
  <2>1. TypeOK
    BY TypeInit
  <2>2. WritesValid /\ ShownOrLater /\ CountHolds /\ CheckHolds
    BY RestTypes DEF Init, WritesValid, ShownOrLater, CountHolds, CheckHolds
  <2> QED
    BY <2>1, <2>2 DEF IInv
<1>2. IInv /\ [Next]_vars => IInv'
  BY TypeStep, ValidStep, LaterStep, CountStep, CheckStep DEF IInv
<1> QED
  BY <1>1, <1>2, PTL DEF Spec

\* The row is one of a revision and a document, whoever wrote it; tabs, requests
\* and the catalog are what their types say.
THEOREM TypeCorrect == Spec => []TypeOK
<1>1. IInv => TypeOK
  BY DEF IInv
<1> QED
  BY <1>1, Invariance, PTL

-----------------------------------------------------------------------------
(* Saves and sales *)

\* However many tabs save and repair the document, none writes over what it has
\* not shown, unless the row was edited by hand while it was open.
THEOREM NoEditIsLost == Spec => NoLostEdit
<1> DEFINE Step == \A t \in Tabs : SaveShippingConfig(t) => row = tab[t].shown \/ tab[t].behind
<1>1. IInv => Step
  <2> SUFFICES ASSUME IInv, NEW t \in Tabs, SaveShippingConfig(t), ~tab[t].behind
               PROVE  row = tab[t].shown
    OBVIOUS
  <2>1. tab[t].at = "write" /\ Guard(t)
    BY DEF SaveShippingConfig
  <2>2. row = tab[t].shown \/ LaterThan(tab[t].shown)
    BY <2>1 DEF IInv, ShownOrLater
  <2>3. tab[t].shown \in Rows /\ row \in Rows
    BY DEF IInv, TypeOK, Tab
  <2>4. row.revision \in Nat /\ RevisionOf(tab[t].shown) \in Nat
    BY <2>3, RowTypes
  <2>5. CASE tab[t].replace
    BY <2>1, <2>5 DEF Guard, ReplaceGuard
  <2>6. CASE ~tab[t].replace
    <3>1. ~LaterThan(tab[t].shown)
      BY <2>1, <2>4, <2>6 DEF Guard, SaveGuard, LaterThan
    <3> QED
      BY <2>2, <3>1
  <2> QED
    BY <2>5, <2>6
<1>2. IInv /\ [Next]_vars => [Step]_vars
  BY <1>1
<1> QED
  BY <1>2, Invariance, PTL DEF Spec, NoLostEdit

\* What a product's variants have to do with another product's weights: nothing.
LEMMA MissingElsewhere ==
    ASSUME NEW c, NEW d, NEW p \in Products, NEW q \in Products, q # p,
           d.item[q] = c.item[q],
           \A v \in Variants : VariantOf[v] = q => d.option[v] = c.option[v],
           q \in MissingWeight(d)
    PROVE  q \in MissingWeight(c)
  BY DEF MissingWeight, Choosable

\* A product that has a weight or needs none is none of those that miss one.
LEMMA NotMissing ==
    ASSUME NEW c, NEW p, RequiresWeight, ~Refused(c.item[p])
    PROVE  p \notin MissingWeight(c)
  BY DEF MissingWeight, Refused

\* A save whose count was not overtaken leaves a store that can sell.
LEMMA FreshSaveSells ==
    ASSUME IInv, NEW t \in Tabs, SaveShippingConfig(t), tab[t].fresh
    PROVE  ~Unsellable'
<1>1. /\ row'.kind = "json" /\ row'.doc = tab[t].doc /\ tab[t].doc \in ValidDrafts
      /\ catalog' = catalog /\ tab[t].at = "write"
  BY RowStep DEF IInv, SaveShippingConfig
<1>2. Parse(row').kind = "valid" /\ Parse(row').doc = tab[t].doc
  BY <1>1 DEF Parse
<1>3. Effective(Parse(row')) = tab[t].doc
  BY <1>2 DEF Effective
<1>4. RequiresWeight' <=> ZonesRequireWeight(tab[t].doc)
  BY <1>3 DEF RequiresWeight
<1>5. ZonesRequireWeight(tab[t].doc) => MissingWeight(catalog) = {}
  BY <1>1 DEF IInv, CountHolds
<1> QED
  BY <1>1, <1>4, <1>5 DEF Unsellable

\* Nor does a request on a product whose check was not overtaken undo that.
LEMMA FreshFormSells ==
    ASSUME IInv, ~Unsellable, NEW e \in Editors, editor[e].fresh,
           UpdateProduct(e) \/ ApplyVariantForm(e)
    PROVE  ~Unsellable'
<1> DEFINE p == editor[e].form.product
<1>1. /\ editor[e] # Resting /\ p \in Products /\ row' = row
  BY EditorTypes, RestTypes DEF IInv, UpdateProduct, ApplyVariantForm, SetCatalog
<1>2. ~Refused(editor[e].form.item)
  BY <1>1 DEF IInv, CheckHolds
<1>3. /\ catalog'.item[p] = editor[e].form.item
      /\ \A q \in Products : q # p => catalog'.item[q] = catalog.item[q]
      /\ \A v \in Variants : VariantOf[v] # p => catalog'.option[v] = catalog.option[v]
  <2>1. CASE UpdateProduct(e)
    BY <1>1, <2>1 DEF UpdateProduct, SetCatalog, IInv, TypeOK, Catalogs, Items
  <2>2. CASE ApplyVariantForm(e)
    <3>1. catalog.item[p] = editor[e].form.item
      BY <1>1, <2>2 DEF ApplyVariantForm, IInv, CheckHolds
    <3> QED
      BY <2>2, <3>1 DEF ApplyVariantForm, SetCatalog
  <2> QED
    BY <2>1, <2>2
<1> SUFFICES ASSUME Unsellable' PROVE FALSE
  OBVIOUS
<1>4. RequiresWeight /\ MissingWeight(catalog) = {}
  BY <1>1 DEF Unsellable, RequiresWeight
<1>5. PICK q \in Products : q \in MissingWeight(catalog')
  BY DEF Unsellable, MissingWeight
<1>6. q # p
  BY <1>2, <1>3, <1>4, <1>5, NotMissing
<1> QED
  BY <1>1, <1>3, <1>4, <1>5, <1>6, MissingElsewhere

LEMMA DeleteSells ==
    ASSUME IInv, ~Unsellable, NEW p \in Products, DeleteProduct(p)
    PROVE  ~Unsellable'
<1>1. /\ row' = row /\ ~catalog'.item[p].active
      /\ \A q \in Products : q # p => catalog'.item[q] = catalog.item[q]
      /\ \A v \in Variants : VariantOf[v] # p => catalog'.option[v] = catalog.option[v]
  BY DEF DeleteProduct, SetCatalog, IInv, TypeOK, Catalogs, Items, NoItem
<1> SUFFICES ASSUME Unsellable' PROVE FALSE
  OBVIOUS
<1>2. MissingWeight(catalog) = {}
  BY <1>1 DEF Unsellable, RequiresWeight
<1>3. PICK q \in Products : q \in MissingWeight(catalog')
  BY DEF Unsellable, MissingWeight
<1>4. q # p
  BY <1>1, <1>3 DEF MissingWeight
<1> QED
  BY <1>1, <1>2, <1>3, <1>4, MissingElsewhere

\* A store that prices by weight comes to have a product without one by a save
\* whose check was overtaken, or by hand, and in no other way.
THEOREM UnsellableIsARace == Spec => UnsellableNeedsStaleRead
<1> DEFINE Step == (~Unsellable /\ Unsellable') =>
               \/ byHand' # byHand
               \/ \E t \in Tabs : SaveShippingConfig(t) /\ ~tab[t].fresh
               \/ \E e \in Editors :
                     (UpdateProduct(e) \/ ApplyVariantForm(e)) /\ ~editor[e].fresh
<1> USE DEF shipping, shop
<1>1. ASSUME IInv, Next PROVE Step
  <2>1. CASE EditByHand
    BY <1>1, <2>1 DEF EditByHand, IInv, TypeOK
  <2>2. ASSUME NEW t \in Tabs, SaveShippingConfig(t) PROVE Step
    BY <1>1, <2>2, FreshSaveSells
  <2>3. ASSUME UNCHANGED <<row, catalog>> PROVE Step
    BY <2>3 DEF Unsellable, RequiresWeight
  <2>4. ASSUME NEW e \in Editors, UpdateProduct(e) \/ ApplyVariantForm(e) PROVE Step
    BY <1>1, <2>4, FreshFormSells
  <2>5. ASSUME NEW p \in Products, DeleteProduct(p) PROVE Step
    BY <1>1, <2>5, DeleteSells
  <2> QED
    BY <1>1, <2>1, <2>2, <2>3, <2>4, <2>5
       DEF Next, OpenEditor, SubmitDocument, CountProductsMissingWeight, Conflict, TabDies,
           SubmitProduct, EditorDies
<1>2. IInv /\ [Next]_vars => [Step]_vars
  BY <1>1
<1> QED
  BY <1>2, Invariance, PTL DEF Spec, UnsellableNeedsStaleRead

-----------------------------------------------------------------------------
(* Quotes: the invariant *)

\* A basket whose lines carry the records of their variants.
LineTypes == [product : Products, variant : Variants \cup {None},
              carried : Variants \cup {None}, qty : 1 .. MaxQty]
Basket(lines) ==
    IsFiniteSet(lines) /\ lines \subseteq LineTypes /\ \A l \in lines : l.carried = l.variant

\* No line of it names a variant that is gone.
AllThere(lines) ==
    \A l \in lines : l.variant # None => catalog.option[l.variant] # Gone

CartKnows(c) ==
    DOMAIN c \subseteq Keys /\ IsFiniteSet(DOMAIN c) /\ c \in [DOMAIN c -> 1 .. MaxQty]

\* What a deal keeps of the option, and an order of the deal.
DealKnows(v) ==
    /\ v.path \in {"card", "api", "json", "in_app", "unshipped"}
    /\ v.path \in {"json", "in_app"} =>
          \E option : v.options = {option} /\ v.delivery = Stamp(option)
    /\ v.path = "unshipped" => v.options = {} /\ v.delivery = None

OrderKnows(v) ==
    /\ v.path \in {"json", "in_app"} => v.delivery = v.choice
    /\ v.delivery = "shipping" => v.choice = "shipping"

VisitKnows(v) ==
    /\ v.at \in {"idle", "address", "choice", "deal", "order", "rated"}
    /\ v.at \in {"address", "choice"} => Basket(v.lines)
    /\ v.at = "deal" => DealKnows(v)
    /\ v.at = "order" => OrderKnows(v)
    /\ v.at = "rated" => v.choice = "shipping"

\* The inductive invariant: only what has been validated is stored, carts are
\* finite, and each visit knows what it has decided.
QuoteInv ==
    /\ stored \in {NoDocument, Corrupt} \cup {Saved(doc) : doc \in ValidDrafts}
    /\ catalog \in Catalogs
    /\ DOMAIN cart = Shoppers /\ \A s \in Shoppers : CartKnows(cart[s])
    /\ DOMAIN visit = Shoppers /\ \A s \in Shoppers : VisitKnows(visit[s])

LEMMA QuoteInvInit == QuoteInit => QuoteInv
<1> SUFFICES ASSUME QuoteInit PROVE QuoteInv
  OBVIOUS
<1>1. ASSUME NEW s \in Shoppers PROVE CartKnows(cart[s])
  <2>1. cart[s] = [k \in {} |-> 0]
    BY DEF QuoteInit, NoCart
  <2> QED
    BY <2>1, FS_EmptySet DEF CartKnows
<1>2. ASSUME NEW s \in Shoppers PROVE VisitKnows(visit[s])
  BY DEF QuoteInit, Idle, VisitKnows
<1> QED
  BY <1>1, <1>2 DEF QuoteInit, QuoteInv

LEMMA QuoteTypes == QuoteInv => QuoteTypeOK
<1> SUFFICES ASSUME QuoteInv PROVE QuoteTypeOK
  OBVIOUS
<1>1. stored \in {NoDocument, Corrupt} \cup {Saved(doc) : doc \in Drafts}
  BY DEF QuoteInv, ValidDrafts
<1>2. ASSUME NEW s \in Shoppers
      PROVE  cart[s] \in UNION {[K -> 1 .. MaxQty] : K \in SUBSET Keys}
  BY DEF QuoteInv, CartKnows
<1>3. ASSUME NEW s \in Shoppers
      PROVE  visit[s].at \in {"idle", "address", "choice", "deal", "order", "rated"}
  BY DEF QuoteInv, VisitKnows
<1> QED
  BY <1>1, <1>2, <1>3 DEF QuoteInv, QuoteTypeOK

-----------------------------------------------------------------------------
(* Quotes: baskets *)

\* What a function makes of a finite set is finite.
LEMMA ImageIsFinite ==
    ASSUME NEW S, IsFiniteSet(S), NEW f
    PROVE  IsFiniteSet({f[x] : x \in S})
<1> DEFINE T == {f[x] : x \in S}
           g == [x \in S |-> f[x]]
<1>1. g \in Surjection(S, T)
  BY DEF Surjection
<1> HIDE DEF g, T
<1>2. IsFiniteSet(T)
  BY <1>1, FS_Surjection
<1> QED
  BY <1>2 DEF T

LEMMA CartIsBasket ==
    ASSUME QuoteInv, NEW s \in Shoppers
    PROVE  Basket(ResolveCart(s)) /\ AllThere(ResolveCart(s))
<1> DEFINE S == {k \in DOMAIN cart[s] :
                   /\ catalog.item[k[1]].active
                   /\ k[2] = None \/ (catalog.option[k[2]] # Gone /\ VariantOf[k[2]] = k[1])}
           f == [k \in S |-> Line(k[1], k[2], cart[s][k])]
<1>1. CartKnows(cart[s])
  BY DEF QuoteInv
<1>2. IsFiniteSet(S)
  BY <1>1, FS_Subset DEF CartKnows
<1>3. ResolveCart(s) = {f[k] : k \in S}
  BY DEF ResolveCart
<1>4. IsFiniteSet(ResolveCart(s))
  <2> HIDE DEF S, f
  <2> QED BY <1>2, <1>3, ImageIsFinite
<1>5. ASSUME NEW l \in ResolveCart(s)
      PROVE  /\ l \in LineTypes /\ l.carried = l.variant
             /\ l.variant # None => catalog.option[l.variant] # Gone
  <2>1. PICK k \in S : l = Line(k[1], k[2], cart[s][k])
    BY DEF ResolveCart
  <2>2. k \in Keys /\ cart[s][k] \in 1 .. MaxQty
    BY <1>1 DEF CartKnows
  <2> QED
    BY <2>1, <2>2 DEF Line, LineTypes, Keys
<1> QED
  BY <1>4, <1>5 DEF Basket, AllThere

LEMMA BuyNowIsBasket ==
    ASSUME QuoteInv, NEW lines \in BuyNow
    PROVE  Basket(lines) /\ AllThere(lines)
<1>1. PICK k \in Addable : lines = {Line(k[1], k[2], 1)}
  BY DEF BuyNow
<1>2. k \in Keys /\ (k[2] # None => catalog.option[k[2]] # Gone)
  BY DEF Addable, Choosable
<1>3. IsFiniteSet(lines)
  BY <1>1, FS_Singleton
<1>4. 1 \in 1 .. MaxQty
  BY QuoteAssumption
<1> QED
  BY <1>1, <1>2, <1>3, <1>4 DEF Basket, AllThere, Line, LineTypes, Keys

LEMMA ResolvedIsBasket ==
    ASSUME QuoteInv, NEW s \in Shoppers, NEW lines \in Resolved(s)
    PROVE  Basket(lines) /\ AllThere(lines)
  BY CartIsBasket, BuyNowIsBasket DEF Resolved

\* On the in-app page a variant that is gone is forgotten.
LEMMA RereadIsBasket ==
    ASSUME QuoteInv, NEW s \in Shoppers, visit[s].at \in {"address", "choice"},
           NEW lines \in Reread(s)
    PROVE  Basket(lines) /\ AllThere(lines)
<1> DEFINE v == visit[s].lines
           S == {l \in v : catalog.item[l.product].active}
           f == [l \in S |-> IF l.variant # None /\ catalog.option[l.variant] = Gone
                             THEN Line(l.product, None, l.qty) ELSE l]
<1>1. Basket(v)
  BY DEF QuoteInv, VisitKnows
<1>2. IsFiniteSet(S)
  BY <1>1, FS_Subset DEF Basket
<1>3. Forgotten(v) = {f[l] : l \in S}
  BY DEF Forgotten
<1>4. IsFiniteSet(Forgotten(v))
  <2> HIDE DEF S, f
  <2> QED BY <1>2, <1>3, ImageIsFinite
<1>5. ASSUME NEW l \in Forgotten(v)
      PROVE  /\ l \in LineTypes /\ l.carried = l.variant
             /\ l.variant # None => catalog.option[l.variant] # Gone
  <2>1. PICK m \in v : l = IF m.variant # None /\ catalog.option[m.variant] = Gone
                           THEN Line(m.product, None, m.qty) ELSE m
    BY DEF Forgotten
  <2>2. m \in LineTypes /\ m.carried = m.variant
    BY <1>1 DEF Basket
  <2> QED
    BY <2>1, <2>2 DEF Line, LineTypes
<1>6. Basket(Forgotten(v)) /\ AllThere(Forgotten(v))
  BY <1>4, <1>5 DEF Basket, AllThere
<1> QED
  BY <1>6, CartIsBasket DEF Reread

-----------------------------------------------------------------------------
(* Quotes: the steps *)

\* A step of one shopper in the shop.
LEMMA VisitStep ==
    ASSUME QuoteInv, NEW s \in Shoppers, NEW v, VisitKnows(v),
           visit' = [visit EXCEPT ![s] = v], UNCHANGED <<stored, catalog, cart>>
    PROVE  QuoteInv'
<1>1. DOMAIN visit' = Shoppers /\ \A x \in Shoppers : VisitKnows(visit'[x])
  BY DEF QuoteInv
<1> QED
  BY <1>1 DEF QuoteInv

\* A step of one shopper's cart.
LEMMA CartStep ==
    ASSUME QuoteInv, NEW s \in Shoppers, NEW c, CartKnows(c), Keep(s, c)
    PROVE  QuoteInv'
<1>1. DOMAIN cart' = Shoppers /\ \A x \in Shoppers : CartKnows(cart'[x])
  BY DEF QuoteInv, Keep
<1>2. UNCHANGED <<stored, catalog, visit>>
  BY DEF Keep
<1> QED
  BY <1>1, <1>2 DEF QuoteInv

LEMMA WithLineKnows ==
    ASSUME QuoteInv, NEW s \in Shoppers, NEW key \in Keys, NEW qty \in Nat \ {0}
    PROVE  CartKnows(WithLine(s, key, qty))
<1>1. CartKnows(cart[s])
  BY DEF QuoteInv
<1>2. IsFiniteSet(DOMAIN cart[s] \cup {key})
  BY <1>1, FS_AddElement DEF CartKnows
<1>3. \A k \in DOMAIN cart[s] : cart[s][k] \in 1 .. MaxQty
  BY <1>1 DEF CartKnows
<1>4. WithLine(s, key, qty) \in [DOMAIN cart[s] \cup {key} -> 1 .. MaxQty]
  BY <1>3, QuoteAssumption DEF WithLine
<1>5. DOMAIN WithLine(s, key, qty) = DOMAIN cart[s] \cup {key}
  BY DEF WithLine
<1> QED
  BY <1>1, <1>2, <1>4, <1>5 DEF CartKnows

LEMMA CartsStep ==
    ASSUME QuoteInv, NEW s \in Shoppers,
           AddToCart(s) \/ UpdateLine(s) \/ RemoveLine(s) \/ ClearCart(s)
    PROVE  QuoteInv'
<1>1. CartKnows(cart[s])
  BY DEF QuoteInv
<1>2. CASE AddToCart(s)
  <2>1. PICK key \in Addable : Keep(s, WithLine(s, key, Quantity(s, key) + 1))
    BY <1>2 DEF AddToCart
  <2>2. key \in Keys
    BY DEF Addable
  <2>3. Quantity(s, key) + 1 \in Nat \ {0}
    BY <1>1, QuoteAssumption DEF Quantity, CartKnows
  <2> QED
    BY <2>1, <2>2, <2>3, WithLineKnows, CartStep
<1>3. CASE UpdateLine(s)
  <2>1. PICK key \in Keys, qty \in 1 .. MaxQty + 1 : Keep(s, WithLine(s, key, qty))
    BY <1>3 DEF UpdateLine
  <2>2. qty \in Nat \ {0}
    BY QuoteAssumption
  <2> QED
    BY <2>1, <2>2, WithLineKnows, CartStep
<1>4. CASE RemoveLine(s)
  <2>1. PICK key \in Keys : Keep(s, Restrict(cart[s], DOMAIN cart[s] \ {key}))
    BY <1>4 DEF RemoveLine
  <2> DEFINE c == Restrict(cart[s], DOMAIN cart[s] \ {key})
  <2>2. DOMAIN c = DOMAIN cart[s] \ {key} /\ c \in [DOMAIN cart[s] \ {key} -> 1 .. MaxQty]
    BY <1>1 DEF Restrict, CartKnows
  <2>3. IsFiniteSet(DOMAIN cart[s] \ {key})
    BY <1>1, FS_RemoveElement DEF CartKnows
  <2>4. CartKnows(c)
    BY <1>1, <2>2, <2>3 DEF CartKnows
  <2> QED
    BY <2>1, <2>4, CartStep
<1>5. CASE ClearCart(s)
  <2>1. CartKnows(NoCart)
    BY FS_EmptySet DEF NoCart, CartKnows
  <2> QED
    BY <1>5, <2>1, CartStep DEF ClearCart
<1> QED
  BY <1>2, <1>3, <1>4, <1>5

LEMMA HandOverStep ==
    ASSUME QuoteInv, NEW s \in Shoppers, NEW path \in {"json", "in_app"},
           NEW lines, NEW country, NEW option,
           HandOver(s, path, lines, country, option), UNCHANGED <<stored, catalog, cart>>
    PROVE  QuoteInv'
<1> DEFINE v == [Deal(path, lines, country, {option}) EXCEPT !.delivery = Stamp(option)]
<1>1. v.at = "deal" /\ v.path = path /\ v.options = {option} /\ v.delivery = Stamp(option)
  BY DEF Deal
<1>2. visit' = [visit EXCEPT ![s] = v]
  BY DEF HandOver
<1> HIDE DEF v
<1>3. VisitKnows(v)
  BY <1>1 DEF VisitKnows, DealKnows
<1> QED
  BY <1>2, <1>3, VisitStep

LEMMA SessionStep ==
    ASSUME QuoteInv, NEW s \in Shoppers, NEW path \in {"card", "api"}, NEW lines, NEW priced,
           OpenSession(s, path, lines, priced)
    PROVE  QuoteInv'
<1>1. PICK country \in Destinations :
        /\ visit' = [visit EXCEPT
              ![s] = Deal(path, lines, country, OptionsOf(Quote(priced, country)))]
        /\ UNCHANGED <<stored, catalog, cart>>
  BY DEF OpenSession
<1>2. VisitKnows(Deal(path, lines, country, OptionsOf(Quote(priced, country))))
  BY DEF VisitKnows, DealKnows, Deal
<1> QED
  BY <1>1, <1>2, VisitStep

LEMMA SettleStep ==
    ASSUME QuoteInv, NEW s \in Shoppers, SettleHosted(s) \/ SettlePending(s)
    PROVE  QuoteInv'
<1>1. visit[s].at = "deal" /\ DealKnows(visit[s])
  BY DEF QuoteInv, VisitKnows, SettleHosted, SettlePending
<1>2. CASE SettleHosted(s)
  <2>1. PICK option \in visit[s].options : \E stamp \in {Stamp(option), None} :
          visit' = [visit EXCEPT ![s] = Order(s, Stamp(option), ClassifyRateDelivery(stamp))]
    BY <1>2 DEF SettleHosted
  <2>2. PICK stamp \in {Stamp(option), None} :
          visit' = [visit EXCEPT ![s] = Order(s, Stamp(option), ClassifyRateDelivery(stamp))]
    BY <2>1
  <2>3. ClassifyRateDelivery(stamp) = "shipping" => Stamp(option) = "shipping"
    BY RatesAssumption DEF ClassifyRateDelivery
  <2>4. VisitKnows(Order(s, Stamp(option), ClassifyRateDelivery(stamp)))
    BY <1>2, <2>3 DEF VisitKnows, OrderKnows, Order, SettleHosted
  <2> QED
    BY <1>2, <2>2, <2>4, VisitStep DEF SettleHosted
<1>3. CASE SettlePending(s)
  <2> DEFINE choices == {Stamp(option) : option \in visit[s].options}
  <2>1. PICK choice \in IF choices = {} THEN {None} ELSE choices :
          visit' = [visit EXCEPT ![s] = Order(s, choice, visit[s].delivery)]
    BY <1>3 DEF SettlePending
  <2>2. ASSUME visit[s].path \in {"json", "in_app"}
        PROVE  VisitKnows(Order(s, choice, visit[s].delivery))
    <3>1. PICK option : visit[s].options = {option} /\ visit[s].delivery = Stamp(option)
      BY <1>1, <2>2 DEF DealKnows
    <3>2. choice = visit[s].delivery
      BY <3>1
    <3> QED
      BY <3>2 DEF VisitKnows, OrderKnows, Order
  <2>3. ASSUME visit[s].path = "unshipped"
        PROVE  VisitKnows(Order(s, choice, visit[s].delivery))
    <3>1. visit[s].delivery = None
      BY <1>1, <2>3 DEF DealKnows
    <3> QED
      BY <2>3, <3>1, RatesAssumption DEF VisitKnows, OrderKnows, Order
  <2> QED
    BY <1>3, <2>1, <2>2, <2>3, VisitStep DEF SettlePending
<1> QED
  BY <1>2, <1>3

LEMMA InAppStep ==
    ASSUME QuoteInv, NEW s \in Shoppers,
           ShowOptions(s) \/ ChooseOption(s) \/ OrderDemo(s) \/ ShipTo(s)
    PROVE  QuoteInv'
<1>1. CASE ShowOptions(s)
  <2>1. PICK lines \in Reread(s), country \in Countries :
          visit' = [visit EXCEPT
              ![s] = [at |-> "choice", now |-> visit[s].now, lines |-> lines,
                      country |-> country,
                      labels |-> {o.label : o \in OptionsOf(Quote(lines, country))}]]
    BY <1>1 DEF ShowOptions
  <2> DEFINE v == [at |-> "choice", now |-> visit[s].now, lines |-> lines,
                   country |-> country,
                   labels |-> {o.label : o \in OptionsOf(Quote(lines, country))}]
  <2>2. Basket(lines)
    BY <1>1, RereadIsBasket DEF ShowOptions
  <2>3. v.at = "choice" /\ v.lines = lines
    OBVIOUS
  <2> HIDE DEF v
  <2>4. VisitKnows(v)
    BY <2>2, <2>3 DEF VisitKnows
  <2> QED
    BY <1>1, <2>1, <2>4, VisitStep DEF ShowOptions, v
<1>2. CASE ChooseOption(s)
  BY <1>2, HandOverStep DEF ChooseOption
<1>3. CASE OrderDemo(s)
  BY <1>3, HandOverStep DEF OrderDemo
<1>4. CASE ShipTo(s)
  BY <1>4, HandOverStep DEF ShipTo
<1> QED
  BY <1>1, <1>2, <1>3, <1>4

LEMMA AddressStep ==
    ASSUME QuoteInv, NEW s \in Shoppers, GoToCheckout(s)
    PROVE  QuoteInv'
<1>1. PICK lines \in Resolved(s) : \E now \in BOOLEAN :
        visit' = [visit EXCEPT ![s] = [at |-> "address", now |-> now, lines |-> lines]]
  BY DEF GoToCheckout
<1>2. PICK now \in BOOLEAN :
        visit' = [visit EXCEPT ![s] = [at |-> "address", now |-> now, lines |-> lines]]
  BY <1>1
<1>3. VisitKnows([at |-> "address", now |-> now, lines |-> lines])
  BY ResolvedIsBasket DEF VisitKnows
<1> QED
  BY <1>2, <1>3, VisitStep DEF GoToCheckout

LEMMA OtherVisits ==
    ASSUME QuoteInv, NEW s \in Shoppers,
           OrderUnshipped(s) \/ FetchLabelRates(s) \/ Leave(s)
    PROVE  QuoteInv'
<1>1. CASE OrderUnshipped(s)
  <2>1. PICK lines \in Resolved(s) :
          visit' = [visit EXCEPT ![s] = Deal("unshipped", lines, None, {})]
    BY <1>1 DEF OrderUnshipped
  <2>2. VisitKnows(Deal("unshipped", lines, None, {}))
    BY DEF VisitKnows, DealKnows, Deal
  <2> QED
    BY <1>1, <2>1, <2>2, VisitStep DEF OrderUnshipped
<1>2. CASE FetchLabelRates(s)
  <2>1. visit[s].choice = "shipping"
    BY <1>2 DEF FetchLabelRates, QuoteInv, VisitKnows, OrderKnows
  <2>2. VisitKnows([at |-> "rated", choice |-> visit[s].choice])
    BY <2>1 DEF VisitKnows
  <2> QED
    BY <1>2, <2>2, VisitStep DEF FetchLabelRates
<1>3. CASE Leave(s)
  <2>1. VisitKnows(Idle)
    BY DEF VisitKnows, Idle
  <2> QED
    BY <1>3, <2>1, VisitStep DEF Leave
<1> QED
  BY <1>1, <1>2, <1>3

LEMMA AdminStep ==
    ASSUME QuoteInv,
           \/ \E doc \in Drafts : SaveDocument(doc)
           \/ SpoilDocument
           \/ \E p \in Products : EditProduct(p)
           \/ \E v \in Variants : EditVariant(v)
    PROVE  QuoteInv'
<1>1. ASSUME NEW doc \in Drafts, SaveDocument(doc) PROVE QuoteInv'
  BY <1>1 DEF SaveDocument, QuoteInv, ValidDrafts
<1>2. CASE SpoilDocument
  BY <1>2 DEF SpoilDocument, QuoteInv
<1>3. ASSUME NEW p \in Products, EditProduct(p) PROVE QuoteInv'
  <2>1. catalog' \in Catalogs
    BY <1>3 DEF EditProduct, QuoteInv, Catalogs
  <2> QED
    BY <1>3, <2>1 DEF EditProduct, QuoteInv
<1>4. ASSUME NEW v \in Variants, EditVariant(v) PROVE QuoteInv'
  <2>1. catalog' \in Catalogs
    BY <1>4 DEF EditVariant, QuoteInv, Catalogs
  <2> QED
    BY <1>4, <2>1 DEF EditVariant, QuoteInv
<1> QED
  BY <1>1, <1>2, <1>3, <1>4

LEMMA QuoteInvStep == QuoteInv /\ [QuoteNext]_quoteVars => QuoteInv'
<1> SUFFICES ASSUME QuoteInv, [QuoteNext]_quoteVars PROVE QuoteInv'
  OBVIOUS
<1>1. ASSUME NEW s \in Shoppers, Shop(s) PROVE QuoteInv'
  BY <1>1, CartsStep, SessionStep, SettleStep, InAppStep, AddressStep, OtherVisits
     DEF Shop, PayByCard, PayByCardViaApi
<1>2. CASE UNCHANGED quoteVars
  BY <1>2 DEF quoteVars, QuoteInv
<1> QED
  BY <1>1, <1>2, AdminStep DEF QuoteNext

\* The types of the store, the carts and the visits, at every step.
THEOREM QuoteTypeCorrect == QuoteSpec => []QuoteTypeOK
  BY QuoteInvInit, QuoteInvStep, QuoteTypes, PTL DEF QuoteSpec

\* No label is bought for a parcel that its buyer collects, or for no parcel at all,
\* whatever becomes of the rate between the quote and the order (classifyRateDelivery,
\* the pending payment's delivery and the label_rates guard).
THEOREM PickupIsNeverShipped == QuoteSpec => []PickupIsNeverLabelled
<1>1. QuoteInv => PickupIsNeverLabelled
  BY DEF QuoteInv, VisitKnows, OrderKnows, PickupIsNeverLabelled
<1> QED
  BY <1>1, QuoteInvInit, QuoteInvStep, PTL DEF QuoteSpec

-----------------------------------------------------------------------------
(* Quotes: what is offered *)

\* Whatever is stored, what is in effect has zones that validation has let pass.
LEMMA ConfigIsValid ==
    ASSUME QuoteInv
    PROVE  /\ Config \in Documents
           /\ \A z \in DOMAIN Config.zones : \E b \in BOOLEAN : ValidZone(Config.zones[z], b)
<1>1. Closed \in Documents /\ DOMAIN Closed.zones = {}
  BY DEF Closed, Documents
<1>2. BuildTime \in Documents
  BY RatesAssumption
<1>3. CASE stored.kind = "valid"
  <2>1. stored.doc \in ValidDrafts
    BY <1>3 DEF QuoteInv, NoDocument, Corrupt, Saved
  <2>2. Config = stored.doc /\ stored.doc \in Documents
    BY <1>3, <2>1, DraftsAssumption DEF Config, Effective, ValidDrafts
  <2> QED
    BY <2>1, <2>2 DEF ValidDrafts, ValidateShippingDocument, ValidDocument
<1>4. CASE stored.kind = "invalid"
  <2>1. Config = Closed
    BY <1>4 DEF Config, Effective
  <2> QED
    BY <1>1, <2>1
<1>5. CASE stored.kind = "absent"
  <2>1. CASE ~ValidBuildTime
    BY <1>1, <1>5, <2>1 DEF Config, Effective
  <2>2. CASE ValidBuildTime
    <3>1. \A z \in DOMAIN BuildTime.zones : \E b \in BOOLEAN : ValidZone(BuildTime.zones[z], b)
      <4>1. CASE BuildTime.zones = <<>>
        BY <4>1
      <4>2. CASE ValidDocument(BuildTime, TRUE)
        <5>1. \A z \in DOMAIN BuildTime.zones : ValidZone(BuildTime.zones[z], TRUE)
          BY <4>2 DEF ValidDocument
        <5> QED
          BY <5>1
      <4> QED
        BY <2>2, <4>1, <4>2 DEF ValidBuildTime
    <3>2. Config = IF LegacyEnabled = None THEN BuildTime
                   ELSE [BuildTime EXCEPT !.enabled = LegacyEnabled]
      BY <1>5, <2>2 DEF Config, Effective
    <3>3. LegacyEnabled # None =>
            /\ [BuildTime EXCEPT !.enabled = LegacyEnabled] \in Documents
            /\ [BuildTime EXCEPT !.enabled = LegacyEnabled].zones = BuildTime.zones
      BY <1>2, RatesAssumption DEF Documents
    <3>4. Config \in Documents /\ Config.zones = BuildTime.zones
      BY <1>2, <3>2, <3>3
    <3> QED
      BY <3>1, <3>4
  <2> QED
    BY <2>1, <2>2
<1> QED
  BY <1>3, <1>4, <1>5 DEF QuoteInv, NoDocument, Corrupt, Saved

\* The first of some indices is one of them, and none comes before it.
LEMMA FirstIsLeast ==
    ASSUME NEW n \in Nat, NEW S \in SUBSET (0 .. n), S # {}
    PROVE  First(S) \in S /\ \A j \in S : First(S) <= j
<1> DEFINE R == {x \in S \X S : x[1] < x[2]}
<1>1. IsFiniteSet(0 .. n)
  BY FS_Interval
<1>2. IsFiniteSet(S)
  BY <1>1, FS_Subset
<1>3. /\ \A i \in S : <<i, i>> \notin R
      /\ \A i, j, k \in S : <<i, j>> \in R /\ <<j, k>> \in R => <<i, k>> \in R
  OBVIOUS
<1>4. \E j \in S : \A k \in S : <<k, j>> \notin R
  <2> HIDE DEF R
  <2> QED BY <1>2, <1>3, Minimal
<1>5. \E i \in S : \A j \in S : i <= j
  <2>1. PICK j \in S : \A k \in S : <<k, j>> \notin R
    BY <1>4
  <2>2. ASSUME NEW k \in S PROVE j <= k
    <3>1. <<k, j>> \notin R
      BY <2>1
    <3>2. ~(k < j)
      BY <3>1
    <3> QED
      BY <3>2
  <2> QED
    BY <2>2
<1> QED
  BY <1>5 DEF First

ZoneOf(country) == ZoneFor(country, Config.zones)

\* The zone that prices a country is one that serves it.
LEMMA ZoneServes ==
    ASSUME QuoteInv, NEW country, ZoneOf(country) # 0
    PROVE  /\ ZoneOf(country) \in DOMAIN Config.zones
           /\ Serves(Config.zones[ZoneOf(country)], country)
<1> DEFINE zones == Config.zones
           Listing(code) == {i \in DOMAIN zones : code \in zones[i].countries}
<1>1. zones \in Seq(Zones) /\ DOMAIN zones = 1 .. Len(zones) /\ Len(zones) \in Nat
  BY ConfigIsValid DEF Documents
<1>2. \A code : Listing(code) # {} => First(Listing(code)) \in Listing(code)
  <2> SUFFICES ASSUME NEW code, Listing(code) # {} PROVE First(Listing(code)) \in Listing(code)
    OBVIOUS
  <2>1. Listing(code) \in SUBSET (0 .. Len(zones))
    BY <1>1
  <2> HIDE DEF Listing
  <2> QED
    BY <1>1, <2>1, FirstIsLeast
<1>3. CASE Listing(country) # {}
  <2>1. ZoneOf(country) = First(Listing(country))
    BY <1>3 DEF ZoneOf, ZoneFor
  <2> QED
    BY <1>2, <1>3, <2>1 DEF Serves
<1>4. CASE Listing(country) = {}
  <2>1. /\ Listing(RestOfWorld) # {}
        /\ ZoneOf(country) = First(Listing(RestOfWorld))
    BY <1>4 DEF ZoneOf, ZoneFor
  <2>2. country \notin AllowedCountries(Config)
    BY <1>4 DEF AllowedCountries
  <2>3. First(Listing(RestOfWorld)) \in Listing(RestOfWorld)
    BY <1>2, <2>1
  <2> QED
    BY <2>1, <2>2, <2>3 DEF Serves
<1> QED
  BY <1>3, <1>4

Weight(lines) ==
    IF ItemWeight(catalog, lines) = None THEN None
    ELSE Config.package + ItemWeight(catalog, lines)

RatesFor(country) == Config.zones[ZoneOf(country)].rates

\* A quote, rate by rate.
LEMMA QuoteIs ==
    ASSUME QuoteInv, NEW lines, NEW country
    PROVE  LET z == ZoneOf(country)
               rates == RatesFor(country)
               free == Config.zones[z].free
               q == Quote(lines, country)
           IN /\ z = 0 => DOMAIN q.options = {} /\ ~q.unweighed
              /\ z # 0 =>
                  /\ z \in DOMAIN Config.zones /\ Config.zones[z] \in Zones
                  /\ \E b \in BOOLEAN : ValidZone(Config.zones[z], b)
                  /\ DOMAIN rates = 1 .. Len(rates) /\ Len(rates) \in Nat
                  /\ \A i \in DOMAIN rates : rates[i] \in RateTypes
                  /\ \A i \in DOMAIN q.options :
                      \/ /\ i = 0 /\ q.options[i] = FreeOption
                         /\ free # None /\ Subtotal(lines) >= free
                      \/ /\ i \in DOMAIN rates /\ ~Omitted(rates[i], Weight(lines))
                         /\ q.options[i] = OptionOf(rates[i], Weight(lines))
                  /\ \A i \in DOMAIN rates :
                        ~Omitted(rates[i], Weight(lines)) => i \in DOMAIN q.options
                  /\ q.unweighed => /\ Weight(lines) = None
                                    /\ \E i \in DOMAIN rates : rates[i].mode = "weight"
<1> DEFINE z == ZoneOf(country)
           rates == RatesFor(country)
           free == Config.zones[z].free
           q == Quote(lines, country)
           w == Weight(lines)
           offered == {i \in DOMAIN rates : ~Omitted(rates[i], w)}
<1>1. CASE z = 0
  <2>1. q = NoQuote
    BY <1>1 DEF Quote, QuoteShipping, ZoneOf
  <2>2. DOMAIN q.options = {} /\ ~q.unweighed
    BY <2>1 DEF NoQuote
  <2> QED
    BY <1>1, <2>2
<1>2. CASE z # 0
  <2>1. z \in DOMAIN Config.zones /\ \E b \in BOOLEAN : ValidZone(Config.zones[z], b)
    BY <1>2, ZoneServes, ConfigIsValid
  <2>2. Config.zones \in Seq(Zones)
    BY ConfigIsValid DEF Documents
  <2>3. Config.zones[z] \in Zones
    BY <2>1, <2>2
  <2>4. rates \in Seq(RateTypes)
    BY <2>3 DEF Zones, RatesFor
  <2>5. /\ DOMAIN rates = 1 .. Len(rates) /\ Len(rates) \in Nat
        /\ \A i \in DOMAIN rates : rates[i] \in RateTypes
    BY <2>4
  <2>6. PICK F \in BOOLEAN :
          /\ F => free # None /\ Subtotal(lines) >= free
          /\ q.options = [i \in offered \cup (IF F THEN {0} ELSE {}) |->
                             IF i = 0 THEN FreeOption ELSE OptionOf(rates[i], w)]
          /\ q.unweighed <=> \E i \in DOMAIN rates : rates[i].mode = "weight" /\ w = None
    <3> DEFINE G == /\ free # None /\ Subtotal(lines) >= free
                    /\ rates = <<>> \/ \E i \in offered : rates[i].mode # "pickup"
    <3>1. q = [options |-> [i \in offered \cup (IF G THEN {0} ELSE {}) |->
                              IF i = 0 THEN FreeOption ELSE OptionOf(rates[i], w)],
               unweighed |-> \E i \in DOMAIN rates : rates[i].mode = "weight" /\ w = None]
      BY <1>2 DEF Quote, QuoteShipping, ZoneOf, RatesFor, Weight
    <3>2. G \in BOOLEAN
      OBVIOUS
    <3>3. G => free # None /\ Subtotal(lines) >= free
      OBVIOUS
    <3> HIDE DEF G, q, offered, w, free
    <3> QED
      BY <3>1, <3>2, <3>3
  <2>7. /\ DOMAIN q.options = offered \cup (IF F THEN {0} ELSE {})
        /\ \A i \in DOMAIN q.options :
              q.options[i] = IF i = 0 THEN FreeOption ELSE OptionOf(rates[i], w)
    <3> HIDE DEF q, offered, w
    <3> QED BY <2>6
  <2>8. 0 \notin DOMAIN rates
    BY <2>5
  <2> HIDE DEF q, w, rates, z
  <2>9. \A i \in DOMAIN q.options :
          \/ i = 0 /\ q.options[i] = FreeOption /\ free # None /\ Subtotal(lines) >= free
          \/ /\ i \in DOMAIN rates /\ ~Omitted(rates[i], w)
             /\ q.options[i] = OptionOf(rates[i], w)
    BY <2>6, <2>7, <2>8
  <2> QED
    BY <1>2, <2>1, <2>3, <2>5, <2>6, <2>7, <2>9 DEF q, w, rates, z
<1> QED
  BY <1>1, <1>2

\* An option is known by its label, and there are at most so many.
LEMMA OptionsAreFew ==
    ASSUME QuoteInv, NEW lines, NEW country
    PROVE  LET options == Quote(lines, country).options IN
           /\ Cardinality(DOMAIN options) <= MaxOptions
           /\ \A i, j \in DOMAIN options : options[i].label = options[j].label => i = j
<1> DEFINE z == ZoneOf(country)
           rates == RatesFor(country)
           free == Config.zones[z].free
           o == Quote(lines, country).options
           w == Weight(lines)
           few == Cardinality(DOMAIN o) <= MaxOptions
           distinct == \A i, j \in DOMAIN o : o[i].label = o[j].label => i = j
<1>1. CASE z = 0
  <2>1. DOMAIN o = {}
    BY <1>1, QuoteIs
  <2>2. Cardinality(DOMAIN o) = 0
    BY <2>1, FS_EmptySet
  <2>3. few
    BY <2>2, RatesAssumption
  <2>4. distinct
    BY <2>1
  <2> QED
    BY <2>3, <2>4
<1>2. CASE z # 0
  <2>1. /\ DOMAIN rates = 1 .. Len(rates) /\ Len(rates) \in Nat
        /\ \A i \in DOMAIN rates : rates[i] \in RateTypes
        /\ \A i \in DOMAIN o :
            \/ i = 0 /\ o[i] = FreeOption /\ free # None
            \/ i \in DOMAIN rates /\ o[i] = OptionOf(rates[i], w)
    BY <1>2, QuoteIs
  <2>2. /\ Len(rates) + (IF free # None THEN 1 ELSE 0) <= MaxOptions
        /\ \A i \in DOMAIN rates :
            /\ free # None => rates[i].label # FreeShipping
            /\ \A j \in DOMAIN rates : i # j => rates[i].label # rates[j].label
    <3>1. PICK b \in BOOLEAN : ValidZone(Config.zones[z], b)
      BY <1>2, QuoteIs
    <3>2. ValidLabels(Config.zones[z])
      BY <3>1 DEF ValidZone
    <3>3. Len(rates) + (IF free # None THEN 1 ELSE 0) <= MaxOptions
      BY <3>1 DEF ValidZone, RatesFor
    <3>4. \A i \in DOMAIN rates :
            /\ free # None => rates[i].label # FreeShipping
            /\ \A j \in DOMAIN rates : i # j => rates[i].label # rates[j].label
      BY <3>2 DEF ValidLabels, RatesFor
    <3> QED
      BY <3>3, <3>4
  <2> HIDE DEF o, rates, w, free
  <2>3. \A i \in DOMAIN o :
          \/ i = 0 /\ o[i].label = FreeShipping /\ free # None
          \/ i \in DOMAIN rates /\ o[i].label = rates[i].label
    BY <2>1 DEF FreeOption, OptionOf
  <2>4. distinct
    BY <2>2, <2>3
  <2>5. /\ IsFiniteSet(1 .. Len(rates))
        /\ Cardinality(1 .. Len(rates)) = Len(rates)
    BY <2>1, FS_Interval
  <2>6. CASE free = None
    <3>1. DOMAIN o \subseteq 1 .. Len(rates)
      BY <2>1, <2>6
    <3>2. Cardinality(DOMAIN o) <= Len(rates)
      BY <2>5, <3>1, FS_Subset
    <3>3. IsFiniteSet(DOMAIN o)
      BY <2>5, <3>1, FS_Subset
    <3>4. Cardinality(DOMAIN o) \in Nat
      BY <3>3, FS_CardinalityType
    <3> QED
      BY <2>1, <2>2, <2>4, <2>6, <3>2, <3>4, RatesAssumption DEF o
  <2>7. CASE free # None
    <3> DEFINE all == (1 .. Len(rates)) \cup {0}
    <3>1. DOMAIN o \subseteq all
      BY <2>1
    <3>2. 0 \notin 1 .. Len(rates)
      BY <2>1
    <3>3. IsFiniteSet(all) /\ Cardinality(all) = Len(rates) + 1
      BY <2>5, <3>2, FS_AddElement
    <3> HIDE DEF all
    <3>4. IsFiniteSet(DOMAIN o) /\ Cardinality(DOMAIN o) <= Len(rates) + 1
      BY <3>1, <3>3, FS_Subset
    <3>5. Cardinality(DOMAIN o) \in Nat
      BY <3>4, FS_CardinalityType
    <3> QED
      BY <2>1, <2>2, <2>4, <2>7, <3>4, <3>5, RatesAssumption DEF o
  <2> QED
    BY <2>6, <2>7
<1> QED
  BY <1>1, <1>2

\* The chosen option is known by its label alone, and the card page takes only so many:
\* whatever may be saved, no basket is offered more, or one label twice (the limits of
\* validateShippingDocument against the options of quoteShipping).
THEOREM LabelsNameOneOption == QuoteSpec => []ChoiceIsUnambiguous
<1>1. QuoteInv => ChoiceIsUnambiguous
  BY OptionsAreFew DEF ChoiceIsUnambiguous
<1> QED
  BY <1>1, QuoteInvInit, QuoteInvStep, PTL DEF QuoteSpec

-----------------------------------------------------------------------------
(* Quotes: weights *)

LEMMA UnitWeightIs ==
    ASSUME QuoteInv, NEW lines, Basket(lines), AllThere(lines), NEW l \in lines
    PROVE  /\ l.product \in Products /\ l.qty \in Nat
           /\ catalog.item[l.product] \in Items
           /\ UnitWeight(catalog, l) \in Nat \cup {None}
           /\ UnitWeight(catalog, l) =
                IF l.variant # None /\ catalog.option[l.variant] # None
                THEN catalog.option[l.variant] ELSE catalog.item[l.product].weight
<1>1. /\ l.product \in Products /\ l.variant \in Variants \cup {None}
      /\ l.carried = l.variant /\ l.qty \in Nat
  BY QuoteAssumption DEF Basket, LineTypes
<1>2. /\ catalog.item[l.product] \in Items
      /\ l.variant # None => catalog.option[l.variant] \in (Weights \cup {None, Gone}) \ {Gone}
  BY <1>1 DEF QuoteInv, Catalogs, AllThere
<1>3. catalog.item[l.product].weight \in Nat \cup {None}
  BY <1>2, DraftsAssumption DEF Items
<1>4. UnitWeight(catalog, l) =
        IF l.variant # None /\ catalog.option[l.variant] # None
        THEN catalog.option[l.variant] ELSE catalog.item[l.product].weight
  BY <1>1, <1>2 DEF UnitWeight
<1> QED
  BY <1>1, <1>2, <1>3, <1>4, DraftsAssumption

\* The shipment has a weight unless one of its lines has none, and that is what the
\* scale says.
LEMMA ScaleIs ==
    ASSUME QuoteInv, NEW lines, Basket(lines), AllThere(lines)
    PROVE  /\ (\E l \in Shipped(catalog, lines) : UnitWeight(catalog, l) = None) =>
                Weight(lines) = None
           /\ Weight(lines) = None =>
                \E l \in Shipped(catalog, lines) : UnitWeight(catalog, l) = None
           /\ Weight(lines) # None =>
                Weighed(lines) /\ Weight(lines) = Scale(lines) /\ Weight(lines) \in Int
<1> DEFINE shipped == Shipped(catalog, lines)
           weights == [l \in shipped |-> UnitWeight(catalog, l) * l.qty]
           onTheScale == [l \in shipped |->
               l.qty * (IF l.variant # None /\ catalog.option[l.variant] # None
                        THEN catalog.option[l.variant] ELSE catalog.item[l.product].weight)]
           unknown == \E l \in shipped : UnitWeight(catalog, l) = None
<1>1. IsFiniteSet(shipped) /\ shipped \subseteq lines
  BY FS_Subset DEF Shipped, Basket
<1>2. Config.package \in Int
  BY ConfigIsValid DEF Documents
<1>3. CASE unknown
  BY <1>3 DEF Weight, ItemWeight
<1>4. CASE ~unknown
  <2>1. ItemWeight(catalog, lines) = SumFunctionOnSet(weights, shipped)
    BY <1>4 DEF ItemWeight
  <2>2. ASSUME NEW l \in shipped
        PROVE  weights[l] \in Nat /\ weights[l] = onTheScale[l]
    <3>1. l \in lines /\ UnitWeight(catalog, l) # None
      BY <1>1, <1>4
    <3>2. UnitWeight(catalog, l) \in Nat /\ l.qty \in Nat
      BY <3>1, UnitWeightIs
    <3>3. onTheScale[l] = l.qty * UnitWeight(catalog, l)
      BY <3>1, UnitWeightIs
    <3>4. weights[l] = UnitWeight(catalog, l) * l.qty
      OBVIOUS
    <3> HIDE DEF weights, onTheScale
    <3> QED
      BY <3>2, <3>3, <3>4
  <2>3. SumFunctionOnSet(weights, shipped) \in Nat
    <3> HIDE DEF weights, onTheScale, shipped
    <3> QED BY <1>1, <2>2, SumNat
  <2>4. SumFunctionOnSet(weights, shipped) = SumFunctionOnSet(onTheScale, shipped)
    <3> HIDE DEF weights, onTheScale, shipped
    <3> QED BY <1>1, <2>2, SumSame
  <2>5. Scale(lines) = Config.package + SumFunctionOnSet(onTheScale, shipped)
    BY DEF Scale
  <2>6. ItemWeight(catalog, lines) # None
    BY <2>1, <2>3, RatesAssumption
  <2>7. Weight(lines) = Scale(lines) /\ Weight(lines) \in Int
    <3> HIDE DEF weights, onTheScale, shipped
    <3> QED BY <1>2, <2>1, <2>3, <2>4, <2>5, <2>6 DEF Weight
  <2>8. Weighed(lines)
    BY <1>1, <1>4, UnitWeightIs DEF Weighed
  <2> QED
    BY <1>4, <2>7, <2>8, RatesAssumption
<1> QED
  BY <1>3, <1>4

\* What may be bought in one go is for sale.
LEMMA ResolvedIsForSale ==
    ASSUME QuoteInv, NEW s \in Shoppers, NEW lines \in Resolved(s), NEW l \in lines
    PROVE  /\ catalog.item[l.product].active
           /\ l.variant # None => VariantOf[l.variant] = l.product
<1>1. CASE lines \in BuyNow
  <2>1. PICK k \in Addable : lines = {Line(k[1], k[2], 1)}
    BY <1>1 DEF BuyNow
  <2>2. k \in Keys /\ catalog.item[k[1]].active /\ (k[2] # None => VariantOf[k[2]] = k[1])
    BY DEF Addable, Choosable
  <2> QED
    BY <2>1, <2>2 DEF Line
<1>2. CASE lines = ResolveCart(s)
  <2>1. PICK k \in DOMAIN cart[s] :
          /\ l = Line(k[1], k[2], cart[s][k])
          /\ catalog.item[k[1]].active
          /\ k[2] = None \/ VariantOf[k[2]] = k[1]
    BY <1>2 DEF ResolveCart
  <2> QED
    BY <2>1 DEF Line
<1> QED
  BY <1>1, <1>2 DEF Resolved

LEMMA BlockedIsCounted ==
    ASSUME QuoteInv, NEW s \in Shoppers, NEW lines \in Demanded(s), NEW country \in Countries,
           Applies(lines), DOMAIN Quote(lines, country).options = {},
           Quote(lines, country).unweighed
    PROVE  /\ ZonesRequireWeight(Config)
           /\ \E l \in lines : l.product \in MissingWeight(catalog)
<1> DEFINE z == ZoneOf(country)
           rates == RatesFor(country)
<1>1. /\ lines \in Resolved(s)
      /\ \A l \in lines : l.variant = None => Choosable(catalog, l.product) = {}
  BY DEF Demanded
<1>2. Basket(lines) /\ AllThere(lines)
  BY <1>1, ResolvedIsBasket
<1>3. z # 0
  BY QuoteIs
<1>4. /\ z \in DOMAIN Config.zones /\ Weight(lines) = None
      /\ \E i \in DOMAIN rates : rates[i].mode = "weight"
      /\ \A i \in DOMAIN rates : Omitted(rates[i], Weight(lines))
  BY <1>3, QuoteIs
<1>5. ZonesRequireWeight(Config)
  <2>1. \A k \in DOMAIN rates : rates[k].mode = "weight"
    BY <1>4 DEF Omitted
  <2>2. rates # <<>>
    BY <1>4
  <2> QED
    BY <1>4, <2>1, <2>2 DEF ZonesRequireWeight, Applies, RatesFor
<1>6. PICK l \in Shipped(catalog, lines) : UnitWeight(catalog, l) = None
  BY <1>2, <1>4, ScaleIs
<1>7. l \in lines /\ catalog.item[l.product].ships
  BY DEF Shipped
<1>8. l.product \in Products /\ catalog.item[l.product].active
  BY <1>1, <1>2, <1>7, UnitWeightIs, ResolvedIsForSale
<1>9. CASE l.variant = None
  <2>1. Choosable(catalog, l.product) = {} /\ catalog.item[l.product].weight = None
    BY <1>1, <1>2, <1>6, <1>7, <1>9, UnitWeightIs
  <2> QED
    BY <1>5, <1>7, <1>8, <2>1 DEF MissingWeight
<1>10. CASE l.variant # None
  <2>1. /\ catalog.option[l.variant] = None
        /\ catalog.item[l.product].weight = None
    <3>1. catalog.option[l.variant] # Gone
      BY <1>2, <1>7, <1>10 DEF AllThere
    <3>2. UnitWeight(catalog, l) =
            IF catalog.option[l.variant] # None
            THEN catalog.option[l.variant] ELSE catalog.item[l.product].weight
      BY <1>2, <1>7, <1>10, UnitWeightIs
    <3> QED
      BY <1>6, <3>1, <3>2
  <2>2. l.variant \in Choosable(catalog, l.product)
    <3>1. l.variant \in Variants
      BY <1>2, <1>7, <1>10 DEF Basket, LineTypes
    <3>2. VariantOf[l.variant] = l.product
      BY <1>1, <1>7, <1>10, ResolvedIsForSale
    <3> QED
      BY <1>2, <1>7, <1>10, <3>1, <3>2 DEF Choosable, AllThere
  <2> QED
    BY <1>5, <1>7, <1>8, <2>1, <2>2 DEF MissingWeight
<1> QED
  BY <1>5, <1>9, <1>10

\* Admin's count of products without a weight misses none: a basket that is turned away
\* for want of a weight holds one of them, and Admin was told that the zones need one
\* (quoteShipping's unweighed rates against the weight query of shipping/db).
THEOREM NoBlockedSaleIsMissed == QuoteSpec => []BlockedSaleIsCounted
<1>1. QuoteInv => BlockedSaleIsCounted
  BY BlockedIsCounted DEF BlockedSaleIsCounted
<1> QED
  BY <1>1, QuoteInvInit, QuoteInvStep, PTL DEF QuoteSpec

-----------------------------------------------------------------------------
(* Quotes: what is asked *)

\* The options are known by the places of their rates.
LEMMA OptionPlaces ==
    ASSUME QuoteInv, NEW lines, NEW country
    PROVE  \E n \in Nat : DOMAIN Quote(lines, country).options \subseteq 0 .. n
<1>1. CASE ZoneOf(country) = 0
  BY <1>1, QuoteIs
<1>2. CASE ZoneOf(country) # 0
  <2> DEFINE n == Len(RatesFor(country))
  <2>1. n \in Nat /\ DOMAIN RatesFor(country) = 1 .. n
    BY <1>2, QuoteIs
  <2>2. \A i \in DOMAIN Quote(lines, country).options : i = 0 \/ i \in 1 .. n
    BY <1>2, <2>1, QuoteIs
  <2> HIDE DEF n
  <2> QED
    BY <2>1, <2>2
<1> QED
  BY <1>1, <1>2

LEMMA FirstOption ==
    ASSUME QuoteInv, NEW lines, NEW country,
           NEW S \in SUBSET DOMAIN Quote(lines, country).options, S # {}
    PROVE  First(S) \in S
<1>1. PICK n \in Nat : DOMAIN Quote(lines, country).options \subseteq 0 .. n
  BY OptionPlaces
<1>2. S \in SUBSET (0 .. n)
  BY <1>1
<1> QED
  BY <1>2, FirstIsLeast

\* The band that a weight falls in is the tightest that holds it.
LEMMA BandIsTightest ==
    ASSUME NEW bands \in Seq(Bands), ValidBands(bands), NEW w \in Int, BandFor(w, bands) # 0
    PROVE  /\ BandFor(w, bands) \in DOMAIN bands
           /\ Tightest(bands[BandFor(w, bands)], bands, w)
<1> DEFINE fits == {i \in DOMAIN bands : bands[i].upTo = None \/ w <= bands[i].upTo}
           b == BandFor(w, bands)
<1>1. /\ DOMAIN bands = 1 .. Len(bands) /\ Len(bands) \in Nat
      /\ \A i \in DOMAIN bands : bands[i].upTo \in Int \cup {None}
  <2>1. /\ DOMAIN bands = 1 .. Len(bands) /\ Len(bands) \in Nat
        /\ \A i \in DOMAIN bands : bands[i] \in Bands
    OBVIOUS
  <2> QED
    BY <2>1 DEF Bands
<1>2. fits # {} /\ b = First(fits)
  BY DEF BandFor
<1>3. fits \in SUBSET (0 .. Len(bands))
  BY <1>1
<1>4. b \in fits /\ \A j \in fits : b <= j
  <2> HIDE DEF fits, b
  <2> QED BY <1>1, <1>2, <1>3, FirstIsLeast
<1>5. Holds(bands[b], w)
  BY <1>4 DEF Holds
<1>6. ASSUME NEW i \in DOMAIN bands, Holds(bands[i], w), bands[i].upTo # None
      PROVE  bands[b].upTo # None /\ bands[b].upTo <= bands[i].upTo
  <2>1. i \in fits
    BY <1>6 DEF Holds
  <2>2. b \in DOMAIN bands /\ b <= i
    BY <1>4, <2>1
  <2> HIDE DEF fits, b
  <2>3. CASE b = i
    BY <1>1, <1>6, <2>3
  <2>4. CASE b # i
    <3>1. b \in 1 .. (i - 1) /\ b # Len(bands)
      BY <1>1, <2>2, <2>4
    <3>2. bands[b].upTo # None
      BY <2>2, <3>1 DEF ValidBands
    <3>3. bands[b].upTo < bands[i].upTo
      BY <1>6, <3>1, <3>2 DEF ValidBands
    <3>4. bands[b].upTo \in Int /\ bands[i].upTo \in Int
      BY <1>1, <1>6, <2>2, <3>2
    <3> QED
      BY <3>2, <3>3, <3>4
  <2> QED
    BY <2>3, <2>4
<1> QED
  BY <1>4, <1>5, <1>6 DEF Tightest

LEMMA OfferedIsDue ==
    ASSUME QuoteInv, NEW lines, Basket(lines), AllThere(lines), NEW country,
           NEW i \in DOMAIN Quote(lines, country).options
    PROVE  IsDue(Quote(lines, country).options[i], lines, country)
<1> DEFINE z == ZoneOf(country)
           zone == Config.zones[z]
           rates == RatesFor(country)
           w == Weight(lines)
           o == Quote(lines, country).options[i]
<1>1. z # 0
  BY QuoteIs
<1>2. /\ z \in DOMAIN Config.zones /\ Serves(zone, country)
  BY <1>1, ZoneServes
<1>3. \/ o = FreeOption /\ zone.free # None /\ Subtotal(lines) >= zone.free
      \/ i \in DOMAIN rates /\ ~Omitted(rates[i], w) /\ o = OptionOf(rates[i], w)
  BY <1>1, QuoteIs
<1>4. CASE o = FreeOption /\ zone.free # None /\ Subtotal(lines) >= zone.free
  BY <1>2, <1>4 DEF IsDue
<1>5. CASE i \in DOMAIN rates /\ ~Omitted(rates[i], w) /\ o = OptionOf(rates[i], w)
  <2> DEFINE rate == zone.rates[i]
  <2>1. i \in DOMAIN zone.rates /\ ~Omitted(rate, w) /\ o = OptionOf(rate, w)
    BY <1>5 DEF RatesFor
  <2>2. o.label = rate.label
    BY <2>1 DEF OptionOf
  <2>3. CASE rate.mode # "weight"
    <3>1. o.amount = rate.amount
      BY <2>1, <2>3 DEF OptionOf
    <3> HIDE DEF o
    <3>2. IsDue(o, lines, country)
      BY <1>2, <2>1, <2>2, <2>3, <3>1 DEF IsDue
    <3> QED
      BY <3>2 DEF o
  <2>4. CASE rate.mode = "weight"
    <3> DEFINE b == BandFor(w, rate.bands)
    <3>1. w # None /\ b # 0
      BY <2>1, <2>4 DEF Omitted
    <3>2. Weighed(lines) /\ w = Scale(lines) /\ w \in Int
      BY <3>1, ScaleIs
    <3>3. rate.bands \in Seq(Bands)
      BY <1>1, <1>5, QuoteIs DEF RateTypes, RatesFor
    <3>4. ValidBands(rate.bands)
      <4>1. PICK any \in BOOLEAN : ValidZone(zone, any)
        BY <1>1, QuoteIs
      <4>2. ValidRate(rate)
        BY <2>1, <4>1 DEF ValidZone
      <4> QED
        BY <2>4, <4>2 DEF ValidRate
    <3>5. b \in DOMAIN rate.bands /\ Tightest(rate.bands[b], rate.bands, w)
      BY <3>1, <3>2, <3>3, <3>4, BandIsTightest
    <3>6. o.amount = rate.bands[b].amount
      BY <2>1, <2>4 DEF OptionOf
    <3> HIDE DEF o, w, b
    <3>7. IsDue(o, lines, country)
      <4>1. /\ Weighed(lines)
            /\ \E j \in DOMAIN rate.bands :
                /\ Tightest(rate.bands[j], rate.bands, Scale(lines))
                /\ o.amount = rate.bands[j].amount
        BY <3>2, <3>5, <3>6
      <4> QED
        BY <1>2, <2>1, <2>2, <2>4, <4>1 DEF IsDue
    <3> QED
      BY <3>7 DEF o
  <2> QED
    BY <2>3, <2>4
<1> QED
  BY <1>3, <1>4, <1>5

\* A deal is made by one of the steps that make one.
LEMMA DealtBy ==
    ASSUME QuoteInv, [QuoteNext]_quoteVars, NEW s \in Shoppers,
           visit[s].at # "deal", visit'[s].at = "deal"
    PROVE  \/ OrderUnshipped(s) \/ PayByCard(s) \/ PayByCardViaApi(s) \/ ShipTo(s)
           \/ ChooseOption(s) \/ OrderDemo(s)
<1>1. visit'[s] # visit[s]
  OBVIOUS
<1>2. Shop(s)
  <2>1. UNCHANGED quoteVars => visit' = visit
    BY DEF quoteVars
  <2>2. ASSUME NEW doc \in Drafts, SaveDocument(doc) PROVE visit' = visit
    BY <2>2 DEF SaveDocument
  <2>3. SpoilDocument => visit' = visit
    BY DEF SpoilDocument
  <2>4. ASSUME NEW p \in Products, EditProduct(p) PROVE visit' = visit
    BY <2>4 DEF EditProduct
  <2>5. ASSUME NEW v \in Variants, EditVariant(v) PROVE visit' = visit
    BY <2>5 DEF EditVariant
  <2>6. ASSUME NEW x \in Shoppers, Shop(x) 
        PROVE  visit' = visit \/ \E y : visit' = [visit EXCEPT ![x] = y]
    BY <2>6 DEF Shop, AddToCart, UpdateLine, RemoveLine, ClearCart, Keep, OrderUnshipped,
       PayByCard, PayByCardViaApi, OpenSession, ShipTo, HandOver, GoToCheckout, ShowOptions,
       ChooseOption, OrderDemo, SettleHosted, SettlePending, FetchLabelRates, Leave
  <2>7. ASSUME NEW x \in Shoppers, Shop(x) PROVE x = s
    BY <1>1, <2>6, <2>7 DEF QuoteInv
  <2> QED
    BY <1>1, <2>1, <2>2, <2>3, <2>4, <2>5, <2>7 DEF QuoteNext
<1>3. ~(AddToCart(s) \/ UpdateLine(s) \/ RemoveLine(s) \/ ClearCart(s))
  BY <1>1 DEF AddToCart, UpdateLine, RemoveLine, ClearCart, Keep
<1>4. s \in DOMAIN visit
  BY DEF QuoteInv
<1>5. ~GoToCheckout(s) /\ ~ShowOptions(s)
  BY <1>4 DEF GoToCheckout, ShowOptions
<1>6. ~SettleHosted(s) /\ ~SettlePending(s) /\ ~FetchLabelRates(s) /\ ~Leave(s)
  BY <1>4 DEF SettleHosted, SettlePending, FetchLabelRates, Leave, Idle
<1> QED
  BY <1>2, <1>3, <1>5, <1>6 DEF Shop

\* What a deal is made of: a basket, as the catalog is, and options of its quote.
LEMMA DealIs ==
    ASSUME QuoteInv, [QuoteNext]_quoteVars, NEW s \in Shoppers,
           Dealt(s, {"api", "json", "in_app"})
    PROVE  LET d == visit'[s] IN
           /\ Basket(d.lines) /\ AllThere(d.lines)
           /\ \A o \in d.options :
                \E i \in DOMAIN Quote(d.lines, d.country).options :
                    o = Quote(d.lines, d.country).options[i]
<1> DEFINE d == visit'[s]
           good(lines, country, options) ==
               /\ Basket(lines) /\ AllThere(lines)
               /\ \A o \in options : \E i \in DOMAIN Quote(lines, country).options :
                                        o = Quote(lines, country).options[i]
<1>1. s \in DOMAIN visit /\ d.path \in {"api", "json", "in_app"}
  BY DEF QuoteInv, Dealt
<1>2. \/ OrderUnshipped(s) \/ PayByCard(s) \/ PayByCardViaApi(s) \/ ShipTo(s)
      \/ ChooseOption(s) \/ OrderDemo(s)
  BY DealtBy DEF Dealt
<1>3. CASE OrderUnshipped(s)
  BY <1>1, <1>3 DEF OrderUnshipped, Deal
<1>4. CASE PayByCard(s)
  BY <1>1, <1>4 DEF PayByCard, OpenSession, Deal
<1>5. CASE PayByCardViaApi(s)
  <2>1. PICK lines \in Demanded(s) : OpenSession(s, "api", lines, lines)
    BY <1>5 DEF PayByCardViaApi
  <2>2. PICK country \in Destinations :
          visit' = [visit EXCEPT ![s] =
                      Deal("api", lines, country, OptionsOf(Quote(lines, country)))]
    BY <2>1 DEF OpenSession
  <2>3. d.lines = lines /\ d.country = country /\ d.options = OptionsOf(Quote(lines, country))
    BY <1>1, <2>2 DEF Deal
  <2>4. Basket(lines) /\ AllThere(lines)
    BY ResolvedIsBasket DEF Demanded
  <2> QED
    BY <2>3, <2>4 DEF OptionsOf
<1>6. CASE ShipTo(s)
  <2>1. PICK lines \in Demanded(s) : \E country \in Countries :
          \E i \in DOMAIN Quote(lines, country).options :
              HandOver(s, "json", lines, country, Quote(lines, country).options[i])
    BY <1>6 DEF ShipTo
  <2>2. PICK country \in Countries : \E i \in DOMAIN Quote(lines, country).options :
          HandOver(s, "json", lines, country, Quote(lines, country).options[i])
    BY <2>1
  <2>3. PICK i \in DOMAIN Quote(lines, country).options :
          HandOver(s, "json", lines, country, Quote(lines, country).options[i])
    BY <2>2
  <2>4. /\ d.lines = lines /\ d.country = country
        /\ d.options = {Quote(lines, country).options[i]}
    BY <1>1, <2>3 DEF HandOver, Deal
  <2>5. Basket(lines) /\ AllThere(lines)
    BY ResolvedIsBasket DEF Demanded
  <2> QED
    BY <2>4, <2>5
<1>7. CASE ChooseOption(s)
  <2>1. PICK lines \in Reread(s) : \E label \in visit[s].labels :
          LET options == Quote(lines, visit[s].country).options
              matches == {i \in DOMAIN options : options[i].label = label}
          IN  /\ matches # {}
              /\ HandOver(s, "in_app", lines, visit[s].country, options[First(matches)])
    BY <1>7 DEF ChooseOption
  <2> DEFINE country == visit[s].country
             options == Quote(lines, country).options
  <2>2. PICK label \in visit[s].labels :
          LET matches == {i \in DOMAIN options : options[i].label = label}
          IN  /\ matches # {}
              /\ HandOver(s, "in_app", lines, country, options[First(matches)])
    BY <2>1
  <2> DEFINE matches == {i \in DOMAIN options : options[i].label = label}
  <2>3. matches # {} /\ HandOver(s, "in_app", lines, country, options[First(matches)])
    BY <2>2
  <2>4. First(matches) \in DOMAIN options
    <3>1. matches \in SUBSET DOMAIN options
      OBVIOUS
    <3> HIDE DEF matches
    <3> QED
      BY <2>3, <3>1, FirstOption
  <2>5. Basket(lines) /\ AllThere(lines)
    BY <1>7, RereadIsBasket DEF ChooseOption
  <2>6. /\ d.lines = lines /\ d.country = country /\ d.options = {options[First(matches)]}
    BY <1>1, <2>3 DEF HandOver, Deal
  <2> QED
    BY <2>4, <2>5, <2>6
<1>8. CASE OrderDemo(s)
  <2>1. PICK lines \in Reread(s) : \E country \in Countries :
          LET options == Quote(lines, country).options
          IN  /\ DOMAIN options # {}
              /\ HandOver(s, "in_app", lines, country, options[First(DOMAIN options)])
    BY <1>8 DEF OrderDemo
  <2>2. PICK country \in Countries :
          LET options == Quote(lines, country).options
          IN  /\ DOMAIN options # {}
              /\ HandOver(s, "in_app", lines, country, options[First(DOMAIN options)])
    BY <2>1
  <2> DEFINE options == Quote(lines, country).options
  <2>3. First(DOMAIN options) \in DOMAIN options
    BY <2>2, FirstOption
  <2>4. Basket(lines) /\ AllThere(lines)
    BY <1>8, RereadIsBasket DEF OrderDemo
  <2>5. /\ d.lines = lines /\ d.country = country
        /\ d.options = {options[First(DOMAIN options)]}
    BY <1>1, <2>2 DEF HandOver, Deal
  <2> QED
    BY <2>3, <2>4, <2>5
<1> QED
  BY <1>2, <1>3, <1>4, <1>5, <1>6, <1>7, <1>8

\* Through the API and on the in-app page a shipment is never asked less or more than
\* its zone's rate for its weight (quoteShipping with the weights of the variants), for
\* every document that can be saved and every basket.
THEOREM EveryoneElsePaysByTheScale == QuoteSpec => QuotesFollowTheScale
<1> DEFINE A == \A s \in Shoppers : Dealt(s, {"api", "json", "in_app"}) =>
                  \A o \in visit'[s].options : IsDue(o, visit'[s].lines, visit'[s].country)
<1>1. QuoteInv /\ [QuoteNext]_quoteVars => [A]_quoteVars
  <2> SUFFICES ASSUME QuoteInv, [QuoteNext]_quoteVars, NEW s \in Shoppers,
                      Dealt(s, {"api", "json", "in_app"}), NEW o \in visit'[s].options
               PROVE  IsDue(o, visit'[s].lines, visit'[s].country)
    OBVIOUS
  <2>1. Basket(visit'[s].lines) /\ AllThere(visit'[s].lines)
    BY DealIs
  <2>2. PICK i \in DOMAIN Quote(visit'[s].lines, visit'[s].country).options :
          o = Quote(visit'[s].lines, visit'[s].country).options[i]
    BY DealIs
  <2> QED
    BY <2>1, <2>2, OfferedIsDue
<1>2. QuotesFollowTheScale <=> [][A]_quoteVars
  BY DEF QuotesFollowTheScale
<1> HIDE DEF A
<1> QED
  BY <1>1, <1>2, QuoteInvInit, QuoteInvStep, PTL DEF QuoteSpec

\* A shipment for which nothing is asked left a store whose owner has switched shipping
\* off (getEffectiveShippingConfig: a document that is corrupt stops sales, and does not
\* ship free).
THEOREM OnlyTheOwnerShipsFree == QuoteSpec => UnshippedByChoice
<1> DEFINE off == CASE stored.kind = "valid" -> ~stored.doc.enabled
                    [] stored.kind = "absent" ->
                          IF LegacyEnabled = None THEN ~BuildTime.enabled ELSE ~LegacyEnabled
                    [] OTHER -> FALSE
           A == \A s \in Shoppers :
                  (Dealt(s, {"unshipped"}) /\ ShippingRequired(catalog, visit'[s].lines)) => off
<1>1. QuoteInv /\ ~Config.enabled => off
  <2> SUFFICES ASSUME QuoteInv, ~Config.enabled PROVE off
    OBVIOUS
  <2>1. CASE stored.kind = "valid"
    BY <2>1 DEF Config, Effective
  <2>2. CASE stored.kind = "invalid"
    BY <2>2 DEF Config, Effective, Closed
  <2>3. CASE stored.kind = "absent"
    <3>1. CASE ~ValidBuildTime
      BY <2>3, <3>1 DEF Config, Effective, Closed
    <3>2. CASE ValidBuildTime /\ LegacyEnabled = None
      BY <2>3, <3>2 DEF Config, Effective
    <3>3. CASE ValidBuildTime /\ LegacyEnabled # None
      <4>1. Config = [BuildTime EXCEPT !.enabled = LegacyEnabled]
        BY <2>3, <3>3 DEF Config, Effective
      <4>2. Config.enabled = LegacyEnabled
        BY <4>1, RatesAssumption DEF Documents
      <4> QED
        BY <2>3, <3>3, <4>2
    <3> QED
      BY <3>1, <3>2, <3>3
  <2> QED
    BY <2>1, <2>2, <2>3 DEF QuoteInv, NoDocument, Corrupt, Saved
<1>2. QuoteInv /\ [QuoteNext]_quoteVars => [A]_quoteVars
  <2> SUFFICES ASSUME QuoteInv, [QuoteNext]_quoteVars, NEW s \in Shoppers,
                      Dealt(s, {"unshipped"}), ShippingRequired(catalog, visit'[s].lines)
               PROVE  off
    OBVIOUS
  <2>1. s \in DOMAIN visit /\ visit'[s].path = "unshipped"
    BY DEF QuoteInv, Dealt
  <2>2. \/ OrderUnshipped(s) \/ PayByCard(s) \/ PayByCardViaApi(s) \/ ShipTo(s)
        \/ ChooseOption(s) \/ OrderDemo(s)
    BY DealtBy DEF Dealt
  <2>3. ~PayByCard(s) /\ ~PayByCardViaApi(s)
    BY <2>1 DEF PayByCard, PayByCardViaApi, OpenSession, Deal
  <2>4. ~ShipTo(s) /\ ~ChooseOption(s) /\ ~OrderDemo(s)
    BY <2>1 DEF ShipTo, ChooseOption, OrderDemo, HandOver, Deal
  <2>5. PICK lines \in Resolved(s) :
          ~Applies(lines) /\ visit' = [visit EXCEPT ![s] = Deal("unshipped", lines, None, {})]
    BY <2>2, <2>3, <2>4 DEF OrderUnshipped
  <2>6. visit'[s].lines = lines
    BY <2>1, <2>5 DEF Deal
  <2>7. ~Config.enabled
    BY <2>5, <2>6 DEF Applies
  <2> QED
    BY <1>1, <2>7
<1>3. UnshippedByChoice <=> [][A]_quoteVars
  BY DEF UnshippedByChoice
<1> HIDE DEF A
<1> QED
  BY <1>2, <1>3, QuoteInvInit, QuoteInvStep, PTL DEF QuoteSpec
=============================================================================

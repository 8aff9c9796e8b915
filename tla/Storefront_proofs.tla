--------------------------- MODULE Storefront_proofs ---------------------------
(***************************************************************************)
(* What TLAPS proves of what a visitor of the shop gets to see, for every   *)
(* size of it.                                                             *)
(*                                                                         *)
(* Categories: the admin's tree shows every category of a forest; a page    *)
(* lists what is filed below it; a cycle, or a row that refers to none,     *)
(* comes only of a request that writes what has been overtaken.            *)
(*                                                                         *)
(* Navigation: so does a menu with two items at one position.  A move       *)
(* exchanges an item with the next, a reorder shows what was asked for.     *)
(*                                                                         *)
(* EdgeCache: what the shared copy shows of a fact that has been replaced   *)
(* is explained.                                                           *)
(*                                                                         *)
(* The three have no state in common, and each part uses only its own.      *)
(***************************************************************************)
EXTENDS Structure, EdgeCache, Sums

-----------------------------------------------------------------------------
(* Categories *)

\* What a request that nothing has overtaken still knows.
FreshIsTrue(e) ==
    LET r == request[e] IN
    r.fresh =>
      /\ r.at \in {"create", "guard", "update"} => r.to \in rows \cup {Top}
      /\ r.at = "guard" => r.to # Top
      /\ r.at = "update" => r.to \notin DescendantIds(r.cat)
      /\ r.at = "delete" => r.cat \in rows /\ r.to = parent[r.cat]
      /\ r.at \in {"pick", "tag"} => r.product \in Product /\ product[r.product] = "listed"
      /\ r.at = "tag" => r.tags \subseteq rows

\* Nothing refers to an id that has not been given out.
NothingAhead ==
    /\ \A c \in Category : parent[c] \in used \cup {Top}
    /\ \A e \in Editor :
        /\ request[e].at \in {"create", "guard", "update", "delete"} =>
              request[e].to \in used \cup {Top}
        /\ request[e].at \in {"guard", "update", "delete"} => request[e].cat \in Category
        /\ request[e].at \in {"pick", "tag"} => request[e].product \in Product

IInv == /\ TypeOK
        /\ NothingAhead
        /\ \A e \in Editor : FreshIsTrue(e)
-----------------------------------------------------------------------------
(* The forest *)

\* A category that has a row descends from itself.
LEMMA Self == ASSUME NEW c \in rows PROVE c \in DescendantIds(c)
  BY DEF DescendantIds

\* What a category's descendants have for children descends from it too.
LEMMA ChildDescends ==
    ASSUME NEW c, NEW d \in rows, parent[d] \in DescendantIds(c)
    PROVE  d \in DescendantIds(c)
  BY DEF DescendantIds, Closed, Children

\* The tree that is shown reaches every category of a forest.
LEMMA ForestIsShown == ASSUME Acyclic PROVE BuildTree = rows
<1> DEFINE S == rows \ BuildTree
<1>1. SUFFICES ASSUME S # {} PROVE FALSE
  BY DEF BuildTree
<1>2. PICK c \in S : parent[c] \notin S
  BY <1>1 DEF Acyclic
<1>3. CASE parent[c] \notin rows
  BY <1>3, Self DEF BuildTree
<1>4. CASE parent[c] \in BuildTree
  <2>1. PICK r \in {x \in rows : parent[x] \notin rows} : parent[c] \in DescendantIds(r)
    BY <1>4 DEF BuildTree
  <2>2. c \in DescendantIds(r)
    BY <2>1, ChildDescends
  <2> QED
    BY <2>1, <2>2 DEF BuildTree
<1> QED
  BY <1>2, <1>3, <1>4

\* As long as there is no cycle, every category is shown (buildTree).
THEOREM TreeAlwaysShowsAll == Spec => []TreeShowsAll
<1>1. TreeShowsAll
  BY ForestIsShown DEF TreeShowsAll
<1> QED
  BY <1>1, PTL

\* A forest stays one when a category is moved under one that does not descend from it.
LEMMA MoveKeepsForest ==
    ASSUME TypeOK, Acyclic, NEW c \in rows, NEW p \in rows \cup {Top},
           p \notin DescendantIds(c), rows' = rows, parent' = [parent EXCEPT ![c] = p]
    PROVE  Acyclic'
<1> SUFFICES ASSUME NEW S \in SUBSET rows, S # {}, \A d \in S : parent'[d] \in S
             PROVE  FALSE
  BY DEF Acyclic
<1>1. \A d \in rows : d # c => parent'[d] = parent[d]
  BY DEF TypeOK
<1>2. parent'[c] = p
  BY DEF TypeOK
<1>3. CASE c \notin S
  BY <1>1, <1>3 DEF Acyclic
<1>4. CASE c \in S
  <2> DEFINE T == S \ DescendantIds(c)
  <2>1. p \in T
    BY <1>2, <1>4
  <2>2. PICK d \in T : parent[d] \notin T
    BY <2>1 DEF Acyclic
  <2>3. d # c
    BY Self, <2>2
  <2>4. parent[d] \in DescendantIds(c)
    BY <1>1, <2>2, <2>3
  <2> QED
    BY <2>2, <2>4, ChildDescends
<1> QED
  BY <1>3, <1>4

\* A forest stays one when a category goes and its children get its parent.
LEMMA DeleteKeepsForest ==
    ASSUME TypeOK, Acyclic, NEW c \in rows, rows' = rows \ {c},
           parent' = Reparented(c, parent[c])
    PROVE  Acyclic'
<1> SUFFICES ASSUME NEW S \in SUBSET (rows \ {c}), S # {}, \A d \in S : parent'[d] \in S
             PROVE  FALSE
  BY DEF Acyclic
<1>1. \A d \in S : parent'[d] = IF parent[d] = c THEN parent[c] ELSE parent[d]
  BY DEF Reparented, Children, TypeOK
<1>2. CASE \A d \in S : parent[d] # c
  BY <1>1, <1>2 DEF Acyclic
<1>3. CASE \E d \in S : parent[d] = c
  <2> DEFINE T == S \cup {c}
  <2>1. parent[c] \in S
    BY <1>1, <1>3
  <2>2. \A d \in T : parent[d] \in T
    BY <1>1, <2>1
  <2> QED
    BY <2>2 DEF Acyclic
<1> QED
  BY <1>2, <1>3

\* A new category takes no part in a cycle: nothing can refer to it yet.
LEMMA CreateKeepsForest ==
    ASSUME TypeOK, NothingAhead, Acyclic, NEW c \in Category \ used, NEW p \in used \cup {Top},
           rows' = rows \cup {c}, parent' = [parent EXCEPT ![c] = p]
    PROVE  Acyclic'
<1> SUFFICES ASSUME NEW S \in SUBSET (rows \cup {c}), S # {}, \A d \in S : parent'[d] \in S
             PROVE  FALSE
  BY DEF Acyclic
<1>1. \A d \in rows : parent'[d] = parent[d] /\ parent[d] # c
  BY CategoryAssumption DEF TypeOK, NothingAhead
<1>2. c \notin rows /\ p # c /\ parent'[c] = p
  BY CategoryAssumption DEF TypeOK
<1> DEFINE T == S \ {c}
<1>3. \A d \in T : parent[d] \in T
  BY <1>1
<1>4. T # {}
  BY <1>2
<1> QED
  BY <1>3, <1>4 DEF Acyclic

-----------------------------------------------------------------------------
(* Types *)

LEMMA NoRequestType == NoRequest \in Requests
  BY DEF NoRequest, Requests

LEMMA EndWrittenType ==
    ASSUME TypeOK, NEW e \in Editor, EndWritten(e)
    PROVE  request' \in [Editor -> Requests]
  BY NoRequestType DEF TypeOK, EndWritten, Requests

LEMMA AskType ==
    ASSUME NEW step \in {"create", "guard", "update", "delete"}, NEW c \in Category \cup {Nothing},
           NEW to \in Category \cup {Top, Nothing}
    PROVE  Ask(step, c, to) \in Requests
  BY DEF Ask, Requests

LEMMA BaseInit == Init => TypeOK /\ NothingAhead
  BY NoRequestType DEF Init, TypeOK, NothingAhead, NoRequest

\* A request that is over, or another's write that overtakes it, refers to nothing new.
LEMMA EndWrittenAhead ==
    ASSUME TypeOK, NothingAhead, NEW e \in Editor, EndWritten(e), used \subseteq used'
    PROVE  \A x \in Editor :
             /\ request'[x].at \in {"create", "guard", "update", "delete"} =>
                   request'[x].to \in used' \cup {Top}
             /\ request'[x].at \in {"guard", "update", "delete"} => request'[x].cat \in Category
             /\ request'[x].at \in {"pick", "tag"} => request'[x].product \in Product
<1> TAKE x \in Editor
<1>1. CASE x = e
  BY <1>1 DEF EndWritten, NoRequest
<1>2. CASE x # e
  <2>1. request'[x] = [request[x] EXCEPT !.fresh = FALSE] /\ request[x] \in Requests
    BY <1>2 DEF EndWritten, TypeOK
  <2>2. /\ request'[x].at = request[x].at /\ request'[x].to = request[x].to
        /\ request'[x].cat = request[x].cat /\ request'[x].product = request[x].product
    BY <2>1 DEF Requests
  <2> QED
    BY <2>2 DEF NothingAhead
<1> QED
  BY <1>1, <1>2

\* A step that changes one request, to one that refers to what there is.
LEMMA RequestStep ==
    ASSUME TypeOK, NothingAhead, NEW e \in Editor, NEW r \in Requests,
           request' = [request EXCEPT ![e] = r],
           r.at \in {"create", "guard", "update", "delete"} => r.to \in used \cup {Top},
           r.at \in {"guard", "update", "delete"} => r.cat \in Category,
           r.at \in {"pick", "tag"} => r.product \in Product,
           UNCHANGED <<rows, used, parent, links>>,
           product' \in [Product -> {"new", "listed", "deleted"}]
    PROVE  TypeOK' /\ NothingAhead'
<1>1. request' \in [Editor -> Requests]
  BY DEF TypeOK
<1>2. \A x \in Editor : request'[x] = IF x = e THEN r ELSE request[x]
  BY DEF TypeOK
<1>3. TypeOK'
  BY <1>1 DEF TypeOK
<1>4. NothingAhead'
  BY <1>2 DEF NothingAhead
<1> QED
  BY <1>3, <1>4

LEMMA BaseStep == TypeOK /\ NothingAhead /\ [Next]_vars => TypeOK' /\ NothingAhead'
<1> SUFFICES ASSUME TypeOK, NothingAhead, [Next]_vars PROVE TypeOK' /\ NothingAhead'
  OBVIOUS
<1>t. rows \subseteq used /\ used \subseteq Category
  BY DEF TypeOK
<1>1. ASSUME NEW e \in Editor, AskCreate(e) \/ AskUpdate(e) \/ AskDelete(e)
      PROVE TypeOK' /\ NothingAhead'
  <2>1. PICK step \in {"create", "guard", "update", "delete"}, c \in Category \cup {Nothing},
             to \in used \cup {Top} :
               Begin(e, Ask(step, c, to)) /\ (step # "create" => c \in Category)
    <3>1. CASE AskCreate(e)
      BY <3>1, <1>t DEF AskCreate
    <3>2. CASE AskUpdate(e)
      BY <3>2, <1>t DEF AskUpdate
    <3>3. CASE AskDelete(e)
      BY <3>3, <1>t DEF AskDelete, NothingAhead
    <3> QED
      BY <1>1, <3>1, <3>2, <3>3
  <2>2. UNCHANGED <<rows, used, parent, product, links>>
    BY <1>1 DEF AskCreate, AskUpdate, AskDelete
  <2>3. product' \in [Product -> {"new", "listed", "deleted"}]
    BY <2>2 DEF TypeOK
  <2> DEFINE r == Ask(step, c, to)
  <2>4. /\ r \in Requests /\ r.at = step /\ r.cat = c /\ r.to = to
    BY <1>t, AskType DEF Ask
  <2>5. request' = [request EXCEPT ![e] = r]
    BY <2>1 DEF Begin
  <2> HIDE DEF r
  <2> QED
    BY <2>1, <2>2, <2>3, <2>4, <2>5, RequestStep
<1>2. ASSUME NEW e \in Editor, CreateCategory(e) PROVE TypeOK' /\ NothingAhead'
  <2>1. PICK c \in Category \ used : /\ used' = used \cup {c}
                                    /\ rows' = rows \cup {c}
                                    /\ parent' = [parent EXCEPT ![c] = request[e].to]
    BY <1>2 DEF CreateCategory
  <2>2. request[e].to \in used \cup {Top}
    BY <1>2 DEF CreateCategory, NothingAhead
  <2>3. TypeOK'
    BY <1>2, <2>1, <2>2, EndWrittenType DEF CreateCategory, TypeOK
  <2>4. \A d \in Category : parent'[d] \in used' \cup {Top}
    BY <2>1, <2>2 DEF TypeOK, NothingAhead
  <2> QED
    BY <1>2, <2>1, <2>3, <2>4, EndWrittenAhead DEF CreateCategory, NothingAhead
<1>3. ASSUME NEW e \in Editor, CycleGuard(e) PROVE TypeOK' /\ NothingAhead'
  <2> DEFINE r == IF Blocked(e) THEN NoRequest ELSE [request[e] EXCEPT !.at = "update"]
  <2>1. request[e] \in Requests /\ request[e].at = "guard"
    BY <1>3 DEF TypeOK, CycleGuard
  <2>2. /\ r \in Requests /\ r.at \in {"idle", "update"}
        /\ r.at = "update" => r.to = request[e].to /\ r.cat = request[e].cat
    BY <2>1, NoRequestType DEF NoRequest, Requests
  <2>3. request' = [request EXCEPT ![e] = r] /\ UNCHANGED <<rows, used, parent, product, links>>
    BY <1>3 DEF CycleGuard
  <2>4. product' \in [Product -> {"new", "listed", "deleted"}]
    BY <2>3 DEF TypeOK
  <2> HIDE DEF r
  <2> QED
    BY <2>1, <2>2, <2>3, <2>4, RequestStep DEF NothingAhead
<1>4. ASSUME NEW e \in Editor, UpdateCategory(e) PROVE TypeOK' /\ NothingAhead'
  <2>1. request[e].to \in used \cup {Top} /\ used' = used
    BY <1>4 DEF UpdateCategory, NothingAhead
  <2>2. TypeOK'
    BY <1>4, <1>t, <2>1, EndWrittenType DEF UpdateCategory, TypeOK
  <2>3. \A d \in Category : parent'[d] \in used' \cup {Top}
    BY <1>4, <2>1 DEF UpdateCategory, TypeOK, NothingAhead
  <2> QED
    BY <1>4, <2>1, <2>2, <2>3, EndWrittenAhead DEF UpdateCategory, NothingAhead
<1>5. ASSUME NEW e \in Editor, DeleteCategory(e) PROVE TypeOK' /\ NothingAhead'
  <2>1. request[e].to \in used \cup {Top} /\ used' = used
    BY <1>5 DEF DeleteCategory, NothingAhead
  <2>2. \A d \in Category : parent'[d] \in used' \cup {Top}
    BY <1>5, <2>1 DEF DeleteCategory, Reparented, NothingAhead
  <2>3. TypeOK'
    BY <1>5, <1>t, <2>1, <2>2, EndWrittenType DEF DeleteCategory, Reparented, TypeOK
  <2> QED
    BY <1>5, <2>1, <2>2, <2>3, EndWrittenAhead DEF DeleteCategory, NothingAhead
<1>6. ASSUME NEW e \in Editor, SubmitProduct(e) PROVE TypeOK' /\ NothingAhead'
  <2>1. PICK p \in Product :
          /\ product' = [product EXCEPT ![p] = "listed"]
          /\ Begin(e, [NoRequest EXCEPT !.at = "pick", !.product = p, !.fresh = TRUE])
          /\ UNCHANGED <<rows, used, parent, links>>
    BY <1>6 DEF SubmitProduct
  <2> DEFINE r == [NoRequest EXCEPT !.at = "pick", !.product = p, !.fresh = TRUE]
  <2>2. r \in Requests /\ r.at = "pick" /\ r.product = p
    BY DEF NoRequest, Requests
  <2>3. request' = [request EXCEPT ![e] = r]
    BY <2>1 DEF Begin
  <2>4. product' \in [Product -> {"new", "listed", "deleted"}]
    BY <2>1 DEF TypeOK
  <2> HIDE DEF r
  <2> QED
    BY <2>1, <2>2, <2>3, <2>4, RequestStep
<1>7. ASSUME NEW e \in Editor, GetCategoriesByPublicIds(e) PROVE TypeOK' /\ NothingAhead'
  <2>1. PICK S \in SUBSET rows :
          request' = [request EXCEPT ![e] = [request[e] EXCEPT !.at = "tag", !.tags = S]]
    BY <1>7 DEF GetCategoriesByPublicIds
  <2> DEFINE r == [request[e] EXCEPT !.at = "tag", !.tags = S]
  <2>2. r \in Requests /\ r.at = "tag" /\ r.product = request[e].product
    BY <1>t DEF TypeOK, Requests
  <2>3. request[e].product \in Product
    BY <1>7 DEF GetCategoriesByPublicIds, NothingAhead
  <2>4. UNCHANGED <<rows, used, parent, product, links>>
    BY <1>7 DEF GetCategoriesByPublicIds
  <2>5. product' \in [Product -> {"new", "listed", "deleted"}]
    BY <2>4 DEF TypeOK
  <2>6. request' = [request EXCEPT ![e] = r]
    BY <2>1
  <2> HIDE DEF r
  <2> QED
    BY <2>2, <2>3, <2>4, <2>5, <2>6, RequestStep
<1>8. ASSUME NEW e \in Editor, SetProductCategories(e) PROVE TypeOK' /\ NothingAhead'
  <2>1. request[e].product \in Product /\ request[e].tags \subseteq Category
    BY <1>8 DEF SetProductCategories, NothingAhead, TypeOK, Requests
  <2>2. links' \subseteq Product \X Category
    BY <1>8, <2>1 DEF SetProductCategories, Relinked, TypeOK
  <2>3. TypeOK'
    BY <1>8, <2>2, EndWrittenType DEF SetProductCategories, TypeOK
  <2> QED
    BY <1>8, <2>3, EndWrittenAhead DEF SetProductCategories, NothingAhead
<1>9. ASSUME NEW e \in Editor, EditorDies(e) PROVE TypeOK' /\ NothingAhead'
  <2>1. product' \in [Product -> {"new", "listed", "deleted"}]
    BY <1>9 DEF EditorDies, TypeOK
  <2>2. NoRequest.at = "idle"
    BY DEF NoRequest
  <2> QED
    BY <1>9, <2>1, <2>2, NoRequestType, RequestStep DEF EditorDies
<1>10. ASSUME NEW p \in Product, DeleteProduct(p) PROVE TypeOK' /\ NothingAhead'
  <2>1. \A e \in Editor : /\ request'[e] = [request[e] EXCEPT !.fresh = FALSE]
                          /\ request[e] \in Requests
    BY <1>10 DEF DeleteProduct, TypeOK
  <2>2. \A e \in Editor :
          /\ request'[e] \in Requests
          /\ request'[e].at = request[e].at /\ request'[e].to = request[e].to
          /\ request'[e].cat = request[e].cat /\ request'[e].product = request[e].product
    BY <2>1 DEF Requests
  <2>3. TypeOK'
    BY <1>10, <2>2 DEF DeleteProduct, TypeOK
  <2> QED
    BY <1>10, <2>2, <2>3 DEF DeleteProduct, NothingAhead
<1>11. CASE UNCHANGED vars
  BY <1>11 DEF vars, TypeOK, NothingAhead
<1> QED
  BY <1>1, <1>2, <1>3, <1>4, <1>5, <1>6, <1>7, <1>8, <1>9, <1>10, <1>11 DEF Next

\* The tables and the requests keep their types, and nothing refers to an id that was
\* never given out.
THEOREM TypeCorrect == Spec => []TypeOK
<1>1. TypeOK /\ NothingAhead => TypeOK
  OBVIOUS
<1> QED
  BY BaseInit, BaseStep, PTL DEF Spec
-----------------------------------------------------------------------------
(* The requests *)

LEMMA FreshInit == Init => \A e \in Editor : FreshIsTrue(e)
  BY DEF Init, FreshIsTrue, NoRequest

\* A write overtakes every other request.
LEMMA WrittenFresh ==
    ASSUME TypeOK, NEW e \in Editor, EndWritten(e)
    PROVE  \A x \in Editor : FreshIsTrue(x)'
<1> TAKE x \in Editor
<1>1. request'[x].fresh = FALSE
  BY DEF EndWritten, NoRequest, TypeOK, Requests
<1> QED
  BY <1>1 DEF FreshIsTrue

\* A step that reads, decides or ends without a write leaves the others' reading true.
LEMMA ReadFresh ==
    ASSUME IInv, NEW e \in Editor, NEW r, request' = [request EXCEPT ![e] = r],
           UNCHANGED <<rows, parent>>,
           \A p \in Product : product[p] = "listed" => product'[p] = "listed",
           FreshIsTrue(e)'
    PROVE  \A x \in Editor : FreshIsTrue(x)'
<1> TAKE x \in Editor
<1>1. CASE x = e
  BY <1>1
<1>2. CASE x # e
  <2>1. request'[x] = request[x]
    BY <1>2 DEF IInv, TypeOK
  <2>2. DescendantIds(request[x].cat)' = DescendantIds(request[x].cat)
    BY <2>1 DEF DescendantIds, Closed, Children
  <2>3. request[x].at \in {"pick", "tag"} /\ request[x].fresh =>
          request[x].product \in Product /\ product'[request[x].product] = "listed"
    BY DEF IInv, FreshIsTrue
  <2>4. FreshIsTrue(x)
    BY DEF IInv
  <2> QED
    BY <2>1, <2>2, <2>3, <2>4 DEF FreshIsTrue
<1> QED
  BY <1>1, <1>2

LEMMA FreshStep == IInv /\ [Next]_vars => \A e \in Editor : FreshIsTrue(e)'
<1> SUFFICES ASSUME IInv, [Next]_vars PROVE \A e \in Editor : FreshIsTrue(e)'
  OBVIOUS
<1>t. TypeOK /\ NothingAhead
  BY DEF IInv
<1>1. ASSUME NEW e \in Editor,
             CreateCategory(e) \/ UpdateCategory(e) \/ DeleteCategory(e) \/ SetProductCategories(e)
      PROVE  \A x \in Editor : FreshIsTrue(x)'
  BY <1>1, <1>t, WrittenFresh DEF CreateCategory, UpdateCategory, DeleteCategory,
                                   SetProductCategories
<1>2. ASSUME NEW e \in Editor, AskCreate(e) \/ AskUpdate(e) \/ AskDelete(e)
      PROVE  \A x \in Editor : FreshIsTrue(x)'
  <2>1. UNCHANGED <<rows, parent, product>>
    BY <1>2 DEF AskCreate, AskUpdate, AskDelete
  <2>t. rows \subseteq Category /\ parent \in [Category -> Category \cup {Top}]
    BY <1>t DEF TypeOK
  <2>2. PICK step \in {"create", "guard", "update", "delete"},
             c \in Category \cup {Nothing}, to \in Category \cup {Top} :
          /\ Begin(e, Ask(step, c, to))
          /\ step \in {"create", "guard", "update"} => to \in rows \cup {Top}
          /\ step = "guard" => to # Top
          /\ step = "update" => to = Top
          /\ step = "delete" => c \in rows /\ to = parent[c]
    <3>1. CASE AskCreate(e)
      BY <3>1, <2>t DEF AskCreate
    <3>2. CASE AskUpdate(e)
      BY <3>2, <2>t DEF AskUpdate
    <3>3. CASE AskDelete(e)
      BY <3>3, <2>t DEF AskDelete
    <3> QED
      BY <1>2, <3>1, <3>2, <3>3
  <2>3. request' = [request EXCEPT ![e] = Ask(step, c, to)]
    BY <2>2 DEF Begin
  <2>4. request'[e] = Ask(step, c, to)
    BY <2>3, <1>t DEF TypeOK
  <2>5. step = "update" => to \notin rows'
    BY <2>1, <2>2, <1>t, CategoryAssumption DEF TypeOK
  <2>6. FreshIsTrue(e)'
    BY <2>1, <2>2, <2>4, <2>5 DEF FreshIsTrue, Ask, DescendantIds
  <2> QED
    BY <2>1, <2>3, <2>6, ReadFresh
<1>3. ASSUME NEW e \in Editor, CycleGuard(e) PROVE \A x \in Editor : FreshIsTrue(x)'
  <2> DEFINE r == IF Blocked(e) THEN NoRequest ELSE [request[e] EXCEPT !.at = "update"]
  <2>1. request[e] \in Requests /\ request[e].at = "guard" /\ FreshIsTrue(e)
    BY <1>3 DEF IInv, TypeOK, CycleGuard
  <2>2. request' = [request EXCEPT ![e] = r] /\ UNCHANGED <<rows, parent, product>>
    BY <1>3 DEF CycleGuard
  <2>3. request'[e] = r
    BY <2>2, <1>t DEF TypeOK
  <2>4. CASE Blocked(e)
    <3>1. ~request'[e].fresh
      BY <2>3, <2>4 DEF NoRequest
    <3> QED
      BY <2>2, <3>1, ReadFresh DEF FreshIsTrue
  <2>5. CASE ~Blocked(e)
    <3>1. /\ request'[e].at = "update" /\ request'[e].fresh = request[e].fresh
          /\ request'[e].to = request[e].to /\ request'[e].cat = request[e].cat
      BY <2>1, <2>3, <2>5 DEF Requests
    <3>2. FreshIsTrue(e)'
      BY <2>1, <2>2, <2>5, <3>1 DEF FreshIsTrue, Blocked, DescendantIds, Closed, Children
    <3> QED
      BY <2>2, <3>2, ReadFresh
  <2> QED
    BY <2>4, <2>5
<1>4. ASSUME NEW e \in Editor, SubmitProduct(e) PROVE \A x \in Editor : FreshIsTrue(x)'
  <2>1. PICK p \in Product :
          /\ product' = [product EXCEPT ![p] = "listed"]
          /\ Begin(e, [NoRequest EXCEPT !.at = "pick", !.product = p, !.fresh = TRUE])
          /\ UNCHANGED <<rows, used, parent, links>>
    BY <1>4 DEF SubmitProduct
  <2> DEFINE r == [NoRequest EXCEPT !.at = "pick", !.product = p, !.fresh = TRUE]
  <2>2. r.at = "pick" /\ r.product = p
    BY DEF NoRequest
  <2>3. request' = [request EXCEPT ![e] = r]
    BY <2>1 DEF Begin
  <2>4. request'[e] = r
    BY <2>3, <1>t DEF TypeOK
  <2>5. product'[p] = "listed" /\ \A q \in Product : product[q] = "listed" => product'[q] = "listed"
    BY <2>1, <1>t DEF TypeOK
  <2> HIDE DEF r
  <2>6. FreshIsTrue(e)'
    BY <2>2, <2>4, <2>5 DEF FreshIsTrue
  <2> QED
    BY <2>1, <2>3, <2>5, <2>6, ReadFresh
<1>5. ASSUME NEW e \in Editor, GetCategoriesByPublicIds(e) PROVE \A x \in Editor : FreshIsTrue(x)'
  <2>1. PICK S \in SUBSET rows :
          request' = [request EXCEPT ![e] = [request[e] EXCEPT !.at = "tag", !.tags = S]]
    BY <1>5 DEF GetCategoriesByPublicIds
  <2> DEFINE r == [request[e] EXCEPT !.at = "tag", !.tags = S]
  <2>2. request[e] \in Requests /\ request[e].at = "pick" /\ FreshIsTrue(e)
    BY <1>5 DEF IInv, TypeOK, GetCategoriesByPublicIds
  <2>3. /\ r.at = "tag" /\ r.tags = S /\ r.product = request[e].product
        /\ r.fresh = request[e].fresh
    BY <2>2 DEF Requests
  <2>4. UNCHANGED <<rows, parent, product>>
    BY <1>5 DEF GetCategoriesByPublicIds
  <2>5. request'[e] = r
    BY <2>1, <1>t DEF TypeOK
  <2>6. request' = [request EXCEPT ![e] = r]
    BY <2>1
  <2> HIDE DEF r
  <2>7. FreshIsTrue(e)'
    BY <2>2, <2>3, <2>4, <2>5 DEF FreshIsTrue
  <2> QED
    BY <2>4, <2>6, <2>7, ReadFresh
<1>6. ASSUME NEW e \in Editor, EditorDies(e) PROVE \A x \in Editor : FreshIsTrue(x)'
  <2>1. request' = [request EXCEPT ![e] = NoRequest] /\ UNCHANGED <<rows, parent, product>>
    BY <1>6 DEF EditorDies
  <2>2. ~request'[e].fresh
    BY <2>1, <1>t DEF TypeOK, NoRequest
  <2> QED
    BY <2>1, <2>2, ReadFresh DEF FreshIsTrue
<1>7. ASSUME NEW p \in Product, DeleteProduct(p) PROVE \A x \in Editor : FreshIsTrue(x)'
  <2>1. \A x \in Editor : ~request'[x].fresh
    BY <1>7, <1>t DEF DeleteProduct, TypeOK, Requests
  <2> QED
    BY <2>1 DEF FreshIsTrue
<1>8. CASE UNCHANGED vars
  BY <1>8 DEF vars, IInv, FreshIsTrue, DescendantIds, Closed, Children
<1> QED
  BY <1>1, <1>2, <1>3, <1>4, <1>5, <1>6, <1>7, <1>8 DEF Next

LEMMA InvInit == Init => IInv
  BY BaseInit, FreshInit DEF IInv

LEMMA InvStep == IInv /\ [Next]_vars => IInv'
  BY BaseStep, FreshStep DEF IInv

-----------------------------------------------------------------------------
(* The properties *)

\* A request that writes unovertaken is no excuse; it was fresh.
LEMMA NotStale ==
    ASSUME TypeOK, ~StaleWrite, NEW e \in Editor, request[e].at \in Writing,
           request'[e] = NoRequest
    PROVE  request[e].fresh
  BY DEF StaleWrite, TypeOK, Requests

LEMMA EndIsNoRequest ==
    ASSUME NEW e \in Editor, EndWritten(e)
    PROVE  request'[e] = NoRequest
  BY DEF EndWritten

LEMMA CycleStep == IInv /\ [Next]_vars => (Acyclic /\ ~Acyclic' => StaleWrite)
<1> SUFFICES ASSUME IInv, [Next]_vars, Acyclic, ~StaleWrite PROVE Acyclic'
  OBVIOUS
<1>t. TypeOK /\ NothingAhead /\ \A e \in Editor : FreshIsTrue(e)
  BY DEF IInv
<1>1. ASSUME UNCHANGED <<rows, parent>> PROVE Acyclic'
  BY <1>1 DEF Acyclic
<1>2. ASSUME NEW e \in Editor, CreateCategory(e) PROVE Acyclic'
  <2>1. PICK c \in Category \ used : /\ rows' = rows \cup {c}
                                    /\ parent' = [parent EXCEPT ![c] = request[e].to]
    BY <1>2 DEF CreateCategory
  <2>2. request[e].to \in used \cup {Top}
    BY <1>2, <1>t DEF CreateCategory, NothingAhead
  <2> QED
    BY <2>1, <2>2, <1>t, CreateKeepsForest
<1>3. ASSUME NEW e \in Editor, UpdateCategory(e) PROVE Acyclic'
  <2>1. request[e].fresh /\ request[e].at = "update" /\ rows' = rows
    BY <1>3, <1>t, NotStale, EndIsNoRequest DEF UpdateCategory, Writing
  <2>2. request[e].to \in rows \cup {Top} /\ request[e].to \notin DescendantIds(request[e].cat)
    BY <2>1, <1>t DEF FreshIsTrue
  <2>3. CASE request[e].cat \in rows
    BY <2>1, <2>2, <2>3, <1>3, <1>t, MoveKeepsForest DEF UpdateCategory
  <2>4. CASE request[e].cat \notin rows
    BY <2>4, <1>1, <1>3 DEF UpdateCategory
  <2> QED
    BY <2>3, <2>4
<1>4. ASSUME NEW e \in Editor, DeleteCategory(e) PROVE Acyclic'
  <2>1. request[e].fresh /\ request[e].at = "delete"
    BY <1>4, <1>t, NotStale, EndIsNoRequest DEF DeleteCategory, Writing
  <2>2. request[e].cat \in rows /\ request[e].to = parent[request[e].cat]
    BY <2>1, <1>t DEF FreshIsTrue
  <2> QED
    BY <2>2, <1>4, <1>t, DeleteKeepsForest DEF DeleteCategory
<1>5. ASSUME NEW e \in Editor, AskCreate(e) \/ AskUpdate(e) \/ AskDelete(e) PROVE Acyclic'
  BY <1>1, <1>5 DEF AskCreate, AskUpdate, AskDelete
<1>6. ASSUME NEW e \in Editor,
             CycleGuard(e) \/ SubmitProduct(e) \/ GetCategoriesByPublicIds(e)
               \/ SetProductCategories(e) \/ EditorDies(e)
      PROVE  Acyclic'
  BY <1>1, <1>6 DEF CycleGuard, SubmitProduct, GetCategoriesByPublicIds, SetProductCategories,
                    EditorDies
<1>7. ASSUME NEW p \in Product, DeleteProduct(p) PROVE Acyclic'
  BY <1>1, <1>7 DEF DeleteProduct
<1>8. CASE UNCHANGED vars
  BY <1>1, <1>8 DEF vars
<1> QED
  BY <1>2, <1>3, <1>4, <1>5, <1>6, <1>7, <1>8 DEF Next

\* For any number of categories and editors, a cycle is made only by a request that
\* writes after another has written since it read: the guard of the update and the
\* reparenting of a delete are right by themselves.
THEOREM CycleNeedsARace == Spec => CycleNeedsStaleWrite
<1>1. IInv /\ [Next]_vars => [Acyclic /\ ~Acyclic' => StaleWrite]_vars
  BY CycleStep
<1> QED
  BY <1>1, InvInit, InvStep, PTL DEF Spec, CycleNeedsStaleWrite

LEMMA OrphanStep == IInv /\ [Next]_vars => (Acyclic /\ Connected /\ ~Connected' => StaleWrite)
<1> SUFFICES ASSUME IInv, [Next]_vars, Acyclic, Connected, ~StaleWrite PROVE Connected'
  OBVIOUS
<1>t. TypeOK /\ NothingAhead /\ \A e \in Editor : FreshIsTrue(e)
  BY DEF IInv
<1>1. ASSUME UNCHANGED <<rows, parent, links>>,
             \A p \in Product : product[p] = "listed" => product'[p] = "listed"
      PROVE  Connected'
  BY <1>1, <1>t DEF Connected, TypeOK
<1>2. ASSUME NEW e \in Editor, CreateCategory(e) PROVE Connected'
  <2>1. PICK c \in Category \ used : /\ rows' = rows \cup {c}
                                    /\ parent' = [parent EXCEPT ![c] = request[e].to]
    BY <1>2 DEF CreateCategory
  <2>2. request[e].fresh /\ request[e].at = "create"
    BY <1>2, <1>t, NotStale, EndIsNoRequest DEF CreateCategory, Writing
  <2>3. request[e].to \in rows \cup {Top}
    BY <2>2, <1>t DEF FreshIsTrue
  <2> QED
    BY <1>2, <2>1, <2>3, <1>t DEF CreateCategory, Connected, TypeOK
<1>3. ASSUME NEW e \in Editor, UpdateCategory(e) PROVE Connected'
  <2>1. request[e].fresh /\ request[e].at = "update" /\ rows' = rows
    BY <1>3, <1>t, NotStale, EndIsNoRequest DEF UpdateCategory, Writing
  <2>2. request[e].to \in rows \cup {Top}
    BY <2>1, <1>t DEF FreshIsTrue
  <2> QED
    BY <1>3, <2>1, <2>2, <1>t DEF UpdateCategory, Connected, TypeOK
<1>4. ASSUME NEW e \in Editor, DeleteCategory(e) PROVE Connected'
  <2> DEFINE c == request[e].cat
  <2>1. request[e].fresh /\ request[e].at = "delete"
    BY <1>4, <1>t, NotStale, EndIsNoRequest DEF DeleteCategory, Writing
  <2>2. c \in rows /\ request[e].to = parent[c]
    BY <2>1, <1>t DEF FreshIsTrue
  <2>3. parent[c] # c
    <3>1. {c} \in SUBSET rows /\ {c} # {}
      BY <2>2
    <3> QED
      BY <3>1 DEF Acyclic
  <2>4. \A d \in rows \ {c} : parent'[d] \in (rows \ {c}) \cup {Top}
    BY <1>4, <1>t, <2>2, <2>3 DEF DeleteCategory, Reparented, Children, Connected, TypeOK
  <2>5. \A k \in links' : product'[k[1]] = "listed" /\ k[2] \in rows \ {c}
    BY <1>4 DEF DeleteCategory, Connected
  <2> QED
    BY <1>4, <2>4, <2>5 DEF DeleteCategory, Connected
<1>5. ASSUME NEW e \in Editor, SetProductCategories(e) PROVE Connected'
  <2>1. request[e].fresh /\ request[e].at = "tag"
    BY <1>5, <1>t, NotStale, EndIsNoRequest DEF SetProductCategories, Writing
  <2>2. request[e].tags \subseteq rows /\ product[request[e].product] = "listed"
    BY <2>1, <1>t DEF FreshIsTrue
  <2> QED
    BY <1>5, <2>2 DEF SetProductCategories, Relinked, Connected
<1>6. ASSUME NEW p \in Product, DeleteProduct(p) PROVE Connected'
  BY <1>6, <1>t DEF DeleteProduct, Connected, TypeOK
<1>7. ASSUME NEW e \in Editor, SubmitProduct(e) PROVE Connected'
  BY <1>1, <1>7, <1>t DEF SubmitProduct, TypeOK
<1>8. ASSUME NEW e \in Editor, AskCreate(e) \/ AskUpdate(e) \/ AskDelete(e) PROVE Connected'
  BY <1>1, <1>8 DEF AskCreate, AskUpdate, AskDelete
<1>9. ASSUME NEW e \in Editor, CycleGuard(e) \/ GetCategoriesByPublicIds(e) \/ EditorDies(e)
      PROVE  Connected'
  BY <1>1, <1>9 DEF CycleGuard, GetCategoriesByPublicIds, EditorDies
<1>10. CASE UNCHANGED vars
  BY <1>1, <1>10 DEF vars
<1> QED
  BY <1>2, <1>3, <1>4, <1>5, <1>6, <1>7, <1>8, <1>9, <1>10 DEF Next

\* For any number of categories, products and editors, a parent or a link that refers
\* to no row is left, where there is no cycle, only by such an overtaken write.
THEOREM OrphanNeedsARace == Spec => OrphanNeedsStaleWrite
<1>1. IInv /\ [Next]_vars => [Acyclic /\ Connected /\ ~Connected' => StaleWrite]_vars
  BY OrphanStep
<1> QED
  BY <1>1, InvInit, InvStep, PTL DEF Spec, OrphanNeedsStaleWrite

\* With the children of a deleted category under its parent, what descended through
\* it still does.
LEMMA DeleteKeepsDescendants ==
    ASSUME TypeOK, NEW x \in rows, parent[x] # x, rows' = rows \ {x},
           parent' = Reparented(x, parent[x]), NEW c \in rows \ {x}
    PROVE  DescendantIds(c)' = DescendantIds(c) \ {x}
<1>1. \A d \in rows \ {x} : parent'[d] = IF parent[d] = x THEN parent[x] ELSE parent[d]
  BY DEF Reparented, Children, TypeOK
<1>2. \A S : Closed(S) <=> \A y \in S : \A d \in rows : parent[d] = y => d \in S
  BY DEF Closed, Children
<1>3. \A S : Closed(S)' <=> \A y \in S : \A d \in rows \ {x} : parent'[d] = y => d \in S
  BY DEF Closed, Children
<1>4. ASSUME NEW d \in DescendantIds(c), d # x
      PROVE  d \in DescendantIds(c)'
  <2> SUFFICES ASSUME NEW S \in SUBSET (rows \ {x}), c \in S, Closed(S)'
               PROVE  d \in S
    BY <1>4 DEF DescendantIds
  <2> DEFINE T == IF parent[x] \in S THEN S \cup {x} ELSE S
  <2>1. Closed(T)
    <3>1. SUFFICES ASSUME NEW y \in T, NEW z \in rows, parent[z] = y, z \notin T
                   PROVE  FALSE
      BY <1>2
    <3>2. CASE z = x
      BY <3>1, <3>2
    <3>3. CASE z # x
      BY <1>1, <1>3, <3>1, <3>3
    <3> QED BY <3>2, <3>3
  <2>2. T \in SUBSET rows /\ c \in T
    OBVIOUS
  <2> QED BY <1>4, <2>1, <2>2 DEF DescendantIds
<1>5. ASSUME NEW d \in DescendantIds(c)'
      PROVE  d \in DescendantIds(c) \ {x}
  <2>1. d \in rows \ {x}
    BY <1>5 DEF DescendantIds
  <2> SUFFICES ASSUME NEW S \in SUBSET rows, c \in S, Closed(S)
               PROVE  d \in S
    BY <2>1 DEF DescendantIds
  <2>2. Closed(S \ {x})'
    <3>1. SUFFICES ASSUME NEW y \in S \ {x}, NEW z \in rows \ {x}, parent'[z] = y
                   PROVE  z \in S
      BY <1>3
    <3>2. CASE parent[z] = x
      <4>1. x \in S
        BY <1>1, <1>2, <3>1, <3>2
      <4> QED BY <1>2, <3>2, <4>1
    <3>3. CASE parent[z] # x
      BY <1>1, <1>2, <3>1, <3>3
    <3> QED BY <3>2, <3>3
  <2>3. S \ {x} \in SUBSET (rows \ {x}) /\ c \in S \ {x}
    OBVIOUS
  <2> QED BY <1>5, <2>2, <2>3 DEF DescendantIds
<1> QED
  BY <1>4, <1>5 DEF DescendantIds

\* A new category adds at most itself to what descends from another.
LEMMA CreateKeepsDescendants ==
    ASSUME TypeOK, NothingAhead, NEW x \in Category \ used, NEW to \in used \cup {Top},
           rows' = rows \cup {x}, parent' = [parent EXCEPT ![x] = to], NEW c \in rows
    PROVE  DescendantIds(c)' \ {x} = DescendantIds(c)
<1>1. \A d \in rows : parent'[d] = parent[d] /\ parent[d] # x /\ d # x
  BY CategoryAssumption DEF TypeOK, NothingAhead
<1>2. x \notin rows /\ parent'[x] = to /\ to # x
  BY CategoryAssumption DEF TypeOK
<1>3. \A S : Closed(S) <=> \A y \in S : \A d \in rows : parent[d] = y => d \in S
  BY DEF Closed, Children
<1>4. \A S : Closed(S)' <=> \A y \in S : \A d \in rows \cup {x} : parent'[d] = y => d \in S
  BY DEF Closed, Children
<1>5. ASSUME NEW d \in DescendantIds(c)
      PROVE  d \in DescendantIds(c)' \ {x}
  <2>1. d \in rows
    BY DEF DescendantIds
  <2> SUFFICES ASSUME NEW S \in SUBSET (rows \cup {x}), c \in S, Closed(S)'
               PROVE  d \in S
    BY <1>2, <2>1 DEF DescendantIds
  <2>2. Closed(S \cap rows)
    BY <1>1, <1>3, <1>4
  <2> QED BY <1>5, <2>2 DEF DescendantIds
<1>6. ASSUME NEW d \in DescendantIds(c)', d # x
      PROVE  d \in DescendantIds(c)
  <2>1. d \in rows
    BY <1>6 DEF DescendantIds
  <2> SUFFICES ASSUME NEW S \in SUBSET rows, c \in S, Closed(S)
               PROVE  d \in S
    BY <2>1 DEF DescendantIds
  <2>2. Closed(S \cup {x})'
    BY <1>1, <1>2, <1>3, <1>4
  <2>3. S \cup {x} \in SUBSET (rows \cup {x})
    OBVIOUS
  <2> QED BY <1>6, <2>2, <2>3 DEF DescendantIds
<1> QED
  BY <1>5, <1>6

\* What the page of c lists after a step, by the links there are then.
Relisted(c) == {p \in Product : \E d \in DescendantIds(c) : <<p, d>> \in links'}

LEMMA ListingStep ==
    ASSUME IInv, [Next]_vars, Acyclic, Connected, rows' # rows, ~StaleWrite,
           NEW c \in rows \cap rows'
    PROVE  ProductsInCategory(c)' = Relisted(c)
<1>t. TypeOK /\ NothingAhead /\ \A e \in Editor : FreshIsTrue(e)
  BY DEF IInv
<1>1. ASSUME NEW e \in Editor, CreateCategory(e)
      PROVE  ProductsInCategory(c)' = Relisted(c)
  <2>1. PICK x \in Category \ used : /\ rows' = rows \cup {x}
                                    /\ parent' = [parent EXCEPT ![x] = request[e].to]
    BY <1>1 DEF CreateCategory
  <2>2. request[e].to \in used \cup {Top}
    BY <1>1, <1>t DEF CreateCategory, NothingAhead
  <2>3. DescendantIds(c)' \ {x} = DescendantIds(c)
    BY <2>1, <2>2, <1>t, CreateKeepsDescendants
  <2>4. \A p \in Product : <<p, x>> \notin links'
    BY <1>1, <2>1, <1>t DEF CreateCategory, Connected, TypeOK
  <2> QED BY <2>3, <2>4 DEF ProductsInCategory, Relisted
<1>2. ASSUME NEW e \in Editor, DeleteCategory(e)
      PROVE  ProductsInCategory(c)' = Relisted(c)
  <2> DEFINE x == request[e].cat
  <2>1. request[e].fresh /\ request[e].at = "delete"
    BY <1>2, <1>t, NotStale, EndIsNoRequest DEF DeleteCategory, Writing
  <2>2. x \in rows /\ request[e].to = parent[x]
    BY <2>1, <1>t DEF FreshIsTrue
  <2>3. parent[x] # x
    <3>1. {x} \in SUBSET rows /\ {x} # {}
      BY <2>2
    <3> QED BY <3>1 DEF Acyclic
  <2>4. rows' = rows \ {x} /\ parent' = Reparented(x, parent[x])
    BY <1>2, <2>2 DEF DeleteCategory
  <2>5. DescendantIds(c)' = DescendantIds(c) \ {x}
    BY <1>t, <2>2, <2>3, <2>4, DeleteKeepsDescendants
  <2>6. \A p \in Product : <<p, x>> \notin links'
    BY <1>2 DEF DeleteCategory
  <2> QED BY <2>5, <2>6 DEF ProductsInCategory, Relisted
<1>3. ASSUME \/ \E e \in Editor :
                   \/ AskCreate(e) \/ AskUpdate(e) \/ CycleGuard(e) \/ UpdateCategory(e)
                   \/ AskDelete(e) \/ SubmitProduct(e) \/ GetCategoriesByPublicIds(e)
                   \/ SetProductCategories(e) \/ EditorDies(e)
             \/ \E p \in Product : DeleteProduct(p)
             \/ UNCHANGED vars
      PROVE  FALSE
  <2>1. rows' = rows
    BY <1>3 DEF AskCreate, AskUpdate, CycleGuard, UpdateCategory, AskDelete, SubmitProduct,
       GetCategoriesByPublicIds, SetProductCategories, EditorDies, DeleteProduct, vars
  <2> QED BY <2>1
<1> QED
  BY <1>1, <1>2, <1>3 DEF Next

\* For any number of categories, products and editors: adding or deleting a category
\* changes the page of no other, but for what was filed in the deleted one itself.
THEOREM ListingsFollowTheLinks == Spec => ListingFollowsLinks
<1>1. IInv /\ [Next]_vars =>
        [(Acyclic /\ Connected /\ rows' # rows /\ ~StaleWrite) =>
          \A c \in rows \cap rows' : ProductsInCategory(c)' = Relisted(c)]_vars
  BY ListingStep
<1> QED
  BY <1>1, InvInit, InvStep, PTL DEF Spec, ListingFollowsLinks, Relisted

-----------------------------------------------------------------------------
(* The menus: items in the order of their positions *)

\* No item of the menu stands between the two, the first before the second.
Adjacent(i, n) ==
    /\ i \in DOMAIN items /\ n \in DOMAIN items
    /\ items[i].location = items[n].location
    /\ Nav!Before(i, n)
    /\ \A k \in DOMAIN items \ {i, n} :
        items[k].location = items[i].location => Nav!Before(k, i) \/ Nav!Before(n, k)

\* The two positions, the other way round.
IsExchange(order, i, n) ==
    /\ DOMAIN order = {i, n}
    /\ order[i] = items[n].position /\ order[n] = items[i].position

\* A whole menu, and no two of its items at one position.
IsWholeMenu(order) ==
    /\ \E l \in Location : DOMAIN order = Nav!Menu(l)
    /\ \A i, j \in DOMAIN order : i # j => order[i] # order[j]

Below(order) == \A i \in DOMAIN order : order[i] \in Nat /\ order[i] < last

\* What a request holds, and what it still knows when nothing has overtaken it.
MoveKnows(r) ==
    /\ DOMAIN r = {"at", "item", "row", "up", "fresh"} /\ r.at = "neighbour"
    /\ r.row \in Nav!Rows /\ r.row.position < last
    /\ r.fresh => r.item \in DOMAIN items /\ items[r.item] = r.row

ReorderKnows(r) ==
    /\ DOMAIN r = {"at", "location", "order", "fresh"} /\ r.at = "permutation"
    /\ r.location \in Location
    /\ Below(r.order)
    /\ \A i, j \in DOMAIN r.order : i # j => r.order[i] # r.order[j]

WriteKnows(r) ==
    /\ DOMAIN r = {"at", "order", "fresh"} /\ r.at = "write"
    /\ Below(r.order)
    /\ r.fresh => \/ IsWholeMenu(r.order)
                  \/ \E i, n \in DOMAIN items : Adjacent(i, n) /\ IsExchange(r.order, i, n)

RequestKnows(r) ==
    \/ r = Nav!NoRequest
    \/ r.fresh \in BOOLEAN /\ (MoveKnows(r) \/ ReorderKnows(r) \/ WriteKnows(r))

\* The inductive invariant: no position, in a row or in what a request has read,
\* reaches the number of ids given out, so that a next position can be found, and a
\* request that nothing has overtaken holds a whole menu or two neighbours.
NavInv ==
    /\ Nav!TypeOK
    /\ \A i \in DOMAIN items : items[i].position < last
    /\ DOMAIN asked = Editor
    /\ \A e \in Editor : RequestKnows(asked[e])

LEMMA NavInvInit == Nav!Init => NavInv
<1> SUFFICES ASSUME Nav!Init PROVE NavInv
  OBVIOUS
<1>1. DOMAIN items = {}
  BY DEF Nav!Init
<1>2. last = 0 /\ public \subseteq Page /\ 0 \in 0 .. MaxItem
  BY ItemAssumption DEF Nav!Init
<1>3. asked = [e \in Editor |-> Nav!NoRequest]
  BY DEF Nav!Init
<1>4. Nav!TypeOK
  BY <1>1, <1>2, <1>3 DEF Nav!TypeOK, Nav!NoRequest
<1> QED
  BY <1>1, <1>3, <1>4 DEF NavInv, RequestKnows

\* Of finitely many items one comes first, and one last.
LEMMA FirstAndLast ==
    ASSUME NEW S, IsFiniteSet(S), S # {}, S \subseteq Nat, NEW P, \A i \in S : P[i] \in Nat
    PROVE  /\ \E j \in S : \A k \in S \ {j} : P[j] < P[k] \/ (P[j] = P[k] /\ j < k)
           /\ \E j \in S : \A k \in S \ {j} : P[k] < P[j] \/ (P[k] = P[j] /\ k < j)
<1> DEFINE Less(i, j) == P[i] < P[j] \/ (P[i] = P[j] /\ i < j)
           Up == {x \in S \X S : Less(x[1], x[2])}
           Down == {x \in S \X S : Less(x[2], x[1])}
<1>1. /\ \A i, j \in S : i # j => Less(i, j) \/ Less(j, i)
      /\ \A i \in S : ~Less(i, i)
      /\ \A i, j, k \in S : Less(i, j) /\ Less(j, k) => Less(i, k)
  OBVIOUS
<1> HIDE DEF Less
<1>2. \E j \in S : \A k \in S : <<k, j>> \notin Up
  <2>1. /\ \A i \in S : <<i, i>> \notin Up
        /\ \A i, j, k \in S : <<i, j>> \in Up /\ <<j, k>> \in Up => <<i, k>> \in Up
    BY <1>1
  <2> HIDE DEF Up
  <2> QED BY <2>1, Minimal
<1>3. \E j \in S : \A k \in S : <<k, j>> \notin Down
  <2>1. /\ \A i \in S : <<i, i>> \notin Down
        /\ \A i, j, k \in S : <<i, j>> \in Down /\ <<j, k>> \in Down => <<i, k>> \in Down
    BY <1>1
  <2> HIDE DEF Down
  <2> QED BY <2>1, Minimal
<1>4. /\ \E j \in S : \A k \in S \ {j} : Less(j, k)
      /\ \E j \in S : \A k \in S \ {j} : Less(k, j)
  BY <1>1, <1>2, <1>3
<1> QED
  BY <1>4 DEF Less

\* Navigation counts as every module does.
LEMMA SameCardinality == \A S : Nav!Cardinality(S) = Cardinality(S)
  BY DEF Nav!Cardinality, Cardinality, Nav!IsFiniteSet, IsFiniteSet

LEMMA ItemsAreFinite ==
    ASSUME NavInv, NEW S \in SUBSET DOMAIN items
    PROVE  /\ IsFiniteSet(S) /\ S \subseteq Nat
           /\ Cardinality(S) \in Nat /\ Cardinality(S) <= last
<1>1. last \in Nat /\ DOMAIN items \subseteq 1 .. last
  BY ItemAssumption DEF NavInv, Nav!TypeOK
<1>2. IsFiniteSet(1 .. last) /\ Cardinality(1 .. last) = last
  BY <1>1, FS_Interval
<1>3. S \in SUBSET (1 .. last)
  BY <1>1
<1>4. IsFiniteSet(S) /\ Cardinality(S) <= last
  BY <1>2, <1>3, FS_Subset
<1> QED
  BY <1>1, <1>3, <1>4, FS_CardinalityType

\* A new item comes after all that the menu has.
LEMMA NextIsLast ==
    ASSUME NavInv, NEW l \in Location
    PROVE  /\ Nav!NextPosition(l) \in 0 .. last
           /\ \A i \in Nav!Menu(l) : items[i].position < Nav!NextPosition(l)
<1> DEFINE M == Nav!Menu(l)
           IsNext(n) == /\ \A i \in M : Nav!Position(i) < n
                        /\ n = 0 \/ \E i \in M : Nav!Position(i) = n - 1
<1>1. /\ last \in Nat /\ MaxItem \in Nat /\ last <= MaxItem
      /\ \A i \in M : Nav!Position(i) \in Nat /\ Nav!Position(i) < last
  BY ItemAssumption DEF NavInv, Nav!TypeOK, Nav!Rows, Nav!Menu, Nav!Position
<1>2. \E n \in 0 .. last : IsNext(n)
  <2>1. CASE M = {}
    BY <1>1, <2>1
  <2>2. CASE M # {}
    <3> DEFINE P == [i \in M |-> Nav!Position(i)]
    <3>1. IsFiniteSet(M) /\ M \subseteq Nat
      BY ItemsAreFinite DEF Nav!Menu
    <3>2. \A i \in M : P[i] \in Nat
      BY <1>1
    <3>3. \E j \in M : \A k \in M \ {j} : P[k] < P[j] \/ (P[k] = P[j] /\ k < j)
      <4> HIDE DEF P, M
      <4> QED BY <2>2, <3>1, <3>2, FirstAndLast
    <3>4. PICK j \in M : \A k \in M \ {j} : P[k] <= P[j]
      BY <3>2, <3>3
    <3>5. IsNext(P[j] + 1) /\ P[j] + 1 \in 0 .. last
      BY <1>1, <3>4
    <3> QED BY <3>5
  <2> QED BY <2>1, <2>2
<1>3. \E n \in 0 .. MaxItem : IsNext(n)
  BY <1>1, <1>2
<1>4. Nav!NextPosition(l) = CHOOSE n \in 0 .. MaxItem : IsNext(n)
  BY DEF Nav!NextPosition
<1>5. Nav!NextPosition(l) \in 0 .. MaxItem /\ IsNext(Nav!NextPosition(l))
  <2> HIDE DEF IsNext
  <2> QED BY <1>3, <1>4
<1> QED
  BY <1>1, <1>5 DEF Nav!Position

\* The neighbour that is found is the next item on the side that was asked for.
LEMMA NeighbourIsNext ==
    ASSUME NavInv, NEW e \in Editor, asked[e].at = "neighbour", Nav!OnThatSide(e) # {}
    PROVE  /\ Nav!Neighbour(e) \in Nav!OnThatSide(e)
           /\ \A k \in Nav!OnThatSide(e) \ {Nav!Neighbour(e)} :
                IF asked[e].up THEN Nav!Before(k, Nav!Neighbour(e))
                               ELSE Nav!Before(Nav!Neighbour(e), k)
<1> DEFINE S == Nav!OnThatSide(e)
           P == [i \in S |-> Nav!Position(i)]
           IsNext(j) == \A k \in S \ {j} : IF asked[e].up THEN Nav!Before(k, j)
                                                         ELSE Nav!Before(j, k)
<1>1. S \in SUBSET DOMAIN items
  BY DEF Nav!OnThatSide, Nav!Menu
<1>2. IsFiniteSet(S) /\ S \subseteq Nat
  BY <1>1, ItemsAreFinite
<1>3. \A i \in S : P[i] \in Nat
  BY <1>1 DEF NavInv, Nav!TypeOK, Nav!Rows, Nav!Position
<1>4. /\ \E j \in S : \A k \in S \ {j} : P[j] < P[k] \/ (P[j] = P[k] /\ j < k)
      /\ \E j \in S : \A k \in S \ {j} : P[k] < P[j] \/ (P[k] = P[j] /\ k < j)
  <2> HIDE DEF P, S
  <2> QED BY <1>2, <1>3, FirstAndLast DEF S
<1>5. \E j \in S : IsNext(j)
  <2> HIDE DEF S
  <2> QED BY <1>4 DEF Nav!Before
<1>6. Nav!Neighbour(e) = CHOOSE j \in S : IsNext(j)
  BY DEF Nav!Neighbour
<1> HIDE DEF IsNext, S
<1>7. Nav!Neighbour(e) \in S /\ IsNext(Nav!Neighbour(e))
  BY <1>5, <1>6
<1> QED
  BY <1>7 DEF IsNext, S

\* A fresh request finds an item that stands next to its own.
LEMMA NeighbourIsAdjacent ==
    ASSUME NavInv, NEW e \in Editor, asked[e].at = "neighbour", Nav!OnThatSide(e) # {},
           asked[e].fresh
    PROVE  LET i == asked[e].item
               n == Nav!Neighbour(e)
           IN i # n /\ (Adjacent(i, n) \/ Adjacent(n, i))
<1> DEFINE i == asked[e].item
           n == Nav!Neighbour(e)
           S == Nav!OnThatSide(e)
<1>1. i \in DOMAIN items /\ items[i] = asked[e].row
  BY DEF NavInv, RequestKnows, MoveKnows, ReorderKnows, WriteKnows, Nav!NoRequest
<1>2. /\ DOMAIN items \subseteq Nat
      /\ \A k \in DOMAIN items : items[k].position \in Nat
  BY ItemsAreFinite DEF NavInv, Nav!TypeOK, Nav!Rows
<1>3. S = {j \in Nav!Menu(items[i].location) :
              IF asked[e].up THEN Nav!Before(j, i) ELSE Nav!Before(i, j)}
  BY <1>1 DEF Nav!OnThatSide, Nav!Before, Nav!Position
<1>4. n \in S /\ \A k \in S \ {n} :
                   IF asked[e].up THEN Nav!Before(k, n) ELSE Nav!Before(n, k)
  BY NeighbourIsNext
<1> HIDE DEF i, n, S
<1>5. n \in DOMAIN items /\ items[n].location = items[i].location
  BY <1>3, <1>4 DEF Nav!Menu
<1>6. /\ ~Nav!Before(i, i)
      /\ \A k \in DOMAIN items \ {i} : Nav!Before(k, i) \/ Nav!Before(i, k)
  BY <1>1, <1>2 DEF Nav!Before, Nav!Position
<1>7. CASE asked[e].up
  <2>1. Nav!Before(n, i) /\ i # n
    BY <1>3, <1>4, <1>6, <1>7
  <2>2. ASSUME NEW k \in DOMAIN items \ {n, i}, items[k].location = items[n].location
        PROVE  Nav!Before(k, n) \/ Nav!Before(i, k)
    BY <1>3, <1>4, <1>5, <1>6, <1>7, <2>2 DEF Nav!Menu
  <2> QED
    BY <1>1, <1>5, <2>1, <2>2 DEF Adjacent, i, n
<1>8. CASE ~asked[e].up
  <2>1. Nav!Before(i, n) /\ i # n
    BY <1>3, <1>4, <1>6, <1>8
  <2>2. ASSUME NEW k \in DOMAIN items \ {n, i}, items[k].location = items[i].location
        PROVE  Nav!Before(k, i) \/ Nav!Before(n, k)
    BY <1>3, <1>4, <1>5, <1>6, <1>8, <2>2 DEF Nav!Menu
  <2> QED
    BY <1>1, <1>5, <2>1, <2>2 DEF Adjacent, i, n
<1> QED
  BY <1>7, <1>8 DEF i, n

\* A request that has been overtaken claims nothing of the rows.
LEMMA OvertakenKnows ==
    ASSUME NavInv, NEW e \in Editor, last' \in Nat, last <= last',
           asked'[e] = Nav!Overtaken[e] \/ asked'[e] = Nav!NoRequest
    PROVE  RequestKnows(asked[e])'
<1> DEFINE r == asked[e]
           q == asked'[e]
<1>1. last \in Nat /\ RequestKnows(r)
  BY ItemAssumption DEF NavInv, Nav!TypeOK
<1>2. CASE q = Nav!NoRequest
  BY <1>2 DEF RequestKnows, Nav!NoRequest
<1>3. CASE q = Nav!Overtaken[e] /\ r # Nav!NoRequest
  <2>1. /\ DOMAIN q = DOMAIN r /\ ("fresh" \in DOMAIN r => q.fresh = FALSE)
        /\ \A x \in DOMAIN r : x # "fresh" => q[x] = r[x]
    BY <1>3 DEF Nav!Overtaken
  <2>2. CASE MoveKnows(r)
    <3>1. /\ DOMAIN q = {"at", "item", "row", "up", "fresh"}
          /\ q.at = "neighbour" /\ q.fresh = FALSE /\ q.row = r.row
      BY <2>1, <2>2 DEF MoveKnows
    <3>2. r.row \in Nav!Rows /\ r.row.position < last'
      BY <1>1, <2>2 DEF MoveKnows, Nav!Rows
    <3>3. MoveKnows(asked[e])'
      BY <3>1, <3>2 DEF MoveKnows, Nav!Rows
    <3> QED
      BY <3>1, <3>3 DEF RequestKnows
  <2>3. CASE ReorderKnows(r)
    <3>1. /\ DOMAIN q = {"at", "location", "order", "fresh"}
          /\ q.at = "permutation" /\ q.fresh = FALSE
          /\ q.order = r.order /\ q.location = r.location
      BY <2>1, <2>3 DEF ReorderKnows
    <3>2. \A i \in DOMAIN r.order : r.order[i] \in Nat /\ r.order[i] < last'
      BY <1>1, <2>3 DEF ReorderKnows, Below
    <3>3. ReorderKnows(asked[e])'
      BY <2>3, <3>1, <3>2 DEF ReorderKnows, Below
    <3> QED
      BY <3>1, <3>3 DEF RequestKnows
  <2>4. CASE WriteKnows(r)
    <3>1. /\ DOMAIN q = {"at", "order", "fresh"}
          /\ q.at = "write" /\ q.fresh = FALSE /\ q.order = r.order
      BY <2>1, <2>4 DEF WriteKnows
    <3>2. \A i \in DOMAIN r.order : r.order[i] \in Nat /\ r.order[i] < last'
      BY <1>1, <2>4 DEF WriteKnows, Below
    <3>3. WriteKnows(asked[e])'
      BY <3>1, <3>2 DEF WriteKnows, Below
    <3> QED
      BY <3>1, <3>3 DEF RequestKnows
  <2> QED
    BY <1>1, <1>3, <2>2, <2>3, <2>4 DEF RequestKnows
<1>4. CASE q = Nav!Overtaken[e] /\ r = Nav!NoRequest
  BY <1>2, <1>4 DEF Nav!Overtaken
<1> QED
  BY <1>2, <1>3, <1>4

\* A step of one request that writes no item.
LEMMA OneAsks ==
    ASSUME NavInv, UNCHANGED <<items, last, public>>, NEW e \in Editor,
           \A x \in Editor \ {e} : asked'[x] = asked[x], DOMAIN asked' = Editor,
           RequestKnows(asked[e])'
    PROVE  NavInv'
<1>1. ASSUME NEW x \in Editor PROVE RequestKnows(asked[x])'
  <2>1. CASE x = e
    BY <2>1
  <2>2. CASE x # e
    <3>1. asked'[x] = asked[x] /\ RequestKnows(asked[x])
      BY <2>2 DEF NavInv
    <3> QED
      BY <3>1 DEF RequestKnows, MoveKnows, ReorderKnows, WriteKnows, Nav!NoRequest, Below,
                  IsWholeMenu, Nav!Menu, Adjacent, IsExchange, Nav!Before, Nav!Position,
                  Nav!Rows
  <2> QED BY <2>1, <2>2
<1>2. \A x \in Editor : asked'[x].at \in {"idle", "neighbour", "permutation", "write"}
  BY <1>1 DEF RequestKnows, MoveKnows, ReorderKnows, WriteKnows, Nav!NoRequest
<1> QED
  BY <1>1, <1>2 DEF NavInv, Nav!TypeOK, Nav!Rows

\* A step that writes items: every request is overtaken.
LEMMA AllOvertaken ==
    ASSUME NavInv, last' \in 0 .. MaxItem, last <= last', public' = public,
           DOMAIN items' \subseteq 1 .. last', DOMAIN asked' = Editor,
           \A i \in DOMAIN items' : items'[i] \in Nav!Rows /\ items'[i].position < last',
           \A x \in Editor : asked'[x] = Nav!Overtaken[x] \/ asked'[x] = Nav!NoRequest
    PROVE  NavInv'
<1>1. ASSUME NEW x \in Editor PROVE RequestKnows(asked[x])'
  BY OvertakenKnows
<1>2. \A x \in Editor : asked'[x].at \in {"idle", "neighbour", "permutation", "write"}
  BY <1>1 DEF RequestKnows, MoveKnows, ReorderKnows, WriteKnows, Nav!NoRequest
<1> QED
  BY <1>1, <1>2 DEF NavInv, Nav!TypeOK, Nav!Rows

LEMMA AddKeeps ==
    ASSUME NavInv, NEW l \in Location, NEW t \in Singleton \cup Page, Nav!AddMenuItem(l, t)
    PROVE  NavInv'
<1>1. last \in Nat /\ last' = last + 1 /\ last' \in 0 .. MaxItem
  BY ItemAssumption DEF NavInv, Nav!TypeOK, Nav!AddMenuItem
<1>2. DOMAIN items' = DOMAIN items \cup {last + 1}
  BY DEF Nav!AddMenuItem
<1>3. \A i \in DOMAIN items : items'[i] = items[i]
  BY DEF Nav!AddMenuItem
<1>4. items'[last + 1] = [location |-> l, target |-> t, position |-> Nav!NextPosition(l)]
  <2>1. last + 1 \notin DOMAIN items
    BY <1>1 DEF NavInv, Nav!TypeOK
  <2> QED BY <2>1 DEF Nav!AddMenuItem
<1>5. \A i \in DOMAIN items' : items'[i] \in Nav!Rows /\ items'[i].position < last'
  <2>1. Nav!NextPosition(l) \in 0 .. last
    BY NextIsLast
  <2>2. items'[last + 1] \in Nav!Rows /\ items'[last + 1].position < last'
    BY <1>1, <1>4, <2>1 DEF Nav!Rows
  <2>3. \A i \in DOMAIN items : items[i] \in Nav!Rows /\ items[i].position < last
    BY DEF NavInv, Nav!TypeOK
  <2>4. \A i \in DOMAIN items : items[i].position < last'
    BY <1>1, <2>3 DEF Nav!Rows
  <2> QED
    BY <1>2, <1>3, <2>2, <2>3, <2>4
<1>6. DOMAIN items' \subseteq 1 .. last'
  BY <1>1, <1>2 DEF NavInv, Nav!TypeOK
<1>7. asked' = Nav!Overtaken /\ DOMAIN asked' = Editor /\ public' = public
  BY DEF Nav!AddMenuItem, Nav!Overtaken
<1> QED
  BY <1>1, <1>5, <1>6, <1>7, AllOvertaken

LEMMA RemoveKeeps ==
    ASSUME NavInv, NEW i \in DOMAIN items, Nav!RemoveMenuItem(i)
    PROVE  NavInv'
<1>1. last \in Nat /\ last' = last /\ last' \in 0 .. MaxItem /\ public' = public
  BY ItemAssumption DEF NavInv, Nav!TypeOK, Nav!RemoveMenuItem
<1>2. DOMAIN items' \subseteq DOMAIN items /\ \A j \in DOMAIN items' : items'[j] = items[j]
  BY DEF Nav!RemoveMenuItem
<1>3. \A j \in DOMAIN items : items[j] \in Nav!Rows /\ items[j].position < last
  BY DEF NavInv, Nav!TypeOK
<1>4. DOMAIN items' \subseteq 1 .. last'
  BY <1>1, <1>2 DEF NavInv, Nav!TypeOK
<1>5. asked' = Nav!Overtaken /\ DOMAIN asked' = Editor
  BY DEF Nav!RemoveMenuItem, Nav!Overtaken
<1> QED
  BY <1>1, <1>2, <1>3, <1>4, <1>5, AllOvertaken

LEMMA WriteKeeps ==
    ASSUME NavInv, NEW e \in Editor, Nav!WritePositions(e)
    PROVE  NavInv'
<1>1. last \in Nat /\ last' = last /\ last' \in 0 .. MaxItem /\ public' = public
  BY ItemAssumption DEF NavInv, Nav!TypeOK, Nav!WritePositions
<1>2. Below(asked[e].order)
  BY DEF NavInv, RequestKnows, MoveKnows, ReorderKnows, WriteKnows, Nav!NoRequest,
         Nav!WritePositions
<1>3. DOMAIN items' = DOMAIN items
  BY DEF Nav!WritePositions
<1>4. ASSUME NEW j \in DOMAIN items
      PROVE  items'[j] \in Nav!Rows /\ items'[j].position < last
  <2>1. items[j] \in Nav!Rows /\ items[j].position < last
    BY DEF NavInv, Nav!TypeOK
  <2>2. CASE j \in DOMAIN asked[e].order
    <3>1. items'[j] = [items[j] EXCEPT !.position = asked[e].order[j]]
      BY <2>2 DEF Nav!WritePositions
    <3> QED
      BY <1>2, <2>1, <2>2, <3>1 DEF Nav!Rows, Below
  <2>3. CASE j \notin DOMAIN asked[e].order
    BY <2>1, <2>3 DEF Nav!WritePositions
  <2> QED BY <2>2, <2>3
<1>5. DOMAIN items' \subseteq 1 .. last'
  BY <1>1, <1>3 DEF NavInv, Nav!TypeOK
<1>6. asked' = [Nav!Overtaken EXCEPT ![e] = Nav!NoRequest]
  BY DEF Nav!WritePositions, Nav!EndWritten
<1>7. /\ DOMAIN asked' = Editor
      /\ \A x \in Editor : asked'[x] = Nav!Overtaken[x] \/ asked'[x] = Nav!NoRequest
  BY <1>6 DEF Nav!Overtaken
<1> QED
  BY <1>1, <1>3, <1>4, <1>5, <1>7, AllOvertaken

LEMMA AskMoveKeeps ==
    ASSUME NavInv, NEW e \in Editor, Nav!AskMove(e)
    PROVE  NavInv'
<1>1. PICK i \in DOMAIN items, up \in BOOLEAN : asked' = [asked EXCEPT ![e] =
        [at |-> "neighbour", item |-> i, row |-> items[i], up |-> up, fresh |-> TRUE]]
  BY DEF Nav!AskMove
<1>2. /\ DOMAIN asked' = Editor /\ \A x \in Editor \ {e} : asked'[x] = asked[x]
      /\ asked'[e] = [at |-> "neighbour", item |-> i, row |-> items[i], up |-> up,
                      fresh |-> TRUE]
  BY <1>1 DEF NavInv
<1>3. items[i] \in Nav!Rows /\ items[i].position < last
  BY DEF NavInv, Nav!TypeOK
<1>4. UNCHANGED <<items, last, public>>
  BY DEF Nav!AskMove
<1>5. MoveKnows(asked[e])' /\ asked'[e].fresh \in BOOLEAN
  BY <1>2, <1>3, <1>4 DEF MoveKnows, Nav!Rows
<1> QED
  BY <1>2, <1>4, <1>5, OneAsks DEF RequestKnows

LEMMA FindKeeps ==
    ASSUME NavInv, NEW e \in Editor, Nav!FindNeighbour(e)
    PROVE  NavInv'
<1> DEFINE r == asked[e]
           i == r.item
           n == Nav!Neighbour(e)
           o == [k \in {i, n} |-> IF k = i THEN Nav!Position(n) ELSE r.row.position]
           none == Nav!OnThatSide(e) = {}
<1>1. MoveKnows(r) /\ r.fresh \in BOOLEAN /\ r.at = "neighbour"
  BY DEF NavInv, RequestKnows, ReorderKnows, WriteKnows, Nav!NoRequest, Nav!FindNeighbour
<1>2. UNCHANGED <<items, last, public>>
  BY DEF Nav!FindNeighbour
<1>3. asked' = [asked EXCEPT ![e] =
                  IF none THEN Nav!NoRequest
                  ELSE [at |-> "write", fresh |-> r.fresh, order |-> o]]
  BY DEF Nav!FindNeighbour
<1>4. /\ DOMAIN asked' = Editor /\ \A x \in Editor \ {e} : asked'[x] = asked[x]
      /\ none => asked'[e] = Nav!NoRequest
      /\ ~none => asked'[e] = [at |-> "write", fresh |-> r.fresh, order |-> o]
  BY <1>3 DEF NavInv
<1>5. CASE none
  BY <1>2, <1>4, <1>5, OneAsks DEF RequestKnows, Nav!NoRequest
<1>6. CASE ~none
  <2>1. n \in Nav!OnThatSide(e) /\ n \in DOMAIN items
    BY <1>1, <1>6, NeighbourIsNext DEF Nav!OnThatSide, Nav!Menu
  <2>2. Nav!Position(n) \in Nat /\ Nav!Position(n) < last
    BY <2>1 DEF NavInv, Nav!TypeOK, Nav!Rows, Nav!Position
  <2>3. r.row.position \in Nat /\ r.row.position < last
    BY <1>1 DEF MoveKnows, Nav!Rows
  <2>4. ASSUME r.fresh
        PROVE  \E a, b \in DOMAIN items : Adjacent(a, b) /\ IsExchange(o, a, b)
    <3>1. i # n /\ (Adjacent(i, n) \/ Adjacent(n, i))
      BY <1>1, <1>6, <2>4, NeighbourIsAdjacent
    <3>2. i \in DOMAIN items /\ r.row = items[i]
      BY <1>1, <2>4 DEF MoveKnows
    <3>3. IsExchange(o, i, n) /\ IsExchange(o, n, i)
      BY <3>1, <3>2 DEF IsExchange, Nav!Position
    <3> QED
      BY <2>1, <3>1, <3>2, <3>3
  <2>5. \A k \in DOMAIN o : o[k] \in Nat /\ o[k] < last
    BY <2>2, <2>3
  <2>6. WriteKnows(asked[e])'
    <3>1. /\ DOMAIN asked'[e] = {"at", "order", "fresh"} /\ asked'[e].at = "write"
          /\ asked'[e].order = o /\ asked'[e].fresh = r.fresh
      BY <1>4, <1>6
    <3> HIDE DEF o, none, r
    <3> QED
      BY <1>2, <2>4, <2>5, <3>1 DEF WriteKnows, Below, Adjacent, IsExchange,
                                    Nav!Before, Nav!Position
  <2>7. asked'[e].fresh \in BOOLEAN
    BY <1>1, <1>4, <1>6
  <2> QED
    BY <1>2, <1>4, <2>6, <2>7, OneAsks DEF RequestKnows
<1> QED
  BY <1>5, <1>6

LEMMA AskReorderKeeps ==
    ASSUME NavInv, NEW e \in Editor, Nav!AskReorder(e)
    PROVE  NavInv'
<1>a. PICK l \in Location : \E S \in SUBSET Nav!Menu(l) : \E o \in Nav!Orders(S) :
        asked' = [asked EXCEPT ![e] =
            [at |-> "permutation", location |-> l, order |-> o, fresh |-> TRUE]]
  BY DEF Nav!AskReorder
<1>b. PICK S \in SUBSET Nav!Menu(l) : \E o \in Nav!Orders(S) :
        asked' = [asked EXCEPT ![e] =
            [at |-> "permutation", location |-> l, order |-> o, fresh |-> TRUE]]
  BY <1>a
<1>1. PICK o \in Nav!Orders(S) :
        asked' = [asked EXCEPT ![e] =
            [at |-> "permutation", location |-> l, order |-> o, fresh |-> TRUE]]
  BY <1>b
<1>2. /\ DOMAIN asked' = Editor /\ \A x \in Editor \ {e} : asked'[x] = asked[x]
      /\ asked'[e] = [at |-> "permutation", location |-> l, order |-> o, fresh |-> TRUE]
  BY <1>1 DEF NavInv
<1>3. Cardinality(S) \in Nat /\ Cardinality(S) <= last
  BY ItemsAreFinite DEF Nav!Menu
<1>4. o \in [S -> 0 .. Cardinality(S) - 1] /\ \A i, j \in S : i # j => o[i] # o[j]
  BY SameCardinality DEF Nav!Orders
<1>5. UNCHANGED <<items, last, public>>
  BY DEF Nav!AskReorder
<1>6. last \in Nat
  BY ItemAssumption DEF NavInv, Nav!TypeOK
<1>7. \A i \in S : o[i] \in Nat /\ o[i] < last
  BY <1>3, <1>4, <1>6
<1>8. ReorderKnows(asked[e])' /\ asked'[e].fresh \in BOOLEAN
  BY <1>2, <1>4, <1>5, <1>7 DEF ReorderKnows, Below
<1> QED
  BY <1>2, <1>5, <1>8, OneAsks DEF RequestKnows

LEMMA CheckKeeps ==
    ASSUME NavInv, NEW e \in Editor, Nav!CheckPermutation(e)
    PROVE  NavInv'
<1> DEFINE r == asked[e]
<1>1. ReorderKnows(r) /\ r.fresh \in BOOLEAN
  BY DEF NavInv, RequestKnows, MoveKnows, WriteKnows, Nav!NoRequest, Nav!CheckPermutation
<1>2. UNCHANGED <<items, last, public>>
  BY DEF Nav!CheckPermutation
<1>3. /\ DOMAIN asked' = Editor /\ \A x \in Editor \ {e} : asked'[x] = asked[x]
      /\ \/ asked'[e] = Nav!NoRequest
         \/ /\ Nav!IsPermutation(e)
            /\ asked'[e] = [at |-> "write", order |-> r.order, fresh |-> r.fresh]
  BY DEF NavInv, Nav!CheckPermutation
<1>4. CASE asked'[e] = Nav!NoRequest
  BY <1>2, <1>3, <1>4, OneAsks DEF RequestKnows, Nav!NoRequest
<1>5. CASE /\ Nav!IsPermutation(e)
           /\ asked'[e] = [at |-> "write", order |-> r.order, fresh |-> r.fresh]
  <2>1. IsWholeMenu(r.order) /\ Below(r.order)
    BY <1>1, <1>5 DEF IsWholeMenu, ReorderKnows, Nav!IsPermutation
  <2>2. WriteKnows(asked[e])' /\ asked'[e].fresh \in BOOLEAN
    BY <1>1, <1>2, <1>5, <2>1 DEF WriteKnows, Below, IsWholeMenu, Nav!Menu
  <2> QED
    BY <1>2, <1>3, <2>2, OneAsks DEF RequestKnows
<1> QED
  BY <1>3, <1>4, <1>5

LEMMA DiesKeeps ==
    ASSUME NavInv, NEW e \in Editor, Nav!EditorDies(e)
    PROVE  NavInv'
<1>1. /\ DOMAIN asked' = Editor /\ \A x \in Editor \ {e} : asked'[x] = asked[x]
      /\ asked'[e] = Nav!NoRequest
      /\ UNCHANGED <<items, last, public>>
  BY DEF NavInv, Nav!EditorDies
<1> QED
  BY <1>1, OneAsks DEF RequestKnows, Nav!NoRequest

LEMMA SameKeeps ==
    ASSUME NavInv, UNCHANGED <<items, last, asked>>, public' \subseteq Page
    PROVE  NavInv'
<1>1. ASSUME NEW x \in Editor PROVE RequestKnows(asked[x])'
  <2>1. asked'[x] = asked[x] /\ RequestKnows(asked[x])
    BY DEF NavInv
  <2> QED
    BY <2>1 DEF RequestKnows, MoveKnows, ReorderKnows, WriteKnows, Nav!NoRequest, Below,
                IsWholeMenu, Nav!Menu, Adjacent, IsExchange, Nav!Before, Nav!Position,
                Nav!Rows
<1> QED
  BY <1>1 DEF NavInv, Nav!TypeOK, Nav!Rows

LEMMA NavInvStep == NavInv /\ [Nav!Next]_(Nav!vars) => NavInv'
<1> SUFFICES ASSUME NavInv, [Nav!Next]_(Nav!vars) PROVE NavInv'
  OBVIOUS
<1>1. ASSUME NEW p \in Page, Nav!Toggle(p) PROVE NavInv'
  BY <1>1, SameKeeps DEF Nav!Toggle, NavInv, Nav!TypeOK
<1>2. CASE UNCHANGED Nav!vars
  BY <1>2, SameKeeps DEF Nav!vars, NavInv, Nav!TypeOK
<1> QED
  BY <1>1, <1>2, AddKeeps, RemoveKeeps, WriteKeeps, AskMoveKeeps, FindKeeps,
     AskReorderKeeps, CheckKeeps, DiesKeeps DEF Nav!Next

-----------------------------------------------------------------------------
(* What a step does to the order of a menu *)

\* The property, of one step.
OrderNeedsNoLuck(l) ==
    \/ Nav!StaleWrite
    \/ /\ Nav!Untied(l)'
       /\ \A i \in Nav!Menu(l)' \ Nav!Menu(l), j \in Nav!Menu(l) : Nav!Before(j, i)'
       /\ Nav!Cardinality(Nav!Turned(l)) <= 1 \/ Nav!Reordered(l)

\* Where at most one pair is turned, the count says so.
LEMMA FewTurned ==
    ASSUME NEW l \in Location, NEW k, Nav!Turned(l) \subseteq {k}
    PROVE  Nav!Cardinality(Nav!Turned(l)) <= 1
<1>1. Nav!Turned(l) \in SUBSET {k} /\ IsFiniteSet({k}) /\ Cardinality({k}) = 1
  BY FS_Singleton
<1>2. Cardinality(Nav!Turned(l)) <= Cardinality({k})
  <2> HIDE DEF Nav!Turned
  <2> QED BY <1>1, FS_Subset
<1> QED
  BY <1>1, <1>2, SameCardinality

\* A menu whose items keep their positions, and where a new one comes last.
LEMMA KeptOrder ==
    ASSUME NEW l \in Location, Nav!Untied(l), NavInv, NavInv',
           \A i \in Nav!Menu(l)' : i \in Nav!Menu(l) =>
              items'[i].position = items[i].position,
           \A i \in Nav!Menu(l)' : i \notin Nav!Menu(l) =>
              \A j \in Nav!Menu(l) \cup (Nav!Menu(l)' \ {i}) :
                j \in DOMAIN items' /\ items'[j].position < items'[i].position
    PROVE  OrderNeedsNoLuck(l)
<1>1. Nav!Turned(l) \subseteq {<<0, 0>>}
  BY DEF Nav!Turned, Nav!Before, Nav!Position
<1>2. Nav!Cardinality(Nav!Turned(l)) <= 1
  BY <1>1, FewTurned
<1>3. \A i \in Nav!Menu(l)' : items'[i].position \in Nat
  BY DEF NavInv, Nav!TypeOK, Nav!Rows, Nav!Menu
<1>4. Nav!Untied(l)'
  <2> SUFFICES ASSUME NEW i \in Nav!Menu(l)', NEW j \in Nav!Menu(l)', i # j
               PROVE  items'[i].position # items'[j].position
    BY DEF Nav!Untied, Nav!Position, Nav!Menu
  <2>1. CASE i \in Nav!Menu(l) /\ j \in Nav!Menu(l)
    BY <2>1 DEF Nav!Untied, Nav!Position
  <2>2. CASE i \notin Nav!Menu(l)
    BY <1>3, <2>2
  <2>3. CASE j \notin Nav!Menu(l)
    BY <1>3, <2>3
  <2> QED BY <2>1, <2>2, <2>3
<1>5. \A i \in Nav!Menu(l)' \ Nav!Menu(l), j \in Nav!Menu(l) : Nav!Before(j, i)'
  BY DEF Nav!Before, Nav!Position
<1> QED
  BY <1>2, <1>4, <1>5 DEF OrderNeedsNoLuck

LEMMA AddOrder ==
    ASSUME NavInv, NavInv', NEW m \in Location, NEW t, Nav!AddMenuItem(m, t),
           NEW l \in Location, Nav!Untied(l)
    PROVE  OrderNeedsNoLuck(l)
<1>1. /\ last \in Nat /\ last + 1 \notin DOMAIN items
      /\ DOMAIN items' = DOMAIN items \cup {last + 1}
      /\ \A i \in DOMAIN items : items'[i] = items[i]
  BY ItemAssumption DEF NavInv, Nav!TypeOK, Nav!AddMenuItem
<1>2. items'[last + 1] = [location |-> m, target |-> t, position |-> Nav!NextPosition(m)]
  BY <1>1 DEF Nav!AddMenuItem
<1>3. \A i \in Nav!Menu(m) : items[i].position < Nav!NextPosition(m)
  BY NextIsLast
<1>4. \A i \in Nav!Menu(l)' : i \in Nav!Menu(l) \/ (i = last + 1 /\ l = m)
  BY <1>1, <1>2 DEF Nav!Menu
<1>5. \A j \in Nav!Menu(l) : j \in DOMAIN items /\ j \in DOMAIN items' /\ items'[j] = items[j]
  BY <1>1 DEF Nav!Menu
<1>6. ASSUME NEW i \in Nav!Menu(l)', i \notin Nav!Menu(l),
             NEW j \in Nav!Menu(l) \cup (Nav!Menu(l)' \ {i})
      PROVE  j \in DOMAIN items' /\ items'[j].position < items'[i].position
  <2>1. i = last + 1 /\ l = m /\ j \in Nav!Menu(l)
    BY <1>4, <1>6
  <2> QED
    BY <1>2, <1>3, <1>5, <2>1
<1> QED
  BY <1>5, <1>6, KeptOrder

LEMMA RemoveOrder ==
    ASSUME NavInv, NavInv', NEW i \in DOMAIN items, Nav!RemoveMenuItem(i),
           NEW l \in Location, Nav!Untied(l)
    PROVE  OrderNeedsNoLuck(l)
<1>1. /\ DOMAIN items' \subseteq DOMAIN items
      /\ \A j \in DOMAIN items' : items'[j] = items[j]
  BY DEF Nav!RemoveMenuItem
<1>2. \A j \in Nav!Menu(l)' : j \in Nav!Menu(l) /\ items'[j] = items[j]
  BY <1>1 DEF Nav!Menu
<1> QED
  BY <1>2, KeptOrder

LEMMA UnwrittenOrder ==
    ASSUME NavInv, NavInv', items' = items, NEW l \in Location, Nav!Untied(l)
    PROVE  OrderNeedsNoLuck(l)
<1>1. \A j \in Nav!Menu(l)' : j \in Nav!Menu(l) /\ items'[j] = items[j]
  BY DEF Nav!Menu
<1> QED
  BY <1>1, KeptOrder

\* What the batch leaves.
LEMMA Written ==
    ASSUME NavInv, NEW e \in Editor, Nav!WritePositions(e)
    PROVE  /\ DOMAIN items' = DOMAIN items
           /\ \A i \in DOMAIN items :
                /\ items'[i].location = items[i].location
                /\ i \in DOMAIN asked[e].order => items'[i].position = asked[e].order[i]
                /\ i \notin DOMAIN asked[e].order => items'[i] = items[i]
           /\ asked'[e] = Nav!NoRequest
           /\ WriteKnows(asked[e])
<1>1. DOMAIN items' = DOMAIN items
  BY DEF Nav!WritePositions
<1>2. ASSUME NEW i \in DOMAIN items
      PROVE  /\ items'[i].location = items[i].location
             /\ i \in DOMAIN asked[e].order => items'[i].position = asked[e].order[i]
             /\ i \notin DOMAIN asked[e].order => items'[i] = items[i]
  <2>1. items[i] \in Nav!Rows
    BY DEF NavInv, Nav!TypeOK
  <2>2. items'[i] = IF i \in DOMAIN asked[e].order
                    THEN [items[i] EXCEPT !.position = asked[e].order[i]] ELSE items[i]
    BY DEF Nav!WritePositions
  <2> QED
    BY <2>1, <2>2 DEF Nav!Rows
<1>3. asked'[e] = Nav!NoRequest
  BY DEF Nav!WritePositions, Nav!EndWritten, Nav!Overtaken
<1>4. WriteKnows(asked[e])
  BY DEF NavInv, RequestKnows, MoveKnows, ReorderKnows, Nav!NoRequest, Nav!WritePositions
<1> QED
  BY <1>1, <1>2, <1>3, <1>4

\* Two items that stand next to each other exchange their places, and no other does.
LEMMA ExchangeOrder ==
    ASSUME NavInv, NavInv', NEW e \in Editor, Nav!WritePositions(e),
           NEW a \in DOMAIN items, NEW b \in DOMAIN items,
           Adjacent(a, b), IsExchange(asked[e].order, a, b),
           NEW l \in Location, Nav!Untied(l)
    PROVE  OrderNeedsNoLuck(l)
<1>1. /\ DOMAIN items' = DOMAIN items
      /\ \A i \in DOMAIN items :
            /\ items'[i].location = items[i].location
            /\ i \notin {a, b} => items'[i] = items[i]
      /\ items'[a].position = items[b].position
      /\ items'[b].position = items[a].position
  BY Written DEF IsExchange
<1>2. \A i \in DOMAIN items : i \in Nat /\ items[i].position \in Nat
  BY ItemsAreFinite DEF NavInv, Nav!TypeOK, Nav!Rows
<1>3. Nav!Menu(l)' = Nav!Menu(l)
  BY <1>1 DEF Nav!Menu
<1>4. CASE l # items[a].location
  <2>1. \A i \in Nav!Menu(l) : items'[i] = items[i]
    BY <1>1, <1>4 DEF Nav!Menu, Adjacent
  <2> QED
    BY <1>3, <2>1, KeptOrder
<1>5. CASE l = items[a].location
  <2>1. a \in Nav!Menu(l) /\ b \in Nav!Menu(l)
    BY <1>5 DEF Nav!Menu, Adjacent
  <2>2. \A i, j \in Nav!Menu(l) : i # j => items[i].position # items[j].position
    BY DEF Nav!Untied, Nav!Position
  <2>3. items[a].position < items[b].position
    BY <1>2, <2>1, <2>2 DEF Adjacent, Nav!Before, Nav!Position
  <2>4. \A k \in Nav!Menu(l) \ {a, b} :
          /\ k \in DOMAIN items
          /\ items'[k].position = items[k].position
          /\ items[k].position < items[a].position \/ items[b].position < items[k].position
    BY <1>1, <1>2, <1>5, <2>1, <2>2 DEF Adjacent, Nav!Before, Nav!Position, Nav!Menu
  <2>5. Nav!Untied(l)'
    <3> SUFFICES ASSUME NEW i \in Nav!Menu(l), NEW j \in Nav!Menu(l), i # j
                 PROVE  items'[i].position # items'[j].position
      BY <1>3 DEF Nav!Untied, Nav!Position
    <3> QED
      BY <1>1, <1>2, <2>1, <2>2, <2>3, <2>4
  <2>6. Nav!Turned(l) \subseteq {<<a, b>>}
    <3> SUFFICES ASSUME NEW i \in Nav!Menu(l), NEW j \in Nav!Menu(l),
                        Nav!Before(i, j), ~Nav!Before(i, j)'
                 PROVE  i = a /\ j = b
      BY <1>3 DEF Nav!Turned
    <3>1. i # j /\ items[i].position < items[j].position
      BY <1>2, <2>1, <2>2 DEF Nav!Before, Nav!Position, Nav!Menu
    <3>2. ~(items'[i].position < items'[j].position)
      BY DEF Nav!Before, Nav!Position
    <3> QED
      BY <1>1, <1>2, <2>1, <2>3, <2>4, <3>1, <3>2
  <2>7. Nav!Cardinality(Nav!Turned(l)) <= 1
    BY <2>6, FewTurned
  <2> QED
    BY <1>3, <2>5, <2>7 DEF OrderNeedsNoLuck
<1> QED
  BY <1>4, <1>5

\* A whole menu is shown in the order that was asked for, and the others as before.
LEMMA WholeOrder ==
    ASSUME NavInv, NavInv', NEW e \in Editor, Nav!WritePositions(e),
           IsWholeMenu(asked[e].order), NEW l \in Location, Nav!Untied(l)
    PROVE  OrderNeedsNoLuck(l)
<1> DEFINE o == asked[e].order
<1>1. /\ DOMAIN items' = DOMAIN items
      /\ \A i \in DOMAIN items :
            /\ items'[i].location = items[i].location
            /\ i \in DOMAIN o => items'[i].position = o[i]
            /\ i \notin DOMAIN o => items'[i] = items[i]
      /\ asked'[e] = Nav!NoRequest
  BY Written
<1>2. /\ \A i \in DOMAIN items : i \in Nat
      /\ \A i \in DOMAIN o : o[i] \in Nat
  BY Written, ItemsAreFinite DEF WriteKnows, Below
<1>3. Nav!Menu(l)' = Nav!Menu(l)
  BY <1>1 DEF Nav!Menu
<1>4. CASE DOMAIN o = Nav!Menu(l)
  <2>1. \A i \in Nav!Menu(l) : i \in DOMAIN items /\ items'[i].position = o[i]
    BY <1>1, <1>4 DEF Nav!Menu
  <2>2. \A i, j \in Nav!Menu(l) : i # j => o[i] # o[j]
    BY <1>4 DEF IsWholeMenu
  <2>3. Nav!Untied(l)'
    BY <1>3, <2>1, <2>2 DEF Nav!Untied, Nav!Position
  <2>4. ASSUME NEW i \in Nav!Menu(l), NEW j \in Nav!Menu(l)
        PROVE  Nav!Before(i, j)' <=> o[i] < o[j]
    BY <1>2, <1>4, <2>1, <2>2 DEF Nav!Before, Nav!Position
  <2>5. Nav!Reordered(l)
    <3>1. asked[e].at = "write"
      BY DEF Nav!WritePositions
    <3> QED
      BY <1>1, <1>4, <2>4, <3>1 DEF Nav!Reordered
  <2> QED
    BY <1>3, <2>3, <2>5 DEF OrderNeedsNoLuck
<1>5. CASE DOMAIN o # Nav!Menu(l)
  <2>1. \A i \in Nav!Menu(l) : items'[i] = items[i]
    BY <1>1, <1>5 DEF Nav!Menu, IsWholeMenu
  <2> QED
    BY <1>3, <2>1, KeptOrder
<1> QED
  BY <1>4, <1>5

LEMMA WriteOrder ==
    ASSUME NavInv, NavInv', NEW e \in Editor, Nav!WritePositions(e),
           NEW l \in Location, Nav!Untied(l)
    PROVE  OrderNeedsNoLuck(l)
<1>1. asked[e].at = "write" /\ asked'[e] = Nav!NoRequest /\ WriteKnows(asked[e])
  BY Written DEF Nav!WritePositions
<1>2. CASE ~asked[e].fresh
  BY <1>1, <1>2 DEF OrderNeedsNoLuck, Nav!StaleWrite
<1>3. CASE asked[e].fresh
  BY <1>1, <1>3, WholeOrder, ExchangeOrder DEF WriteKnows
<1> QED
  BY <1>2, <1>3

LEMMA OrderStep ==
    NavInv /\ NavInv' /\ [Nav!Next]_(Nav!vars) =>
      \A l \in Location : Nav!Untied(l) => OrderNeedsNoLuck(l)
<1> SUFFICES ASSUME NavInv, NavInv', [Nav!Next]_(Nav!vars), NEW l \in Location, Nav!Untied(l)
             PROVE  OrderNeedsNoLuck(l)
  OBVIOUS
<1>1. CASE items' = items
  BY <1>1, UnwrittenOrder
<1>2. CASE items' # items
  <2>1. \/ \E m \in Location, t \in Singleton \cup Page : Nav!AddMenuItem(m, t)
        \/ \E i \in DOMAIN items : Nav!RemoveMenuItem(i)
        \/ \E e \in Editor : Nav!WritePositions(e)
    BY <1>2 DEF Nav!Next, Nav!vars, Nav!Toggle, Nav!AskMove, Nav!FindNeighbour,
                Nav!AskReorder, Nav!CheckPermutation, Nav!EditorDies
  <2> QED
    BY <2>1, AddOrder, RemoveOrder, WriteOrder
<1> QED
  BY <1>1, <1>2

\* The types of the menus, their items and their requests, at every step.
THEOREM MenuTypeCorrect == Nav!Spec => []Nav!TypeOK
<1>1. NavInv => Nav!TypeOK
  BY DEF NavInv
<1> QED
  BY <1>1, NavInvInit, NavInvStep, PTL DEF Nav!Spec

\* In a menu where no two items share a position, a step leaves none that do, puts a
\* new item last, and otherwise exchanges at most one item with the next or writes the
\* whole order that was asked for, unless a request writes after another has written
\* since it read (addMenuItem, moveMenuItem, reorderMenuItems).
THEOREM MenusKeepTheirOrder == Nav!Spec => MenuOrderNeedsNoLuck
<1>1. NavInv /\ NavInv' /\ [Nav!Next]_(Nav!vars) =>
        [\A l \in Location : Nav!Untied(l) => OrderNeedsNoLuck(l)]_(Nav!vars)
  BY OrderStep
<1>2. Nav!Spec => [][\A l \in Location : Nav!Untied(l) => OrderNeedsNoLuck(l)]_(Nav!vars)
  BY <1>1, NavInvInit, NavInvStep, PTL DEF Nav!Spec
<1> QED
  BY <1>2 DEF MenuOrderNeedsNoLuck, Nav!MenuOrderNeedsNoLuck, OrderNeedsNoLuck

-----------------------------------------------------------------------------
(* The edge's copy *)

\* A fact a request has read and may since have lost, has one of the reasons a copy may.
Explained(stale, raced, missed) ==
  \A f \in stale : \/ f \in Pending \cup unpurged \cup raced \cup missed
                   \/ <<kind, f>> \in Uncovered

VisitExplained(v) ==
  /\ visit[v].read \cup visit[v].stale \subseteq Shows(kind)
  /\ enabled => Explained(visit[v].stale, visit[v].raced, visit[v].missed)

CopyExplained ==
  /\ copy.stale \subseteq Shows(kind)
  /\ ~enabled => ~copy.stored /\ copy.stale = {}
  /\ StaleIsExplained

EdgeInv == /\ EdgeTypeOK
           /\ CopyExplained
           /\ \A v \in Visitors : VisitExplained(v)
-----------------------------------------------------------------------------

\* Every fact a document shows is purged by its writer under one of the document's
\* tags, but for the uncovered edges.
LEMMA TagsCover ==
    ASSUME NEW k \in Kinds, NEW f \in Shows(k), PurgedBy(f) \cap TagsOf(k) = {}
    PROVE  <<k, f>> \in Uncovered
<1> USE DEF Shows, GateReads, MenuReads, SettingsReads, PageReads,
            PurgedBy, TagsOf, ResponseCacheTags, ProductTags
<1>1. CASE k = "list"
  BY <1>1 DEF ListReads, Uncovered
<1>2. CASE k = "design"
  BY <1>2 DEF DesignReads, Uncovered
<1>3. CASE k = "feed"
  BY <1>3 DEF FeedReads, Uncovered
<1>4. CASE k = "api"
  BY <1>4 DEF ApiReads
<1> QED
  BY <1>1, <1>2, <1>3, <1>4 DEF Kinds

\* Likewise a fact whose writer purges nothing at all.
LEMMA UnpurgedIsUncovered ==
    ASSUME NEW k \in Kinds, NEW f \in Shows(k), PurgedBy(f) = {}
    PROVE  <<k, f>> \in Uncovered
  BY TagsCover

\* What a handler writes is a fact.
LEMMA HandlersWrite ==
    ASSUME NEW e \in Editors,
           SaveMenu(e) \/ SavePage(e) \/ SaveSettings(e) \/ SaveProviders(e)
           \/ SaveCatalog(e) \/ MoveStock(e) \/ ModerateReview(e)
    PROVE  \E f \in Facts : Write(e, f)
  BY DEF SaveMenu, SavePage, SaveSettings, SaveProviders, SaveCatalog, MoveStock,
         ModerateReview, Facts

LEMMA ReadsAreFacts ==
    ASSUME NEW k \in Kinds
    PROVE  /\ GateReads(k) \subseteq Facts
           /\ PageReads(k) \subseteq Shows(k)
           /\ Shows(k) \subseteq Facts
  BY DEF Kinds, Facts, Shows, GateReads, MenuReads, SettingsReads, PageReads,
         ListReads, DesignReads, FeedReads, ApiReads

LEMMA EdgeTypeInit == EdgeInit => EdgeTypeOK
  BY BoundAssumption DEF EdgeInit, EdgeTypeOK, Absent, NoVisit, NoEdit, VisitType, Facts

\* A request moves on, or is over.
LEMMA VisitType1 ==
    ASSUME EdgeTypeOK, NEW v \in Visitors, NEW x \in VisitType,
           visit' = [visit EXCEPT ![v] = x]
    PROVE  visit' \in [Visitors -> VisitType]
  BY DEF EdgeTypeOK

LEMMA NoVisitType == NoVisit \in VisitType
  BY DEF NoVisit, VisitType

LEMMA NoEditType == NoEdit \in [at : {"idle", "wrote", "refused"}, fact : Facts]
  BY DEF NoEdit, Facts

LEMMA AbsentType ==
    Absent \in [stored : BOOLEAN, stale : SUBSET Facts, raced : SUBSET Facts, missed : SUBSET Facts]
  BY DEF Absent

LEMMA DropCopyType ==
    ASSUME EdgeTypeOK, NEW F, DropCopy(F)
    PROVE  /\ copy' \in [stored : BOOLEAN, stale : SUBSET Facts, raced : SUBSET Facts,
                         missed : SUBSET Facts]
           /\ visit' \in [Visitors -> VisitType]
<1>1. copy' = Absent
  BY DEF DropCopy
<1>2. visit' \in [Visitors -> VisitType]
  BY DEF DropCopy, EdgeTypeOK, VisitType
<1> QED
  BY <1>1, <1>2, AbsentType

LEMMA DoneType ==
    ASSUME EdgeTypeOK, NEW e \in Editors, Done(e)
    PROVE  edit' \in [Editors -> [at : {"idle", "wrote", "refused"}, fact : Facts]]
  BY NoEditType DEF EdgeTypeOK, Done

LEMMA EdgeTypeStep == EdgeTypeOK /\ [EdgeNext]_edgeVars => EdgeTypeOK'
<1> SUFFICES ASSUME EdgeTypeOK, [EdgeNext]_edgeVars PROVE EdgeTypeOK'
  OBVIOUS
<1>k. /\ kind \in Kinds /\ GateReads(kind) \subseteq Facts
      /\ PageReads(kind) \subseteq Facts /\ Shows(kind) \subseteq Facts
  BY ReadsAreFacts DEF EdgeTypeOK
<1>1. ASSUME NEW v \in Visitors, Gate(v) PROVE EdgeTypeOK'
  <2>1. PICK missed \in GateMisses(kind) :
          visit' = [visit EXCEPT ![v] =
            [NoVisit EXCEPT !.at = "gate", !.missed = missed \cap Shows(kind),
                            !.stale = missed \cap Shows(kind),
                            !.read = Shows(kind) \cap (IF "menu" \in missed
                                       THEN SettingsReads \ missed ELSE GateReads(kind))]]
    BY <1>1 DEF Gate
  <2>2. [NoVisit EXCEPT !.at = "gate", !.missed = missed \cap Shows(kind),
                        !.stale = missed \cap Shows(kind),
                        !.read = Shows(kind) \cap (IF "menu" \in missed
                                   THEN SettingsReads \ missed ELSE GateReads(kind))] \in VisitType
    BY <1>k DEF NoVisit, VisitType
  <2>3. visit' \in [Visitors -> VisitType]
    BY <2>1, <2>2, VisitType1
  <2> QED
    BY <1>1, <2>3 DEF Gate, EdgeTypeOK
<1>2. ASSUME NEW v \in Visitors, ReadPage(v) PROVE EdgeTypeOK'
  <2>1. [visit[v] EXCEPT !.at = "page", !.read = @ \cup PageReads(kind)] \in VisitType
    BY <1>2, <1>k DEF EdgeTypeOK, VisitType
  <2>2. visit' \in [Visitors -> VisitType]
    BY <1>2, <2>1, VisitType1 DEF ReadPage
  <2> QED
    BY <1>2, <2>2 DEF ReadPage, EdgeTypeOK
<1>3. ASSUME NEW v \in Visitors, Answer(v) PROVE EdgeTypeOK'
  <2>1. visit' \in [Visitors -> VisitType]
    BY <1>3, VisitType1, NoVisitType DEF Answer
  <2>2. copy' \in [stored : BOOLEAN, stale : SUBSET Facts, raced : SUBSET Facts,
                   missed : SUBSET Facts]
    BY <1>3 DEF Answer, EdgeTypeOK, VisitType
  <2> QED
    BY <1>3, <2>1, <2>2 DEF Answer, EdgeTypeOK
<1>4. ASSUME NEW v \in Visitors, Drop(v) PROVE EdgeTypeOK'
  <2>1. visit' \in [Visitors -> VisitType]
    BY <1>4, VisitType1, NoVisitType DEF Drop
  <2> QED
    BY <1>4, <2>1 DEF Drop, EdgeTypeOK
<1>5. ASSUME NEW e \in Editors, NEW f \in Facts, Write(e, f) PROVE EdgeTypeOK'
  <2>1. visit' \in [Visitors -> VisitType]
    BY <1>5 DEF Write, WriteFact, EdgeTypeOK, VisitType
  <2>2. copy' \in [stored : BOOLEAN, stale : SUBSET Facts, raced : SUBSET Facts,
                   missed : SUBSET Facts]
    BY <1>5 DEF Write, WriteFact, EdgeTypeOK
  <2>3. edit' \in [Editors -> [at : {"idle", "wrote", "refused"}, fact : Facts]]
    BY <1>5 DEF Write, EdgeTypeOK
  <2>4. edits' \in 0..MaxEdits
    BY <1>5, BoundAssumption DEF Write, EdgeTypeOK
  <2> QED
    BY <1>5, <2>1, <2>2, <2>3, <2>4 DEF Write, EdgeTypeOK
<1>6. ASSUME NEW e \in Editors, PurgeCacheTags(e) PROVE EdgeTypeOK'
  <2>1. edit' \in [Editors -> [at : {"idle", "wrote", "refused"}, fact : Facts]]
    BY <1>6, DoneType DEF PurgeCacheTags
  <2>2. \/ DropCopy({edit[e].fact}) \/ UNCHANGED <<copy, visit>>
    BY <1>6 DEF PurgeCacheTags
  <2> QED
    BY <1>6, <2>1, <2>2, DropCopyType DEF PurgeCacheTags, EdgeTypeOK
<1>7. ASSUME NEW e \in Editors, Refused(e) PROVE EdgeTypeOK'
  <2>1. edit' \in [Editors -> [at : {"idle", "wrote", "refused"}, fact : Facts]]
    BY <1>7, DoneType DEF Refused, EdgeTypeOK
  <2>2. unpurged' \subseteq Facts
    BY <1>7 DEF Refused, EdgeTypeOK
  <2> QED
    BY <1>7, <2>1, <2>2 DEF Refused, EdgeTypeOK
<1>8. ASSUME NEW e \in Editors, PurgeEverything(e) PROVE EdgeTypeOK'
  BY <1>8, DoneType, DropCopyType DEF PurgeEverything, EdgeTypeOK
<1>9. ASSUME NEW e \in Editors, Unpurged(e) PROVE EdgeTypeOK'
  BY <1>9, DoneType DEF Unpurged, EdgeTypeOK
<1>10. CASE Expire
  BY <1>10, AbsentType DEF Expire, EdgeTypeOK
<1>11. CASE PurgeEntireCache
  BY <1>11, DropCopyType DEF PurgeEntireCache, EdgeTypeOK
<1>12. CASE UNCHANGED edgeVars
  BY <1>12 DEF edgeVars, EdgeTypeOK
<1> QED
  BY <1>1, <1>2, <1>3, <1>4, <1>5, <1>6, <1>7, <1>8, <1>9, <1>10, <1>11, <1>12,
     HandlersWrite DEF EdgeNext

\* The document's kind, its reads, its copy, its visits, its edits stay in their types
\* in any behaviour.
THEOREM EdgeTypeCorrect == EdgeSpec => []EdgeTypeOK
  BY EdgeTypeInit, EdgeTypeStep, PTL DEF EdgeSpec
-----------------------------------------------------------------------------

LEMMA EdgeInvInit == EdgeInit => EdgeInv
<1> SUFFICES ASSUME EdgeInit PROVE EdgeInv
  OBVIOUS
<1>1. EdgeTypeOK
  BY EdgeTypeInit
<1>2. /\ copy.stale = {} /\ ~copy.stored
      /\ \A v \in Visitors : visit[v].read = {} /\ visit[v].stale = {}
  BY DEF EdgeInit, Absent, NoVisit
<1> QED
  BY <1>1, <1>2 DEF EdgeInv, CopyExplained, StaleIsExplained, VisitExplained, Explained

\* A step that takes no reason away and leaves the requests alone keeps them explained.
LEMMA KeptExplained ==
    ASSUME NEW stale, NEW raced, NEW missed, Explained(stale, raced, missed),
           kind' = kind, Pending \subseteq Pending' \cup unpurged', unpurged \subseteq unpurged'
    PROVE  Explained(stale, raced, missed)'
  BY DEF Explained

\* A writer that is done takes its own fact, at most, off the pending ones.
LEMMA DonePending ==
    ASSUME EdgeTypeOK, NEW e \in Editors, Done(e)
    PROVE  /\ Pending \subseteq Pending' \cup {edit[e].fact}
           /\ Pending' \subseteq Pending
  BY DEF EdgeTypeOK, Done, Pending, NoEdit

LEMMA VisitsStep ==
    ASSUME EdgeInv, EdgeTypeOK', NEW v \in Visitors, Gate(v) \/ ReadPage(v) \/ Answer(v) \/ Drop(v)
    PROVE  EdgeInv'
<1> USE DEF EdgeInv
<1>1. kind' = kind /\ enabled' = enabled /\ unpurged' = unpurged /\ Pending' = Pending
  BY DEF Gate, ReadPage, Answer, Drop, Pending
<1>2. ASSUME NEW u \in Visitors, visit'[u] = visit[u] PROVE VisitExplained(u)'
  BY <1>1, <1>2 DEF VisitExplained, Explained
<1>3. ASSUME NEW u \in Visitors, visit'[u] = NoVisit PROVE VisitExplained(u)'
  BY <1>3 DEF VisitExplained, Explained, NoVisit
<1>4. ASSUME UNCHANGED copy PROVE CopyExplained'
  BY <1>1, <1>4 DEF CopyExplained, StaleIsExplained
<1>k. kind \in Kinds /\ PageReads(kind) \subseteq Shows(kind)
  BY ReadsAreFacts DEF EdgeTypeOK
<1>5. CASE Gate(v)
  <2>1. PICK missed \in GateMisses(kind) :
          visit' = [visit EXCEPT ![v] =
            [NoVisit EXCEPT !.at = "gate", !.missed = missed \cap Shows(kind),
                            !.stale = missed \cap Shows(kind),
                            !.read = Shows(kind) \cap (IF "menu" \in missed
                                       THEN SettingsReads \ missed ELSE GateReads(kind))]]
    BY <1>5 DEF Gate
  <2>2. /\ visit'[v].stale = visit'[v].missed
        /\ visit'[v].read \cup visit'[v].stale \subseteq Shows(kind)
    BY <2>1 DEF EdgeTypeOK, NoVisit
  <2>3. VisitExplained(v)'
    BY <2>2, <1>1 DEF VisitExplained, Explained
  <2>4. \A u \in Visitors : VisitExplained(u)'
    BY <2>1, <2>3, <1>2 DEF EdgeTypeOK
  <2> QED
    BY <2>4, <1>4, <1>5 DEF Gate
<1>6. CASE ReadPage(v)
  <2>1. /\ visit'[v].read = visit[v].read \cup PageReads(kind)
        /\ visit'[v].stale = visit[v].stale
        /\ visit'[v].raced = visit[v].raced
        /\ visit'[v].missed = visit[v].missed
    BY <1>6 DEF ReadPage, EdgeTypeOK, VisitType
  <2>2. VisitExplained(v)'
    BY <2>1, <1>1, <1>k DEF VisitExplained, Explained
  <2>3. \A u \in Visitors : VisitExplained(u)'
    BY <2>2, <1>2, <1>6 DEF ReadPage, EdgeTypeOK
  <2> QED
    BY <2>3, <1>4, <1>6 DEF ReadPage
<1>7. CASE Answer(v)
  <2>1. CopyExplained'
    <3>1. CASE enabled
      BY <3>1, <1>1, <1>7 DEF Answer, CopyExplained, StaleIsExplained, VisitExplained, Explained
    <3>2. CASE ~enabled
      BY <3>2, <1>4, <1>7 DEF Answer
    <3> QED
      BY <3>1, <3>2
  <2>2. \A u \in Visitors : VisitExplained(u)'
    BY <1>2, <1>3, <1>7 DEF Answer, EdgeTypeOK
  <2> QED
    BY <2>1, <2>2
<1>8. CASE Drop(v)
  <2>1. \A u \in Visitors : VisitExplained(u)'
    BY <1>2, <1>3, <1>8 DEF Drop, EdgeTypeOK
  <2> QED
    BY <2>1, <1>4, <1>8 DEF Drop
<1> QED
  BY <1>5, <1>6, <1>7, <1>8

LEMMA WriteStep ==
    ASSUME EdgeInv, EdgeTypeOK', NEW e \in Editors, NEW f \in Facts, Write(e, f)
    PROVE  EdgeInv'
<1> USE DEF EdgeInv
<1>1. kind' = kind /\ enabled' = enabled /\ unpurged' = unpurged
  BY DEF Write
<1>2. Pending \subseteq Pending'
  BY DEF Write, Pending, EdgeTypeOK
<1>3. PurgedBy(f) # {} => f \in Pending'
  BY DEF Write, Pending, EdgeTypeOK
<1>4. f \in Shows(kind) => f \in Pending' \/ <<kind, f>> \in Uncovered
  BY <1>3, UnpurgedIsUncovered DEF EdgeTypeOK
<1>5. /\ copy'.stale \subseteq copy.stale \cup (Shows(kind) \cap {f})
      /\ copy'.raced = copy.raced /\ copy'.missed = copy.missed
      /\ copy'.stored = copy.stored /\ (~copy.stored => copy' = copy)
  BY DEF Write, WriteFact, EdgeTypeOK
<1>6. CopyExplained'
  BY <1>1, <1>2, <1>4, <1>5 DEF CopyExplained, StaleIsExplained
<1>7. ASSUME NEW v \in Visitors PROVE VisitExplained(v)'
  <2>0. visit'[v] = [visit[v] EXCEPT !.stale = visit[v].stale \cup ({f} \cap visit[v].read)]
        /\ visit[v] \in VisitType
    BY DEF Write, WriteFact, EdgeTypeOK
  <2>1. /\ visit'[v].read = visit[v].read /\ visit'[v].raced = visit[v].raced
        /\ visit'[v].missed = visit[v].missed
        /\ visit'[v].stale = visit[v].stale \cup ({f} \cap visit[v].read)
    BY <2>0 DEF VisitType
  <2> QED
    BY <2>1, <1>1, <1>2, <1>4 DEF VisitExplained, Explained
<1> QED
  BY <1>6, <1>7

\* A purge that reaches the copy drops it, and marks what is left of its fact as raced.
LEMMA DropStep ==
    ASSUME EdgeInv, EdgeTypeOK', NEW g, DropCopy({g}) \/ DropCopy({}), kind' = kind,
           enabled' = enabled, unpurged' = unpurged,
           DropCopy({g}) => Pending \subseteq Pending' \cup {g},
           ~DropCopy({g}) => Pending \subseteq Pending'
    PROVE  EdgeInv'
<1> USE DEF EdgeInv
<1>1. copy'.stale = {} /\ ~copy'.stored
  BY DEF DropCopy, Absent
<1>2. ASSUME NEW v \in Visitors PROVE VisitExplained(v)'
  <2>1. /\ visit'[v].read = visit[v].read /\ visit'[v].missed = visit[v].missed
        /\ visit'[v].stale = visit[v].stale /\ visit[v].raced \subseteq visit'[v].raced
        /\ DropCopy({g}) => visit[v].stale \cap {g} \subseteq visit'[v].raced
    BY DEF DropCopy, EdgeTypeOK, VisitType
  <2> QED
    BY <2>1 DEF VisitExplained, Explained
<1> QED
  BY <1>1, <1>2 DEF CopyExplained, StaleIsExplained

\* The purge by tags: it drops the copy, or the copy's kind shows nothing it is for.
LEMMA PurgeStep ==
    ASSUME EdgeInv, EdgeTypeOK', NEW e \in Editors, PurgeCacheTags(e)
    PROVE  EdgeInv'
<1> USE DEF EdgeInv
<1> DEFINE g == edit[e].fact
<1>1. kind' = kind /\ enabled' = enabled /\ unpurged' = unpurged /\ Done(e)
  BY DEF PurgeCacheTags
<1>2. Pending \subseteq Pending' \cup {g} /\ kind \in Kinds
  BY <1>1, DonePending DEF EdgeTypeOK
<1>3. CASE enabled /\ PurgedBy(g) \cap TagsOf(kind) # {}
  <2>1. DropCopy({g})
    BY <1>3 DEF PurgeCacheTags
  <2> QED
    BY <2>1, <1>1, <1>2, DropStep
<1>4. CASE enabled /\ PurgedBy(g) \cap TagsOf(kind) = {}
  <2>1. UNCHANGED <<copy, visit>>
    BY <1>4 DEF PurgeCacheTags
  <2>2. g \in Shows(kind) => <<kind, g>> \in Uncovered
    BY <1>2, <1>4, TagsCover
  <2> QED
    BY <2>1, <2>2, <1>1, <1>2 DEF CopyExplained, StaleIsExplained, VisitExplained, Explained
<1>5. CASE ~enabled
  <2>1. UNCHANGED <<copy, visit>>
    BY <1>5 DEF PurgeCacheTags
  <2>2. copy.stale = {} /\ ~copy.stored
    BY <1>5 DEF EdgeInv, CopyExplained
  <2> QED
    BY <2>1, <2>2, <1>1, <1>5 DEF CopyExplained, StaleIsExplained, VisitExplained
<1> QED
  BY <1>3, <1>4, <1>5

LEMMA EdgeInvStep == EdgeInv /\ [EdgeNext]_edgeVars => EdgeInv'
<1> SUFFICES ASSUME EdgeInv, [EdgeNext]_edgeVars PROVE EdgeInv'
  OBVIOUS
<1>t. EdgeTypeOK /\ EdgeTypeOK'
  BY EdgeTypeStep DEF EdgeInv
<1>1. ASSUME NEW v \in Visitors, Gate(v) \/ ReadPage(v) \/ Answer(v) \/ Drop(v) PROVE EdgeInv'
  BY <1>1, <1>t, VisitsStep
<1>2. ASSUME NEW e \in Editors, NEW f \in Facts, Write(e, f) PROVE EdgeInv'
  BY <1>2, <1>t, WriteStep
<1>3. ASSUME NEW e \in Editors, PurgeCacheTags(e) PROVE EdgeInv'
  BY <1>3, <1>t, PurgeStep
<1>4. ASSUME NEW e \in Editors, Refused(e) \/ Unpurged(e) PROVE EdgeInv'
  <2>1. UNCHANGED <<kind, enabled, copy, visit>> /\ unpurged \subseteq unpurged'
    BY <1>4 DEF Refused, Unpurged
  <2>2. Pending \subseteq Pending' \cup unpurged'
    <3>1. CASE Done(e) /\ unpurged' = unpurged \cup {edit[e].fact}
      BY <3>1, <1>t, DonePending
    <3>2. CASE edit' = [edit EXCEPT ![e].at = "refused"] /\ edit[e].at = "wrote"
      BY <3>2, <1>t DEF EdgeTypeOK, Pending
    <3> QED
      BY <3>1, <3>2, <1>4 DEF Refused, Unpurged
  <2> QED
    BY <2>1, <2>2, <1>t DEF EdgeInv, CopyExplained, StaleIsExplained, VisitExplained, Explained
<1>5. ASSUME NEW e \in Editors, PurgeEverything(e) PROVE EdgeInv'
  <2>1. Pending \subseteq Pending' \cup {edit[e].fact}
    BY <1>5, <1>t, DonePending DEF PurgeEverything
  <2> QED
    BY <2>1, <1>5, <1>t, DropStep DEF PurgeEverything
<1>6. CASE Expire
  BY <1>6, <1>t DEF Expire, EdgeInv, CopyExplained, StaleIsExplained, VisitExplained, Explained,
                   Absent, Pending
<1>7. CASE PurgeEntireCache
  <2>1. DropCopy({}) /\ Pending' = Pending
    BY <1>7 DEF PurgeEntireCache, Pending
  <2> QED
    BY <2>1, <1>7, <1>t, DropStep DEF PurgeEntireCache
<1>8. CASE UNCHANGED edgeVars
  BY <1>8, <1>t DEF edgeVars, EdgeInv, CopyExplained, StaleIsExplained, VisitExplained,
                   Explained, Pending
<1> QED
  BY <1>1, <1>2, <1>3, <1>4, <1>5, <1>6, <1>7, <1>8, HandlersWrite DEF EdgeNext

\* For any number of writers, requests and edits, what a shared copy shows of the past
\* is waiting for its purge, lost its purge to a failure, was read before a purge and
\* stored after it, was never read, or is on one of the four uncovered edges: e-mail and
\* payment credentials on a page, reviews on a design's page, stock in the feed.
THEOREM StaleIsAlwaysExplained == EdgeSpec => []StaleIsExplained
<1>1. EdgeInv => StaleIsExplained
  BY DEF EdgeInv, CopyExplained
<1> QED
  BY <1>1, EdgeInvInit, EdgeInvStep, PTL DEF EdgeSpec
=============================================================================

------------------------------ MODULE Categories ------------------------------
(***************************************************************************)
(* The tree of categories and the products filed in it.                    *)
(*                                                                         *)
(* A category refers to its parent by id.  No statement guards the tree: a *)
(* request reads what it needs, decides, and writes later, while requests  *)
(* of other administrators go on.  Ids are never given out again           *)
(* (AUTOINCREMENT), and foreign keys bind nothing, as the code assumes.    *)
(* A slug that is taken makes the statement throw: that request ends with  *)
(* nothing written, as one whose Worker stops does.                        *)
(***************************************************************************)
EXTENDS Naturals

CONSTANTS Category, \* bound: categories ever created
          Product,  \* bound: products ever created
          Editor,   \* bound: requests of administrators at a time
          Top,      \* parent_id IS NULL
          Nothing   \* no category, no product

ASSUME CategoryAssumption ==
    /\ Top \notin Category /\ Nothing \notin Category \cup Product
    /\ Top # Nothing

VARIABLES
    rows,    \* ids of categories that have a row
    used,    \* ids that have been given out
    parent,  \* parent[c]: categories.parent_id; Top where there is no row
    product, \* product[p]: "new", "listed" or "deleted"
    links,   \* product_categories
    request  \* request[e]: what e has read, and what it is about to do

vars == <<rows, used, parent, product, links, request>>

-----------------------------------------------------------------------------
(* Vocabulary *)

\* fresh: nothing has been written since the request read.  The code keeps no
\* such mark; the properties use it to tell a race from a wrong decision.
Requests ==
    [at : {"idle", "create", "guard", "update", "delete", "pick", "tag"},
     cat : Category \cup {Nothing}, to : Category \cup {Top, Nothing},
     product : Product \cup {Nothing}, tags : SUBSET Category,
     fresh : BOOLEAN]

NoRequest == [at |-> "idle", cat |-> Nothing, to |-> Nothing,
              product |-> Nothing, tags |-> {}, fresh |-> FALSE]

Writing == {"create", "update", "delete", "pick", "tag"}

TypeOK ==
    /\ used \subseteq Category /\ rows \subseteq used
    /\ parent \in [Category -> Category \cup {Top}]
    /\ product \in [Product -> {"new", "listed", "deleted"}]
    /\ links \subseteq Product \X Category
    /\ request \in [Editor -> Requests]

Children(c) == {d \in rows : parent[d] = c}

\* A set that holds, with a category, every sub-category of it.
Closed(S) == \A c \in S : Children(c) \subseteq S

\* The recursive query: the category, if it has a row, and all below it.
DescendantIds(c) ==
    {d \in rows : \A S \in SUBSET rows : c \in S /\ Closed(S) => d \in S}

\* A slip: only a category without a parent is a root.
BuildTreeOfTop ==
    {d \in rows : \E c \in rows : parent[c] = Top /\ d \in DescendantIds(c)}

\* What the admin's tree and selectors show: the roots, among them a category
\* whose parent has no row, and everything reached from a root.
BuildTree ==
    LET Roots == {c \in rows : parent[c] \notin rows} IN
    {d \in rows : \E c \in Roots : d \in DescendantIds(c)}

\* What the page of a category lists: what is filed in it or below it.
ProductsInCategory(c) ==
    {p \in Product : \E d \in DescendantIds(c) : <<p, d>> \in links}

-----------------------------------------------------------------------------

Init ==
    /\ rows = {} /\ used = {}
    /\ parent = [c \in Category |-> Top]
    /\ product = [p \in Product |-> "new"]
    /\ links = {}
    /\ request = [e \in Editor |-> NoRequest]

Begin(e, r) ==
    /\ request[e] = NoRequest
    /\ request' = [request EXCEPT ![e] = r]

\* e's request ends with a write: whatever another request has read is stale.
EndWritten(e) ==
    request' = [x \in Editor |->
                  IF x = e THEN NoRequest ELSE [request[x] EXCEPT !.fresh = FALSE]]

Ask(step, c, to) ==
    [at |-> step, cat |-> c, to |-> to, product |-> Nothing, tags |-> {}, fresh |-> TRUE]

\* The form names the parent by its public id, which must have a row.
AskCreate(e) ==
    \E to \in rows \cup {Top} :
        /\ Begin(e, Ask("create", Nothing, to))
        /\ UNCHANGED <<rows, used, parent, product, links>>

CreateCategory(e) ==
    /\ request[e].at = "create"
    /\ \E c \in Category \ used :
        /\ used' = used \cup {c}
        /\ rows' = rows \cup {c}
        /\ parent' = [parent EXCEPT ![c] = request[e].to]
    /\ EndWritten(e)
    /\ UNCHANGED <<product, links>>

AskUpdate(e) ==
    \E c \in rows, to \in rows \cup {Top} :
        /\ Begin(e, Ask(IF to = Top THEN "update" ELSE "guard", c, to))
        /\ UNCHANGED <<rows, used, parent, product, links>>

\* A slip: only the category itself is refused as its parent.
BlockedItself(e) == request[e].to = request[e].cat

\* "A category cannot be moved under itself or one of its sub-categories."
Blocked(e) == request[e].to \in DescendantIds(request[e].cat)

CycleGuard(e) ==
    /\ request[e].at = "guard"
    /\ request' = [request EXCEPT
                     ![e] = IF Blocked(e) THEN NoRequest ELSE [@ EXCEPT !.at = "update"]]
    /\ UNCHANGED <<rows, used, parent, product, links>>

\* UPDATE ... WHERE id: nothing happens if the row is gone.
UpdateCategory(e) ==
    /\ request[e].at = "update"
    /\ parent' = IF request[e].cat \in rows
                 THEN [parent EXCEPT ![request[e].cat] = request[e].to]
                 ELSE parent
    /\ EndWritten(e)
    /\ UNCHANGED <<rows, used, product, links>>

\* deleteCategory reads the row for its parent ...
AskDelete(e) ==
    \E c \in rows :
        /\ Begin(e, Ask("delete", c, parent[c]))
        /\ UNCHANGED <<rows, used, parent, product, links>>

\* A slip: the children are left where they were.
ReparentedNot(c, to) == [parent EXCEPT ![c] = Top]

\* A slip: the children go to the top.
ReparentedTop(c, to) ==
    [d \in Category |-> IF d \in Children(c) \cup {c} THEN Top ELSE parent[d]]

\* ... and in one batch gives the children that parent, and removes the links
\* and the row.
Reparented(c, to) ==
    [d \in Category |-> IF d = c THEN Top
                        ELSE IF d \in Children(c) THEN to ELSE parent[d]]

DeleteCategory(e) ==
    /\ request[e].at = "delete"
    /\ LET c == request[e].cat IN
        /\ parent' = Reparented(c, request[e].to)
        /\ rows' = rows \ {c}
        /\ links' = {k \in links : k[2] # c}
    /\ EndWritten(e)
    /\ UNCHANGED <<used, product>>

-----------------------------------------------------------------------------
(* Products *)

\* The row is inserted, or the form of an existing one submitted; the
\* categories come later in the same request.
SubmitProduct(e) ==
    \E p \in Product :
        /\ product[p] \in {"new", "listed"}
        /\ product' = [product EXCEPT ![p] = "listed"]
        /\ Begin(e, [NoRequest EXCEPT !.at = "pick", !.product = p, !.fresh = TRUE])
        /\ UNCHANGED <<rows, used, parent, links>>

\* The public ids the form names are resolved to the rows that are there.
GetCategoriesByPublicIds(e) ==
    /\ request[e].at = "pick"
    /\ \E S \in SUBSET rows :
        request' = [request EXCEPT ![e] = [@ EXCEPT !.at = "tag", !.tags = S]]
    /\ UNCHANGED <<rows, used, parent, product, links>>

\* The product's links are replaced.
Relinked(p, S) == {k \in links : k[1] # p} \cup {p} \X S

SetProductCategories(e) ==
    /\ request[e].at = "tag"
    /\ links' = Relinked(request[e].product, request[e].tags)
    /\ EndWritten(e)
    /\ UNCHANGED <<rows, used, parent, product>>

DeleteProduct(p) ==
    /\ product[p] = "listed"
    /\ product' = [product EXCEPT ![p] = "deleted"]
    /\ links' = {k \in links : k[1] # p}
    /\ request' = [e \in Editor |-> [request[e] EXCEPT !.fresh = FALSE]]
    /\ UNCHANGED <<rows, used, parent>>

\* A Worker may stop, and a statement may throw, at any await.
EditorDies(e) ==
    /\ request[e].at # "idle"
    /\ request' = [request EXCEPT ![e] = NoRequest]
    /\ UNCHANGED <<rows, used, parent, product, links>>

Next ==
    \/ \E e \in Editor :
        \/ AskCreate(e) \/ CreateCategory(e)
        \/ AskUpdate(e) \/ CycleGuard(e) \/ UpdateCategory(e)
        \/ AskDelete(e) \/ DeleteCategory(e)
        \/ SubmitProduct(e) \/ GetCategoriesByPublicIds(e) \/ SetProductCategories(e)
        \/ EditorDies(e)
    \/ \E p \in Product : DeleteProduct(p)

Spec == Init /\ [][Next]_vars

-----------------------------------------------------------------------------
(* Properties *)

\* No category is its own ancestor: no set of categories has every parent
\* inside it.
Acyclic ==
    \A S \in SUBSET rows : S # {} => \E c \in S : parent[c] \notin S

\* A category's parent and both ends of a link have their row.
Connected ==
    /\ \A c \in rows : parent[c] \in rows \cup {Top}
    /\ \A k \in links : product[k[1]] = "listed" /\ k[2] \in rows

\* A request writes what it decided from a reading something has overtaken.
StaleWrite ==
    \E e \in Editor : /\ request[e].at \in Writing /\ ~request[e].fresh
                      /\ request'[e] = NoRequest

\* The guard against cycles, and the reparenting of a delete, are right: a cycle
\* arises only when a request writes after another has written since it read.
CycleNeedsStaleWrite == [][Acyclic /\ ~Acyclic' => StaleWrite]_vars

\* So is the cleanup: where there is no cycle, a row is left referring to one that
\* is gone only by such a write, of a create, a move, a delete or a form.  (The
\* children of a category that is its own parent would be handed to itself.)
OrphanNeedsStaleWrite ==
    [][Acyclic /\ Connected /\ ~Connected' => StaleWrite]_vars

\* A category that is added or deleted changes the page of no other, but for the
\* products that were filed in the deleted one itself: what its sub-categories
\* hold is still listed above them.  Again only a stale write can break this.
ListingFollowsLinks ==
    [][(Acyclic /\ Connected /\ rows' # rows /\ ~StaleWrite) =>
        \A c \in rows \cap rows' :
            ProductsInCategory(c)' =
                {p \in Product : \E d \in DescendantIds(c) : <<p, d>> \in links'}]_vars

\* As long as there is no cycle the admin's tree shows every category, so that
\* each can be opened and repaired.
TreeShowsAll == Acyclic => BuildTree = rows
=============================================================================

------------------------------ MODULE Navigation ------------------------------
(***************************************************************************)
(* The header and the footer menu, and the order of their items.           *)
(*                                                                         *)
(* An item is appended and removed by single statements, while a move and  *)
(* a drag-and-drop read first and write later, with requests of other      *)
(* administrators in between.  Ids are never given out again               *)
(* (AUTOINCREMENT).  Labels and links are left out: no order depends on    *)
(* them.                                                                   *)
(***************************************************************************)
EXTENDS Naturals, FiniteSets

CONSTANTS Location,  \* the menus
          Cap,       \* MENU_CAPS
          Singleton, \* home and catalog, in a menu at most once each
          Page,      \* pages, products and categories an item can point at
          Editor,    \* bound: requests of administrators at a time
          MaxItem    \* bound: items ever added

VARIABLES
    items,   \* items[i]: the row of menu item i; its domain is the rows there are
    last,    \* the last id given out
    public,  \* what a visitor may open: published, active, existing
    request  \* request[e]: what e has read, and what it is about to do

vars == <<items, last, public, request>>

-----------------------------------------------------------------------------
(* Vocabulary *)

Rows == [location : Location, target : Singleton \cup Page, position : Nat]

Menu(l) == {i \in DOMAIN items : items[i].location = l}

Position(i) == items[i].position

\* ORDER BY position, id
Before(i, j) == Position(i) < Position(j) \/ (Position(i) = Position(j) /\ i < j)

\* The ways to put the items of S at 0, 1, 2 ...
Orders(S) ==
    {o \in [S -> 0 .. Cardinality(S) - 1] : \A i, j \in S : i # j => o[i] # o[j]}

\* fresh: nothing has been written to the items since the request read.  The
\* code keeps no such mark; the properties use it to tell a race from a wrong
\* decision.
NoRequest == [at |-> "idle"]

\* A write to the items: whatever a request has read before is stale.
Overtaken == [e \in Editor |->
    IF request[e] = NoRequest THEN NoRequest ELSE [request[e] EXCEPT !.fresh = FALSE]]

EndWritten(e) == request' = [Overtaken EXCEPT ![e] = NoRequest]

-----------------------------------------------------------------------------

Init ==
    /\ items = <<>> /\ last = 0
    /\ public \in SUBSET Page
    /\ request = [e \in Editor |-> NoRequest]

\* External to the menus: a page is published or not, a product active or not,
\* a category created or deleted.
Toggle(p) ==
    /\ public' = IF p \in public THEN public \ {p} ELSE public \cup {p}
    /\ UNCHANGED <<items, last, request>>

\* A slip: the next position is the number of items.
NextPositionByCount(l) == Cardinality(Menu(l))

NextPosition(l) ==
    CHOOSE n \in 0 .. MaxItem :
        /\ \A i \in Menu(l) : Position(i) < n
        /\ n = 0 \/ \E i \in Menu(l) : Position(i) = n - 1

MayAdd(l, t) ==
    /\ Cardinality(Menu(l)) < Cap[l]
    /\ t \in Singleton \cup public
    /\ t \in Singleton => \A i \in Menu(l) : items[i].target # t

\* One guarded INSERT ... SELECT.
AddMenuItem(l, t) ==
    /\ MayAdd(l, t)
    /\ last < MaxItem
    /\ last' = last + 1
    /\ items' = [i \in DOMAIN items \cup {last + 1} |->
                   IF i \in DOMAIN items THEN items[i]
                   ELSE [location |-> l, target |-> t, position |-> NextPosition(l)]]
    /\ request' = Overtaken
    /\ UNCHANGED public

RemoveMenuItem(i) ==
    /\ items' = [j \in DOMAIN items \ {i} |-> items[j]]
    /\ request' = Overtaken
    /\ UNCHANGED <<last, public>>

-----------------------------------------------------------------------------
(* Moving an item up or down *)

\* The item's row is read ...
AskMove(e) ==
    /\ request[e] = NoRequest
    /\ \E i \in DOMAIN items, up \in BOOLEAN :
        request' = [request EXCEPT ![e] =
            [at |-> "neighbour", item |-> i, row |-> items[i], up |-> up, fresh |-> TRUE]]
    /\ UNCHANGED <<items, last, public>>

\* Items of the menu on the side e asks for, by what was read of e's item.
OnThatSide(e) ==
    LET r == request[e]
        Less(p, i, q, j) == p < q \/ (p = q /\ i < j)
    IN {j \in Menu(r.row.location) :
          IF r.up THEN Less(Position(j), j, r.row.position, r.item)
                  ELSE Less(r.row.position, r.item, Position(j), j)}

\* A slip: the far end of the menu is taken for the neighbour.
NeighbourAtTheEnd(e) ==
    CHOOSE j \in OnThatSide(e) : \A k \in OnThatSide(e) \ {j} :
        IF request[e].up THEN Before(j, k) ELSE Before(k, j)

Neighbour(e) ==
    CHOOSE j \in OnThatSide(e) : \A k \in OnThatSide(e) \ {j} :
        IF request[e].up THEN Before(k, j) ELSE Before(j, k)

\* ... then its neighbour's, if it has one ...
FindNeighbour(e) ==
    /\ request[e].at = "neighbour"
    /\ LET r == request[e] IN
       request' = [request EXCEPT ![e] =
           IF OnThatSide(e) = {} THEN NoRequest
           ELSE [at |-> "write", fresh |-> r.fresh,
                 order |-> [i \in {r.item, Neighbour(e)} |->
                              IF i = r.item THEN Position(Neighbour(e))
                              ELSE r.row.position]]]
    /\ UNCHANGED <<items, last, public>>

-----------------------------------------------------------------------------
(* Putting a whole menu in order *)

\* The form lists items in the order wanted, as its page showed them; those
\* the menu does not have drop out when their public ids are resolved.
AskReorder(e) ==
    /\ request[e] = NoRequest
    /\ \E l \in Location : \E S \in SUBSET Menu(l) : \E o \in Orders(S) :
        request' = [request EXCEPT ![e] =
            [at |-> "permutation", location |-> l, order |-> o, fresh |-> TRUE]]
    /\ UNCHANGED <<items, last, public>>

\* A slip: a list that leaves items out is written as it is.
IsPermutationPartly(e) == DOMAIN request[e].order \subseteq Menu(request[e].location)

\* The list must name each item of the menu.
IsPermutation(e) == DOMAIN request[e].order = Menu(request[e].location)

CheckPermutation(e) ==
    /\ request[e].at = "permutation"
    /\ request' = [request EXCEPT ![e] =
           IF IsPermutation(e) /\ DOMAIN @.order # {}
           THEN [at |-> "write", order |-> @.order, fresh |-> @.fresh]
           ELSE NoRequest]
    /\ UNCHANGED <<items, last, public>>

-----------------------------------------------------------------------------

\* One batch, of a move or of a reorder: UPDATE ... WHERE id, so that nothing
\* happens to a row that is gone.
WritePositions(e) ==
    /\ request[e].at = "write"
    /\ items' = [i \in DOMAIN items |->
                   IF i \in DOMAIN request[e].order
                   THEN [items[i] EXCEPT !.position = request[e].order[i]]
                   ELSE items[i]]
    /\ EndWritten(e)
    /\ UNCHANGED <<last, public>>

\* A Worker may stop at any await.
EditorDies(e) ==
    /\ request[e] # NoRequest
    /\ request' = [request EXCEPT ![e] = NoRequest]
    /\ UNCHANGED <<items, last, public>>

Next ==
    \/ \E p \in Page : Toggle(p)
    \/ \E l \in Location, t \in Singleton \cup Page : AddMenuItem(l, t)
    \/ \E i \in DOMAIN items : RemoveMenuItem(i)
    \/ \E e \in Editor :
        \/ AskMove(e) \/ FindNeighbour(e)
        \/ AskReorder(e) \/ CheckPermutation(e)
        \/ WritePositions(e) \/ EditorDies(e)

Spec == Init /\ [][Next]_vars

-----------------------------------------------------------------------------
(* Properties *)

TypeOK ==
    /\ last \in 0 .. MaxItem /\ public \subseteq Page
    /\ DOMAIN items \subseteq 1 .. last
    /\ \A i \in DOMAIN items : items[i] \in Rows
    /\ \A e \in Editor :
        request[e].at \in {"idle", "neighbour", "permutation", "write"}

\* No two items of the menu share a position.
Untied(l) == \A i, j \in Menu(l) : i # j => Position(i) # Position(j)

StaleWrite ==
    \E e \in Editor : /\ request[e].at = "write" /\ ~request[e].fresh
                      /\ request'[e] = NoRequest

\* The pairs of items that were in the menu before a step and are there after
\* it, and are shown the other way round.
Turned(l) ==
    {k \in (Menu(l) \cap Menu(l)') \X (Menu(l) \cap Menu(l)') :
        Before(k[1], k[2]) /\ ~Before(k[1], k[2])'}

\* A request wrote the order it was asked for, of the whole menu.
Reordered(l) ==
    \E e \in Editor :
        /\ request[e].at = "write" /\ request'[e] = NoRequest
        /\ DOMAIN request[e].order = Menu(l)
        /\ \A i, j \in Menu(l) : Before(i, j)' <=> request[e].order[i] < request[e].order[j]

\* In a menu where no two items share a position, a step leaves none that do,
\* puts a new item last, and otherwise exchanges at most one item with the next
\* or writes the whole order that was asked for: only a request that writes after
\* another has written since it read can do anything else.
MenuOrderNeedsNoLuck ==
    [][\A l \in Location : Untied(l) =>
        \/ StaleWrite
        \/ /\ Untied(l)'
           /\ \A i \in Menu(l)' \ Menu(l), j \in Menu(l) : Before(j, i)'
           /\ Cardinality(Turned(l)) <= 1 \/ Reordered(l)]_vars

\* A move always changes what is shown.  (It does not where two positions are
\* equal, as an overlap of two moves leaves them: the exchange is then of equals.)
MoveIsSeen ==
    \A e \in Editor : request[e].at = "write" /\ request[e].fresh =>
        \A i, j \in DOMAIN request[e].order : i # j =>
            request[e].order[i] # request[e].order[j]
=============================================================================

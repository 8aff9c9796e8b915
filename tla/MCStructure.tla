---------------------------- MODULE MCStructure ----------------------------
(***************************************************************************)
(* Small instances of Categories and of Navigation for TLC: one run checks *)
(* both, in behaviours of the one or of the other.                         *)
(***************************************************************************)
EXTENDS Structure, TLC

CONSTANTS c1, c2, c3, p1, e1, e2, MaxPerMenu

VARIABLE subject \* what the behaviour is about

MCCap == [l \in Location |-> MaxPerMenu]

\* Categories and editors are told apart by nothing but their names.
Symmetry == Permutations({c1, c2, c3}) \cup Permutations({e1, e2})

MCInit ==
    /\ Init /\ Nav!Init
    /\ subject \in {"categories", "menus"}

MCNext ==
    \/ /\ subject = "categories"
       /\ Next
       /\ UNCHANGED <<subject, items, last, public, asked>>
    \/ /\ subject = "menus"
       /\ Nav!Next
       /\ UNCHANGED <<subject, rows, used, parent, product, links, request>>

MCSpec == MCInit /\ [][MCNext]_<<vars, subject, items, last, public, asked>>
=============================================================================

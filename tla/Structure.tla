----------------------------- MODULE Structure -----------------------------
(***************************************************************************)
(* What administrators arrange a storefront by: the tree of categories and *)
(* the menus.                                                              *)
(*                                                                         *)
(* The two share no state: a menu refers to a category only through what   *)
(* may be opened, which Navigation lets change at any time.  They are put  *)
(* side by side here, without a next-state relation of their own.          *)
(***************************************************************************)
EXTENDS Categories

CONSTANTS Location, Cap, Singleton, Page, MaxItem \* of Navigation

ASSUME ItemAssumption == MaxItem \in Nat

VARIABLES items, last, public, \* of Navigation
          asked                \* its requests

Nav == INSTANCE Navigation WITH request <- asked

\* A menu without two equal positions stays so, and shows the order that was asked
\* for, unless a request writes after another has written since it read.
MenuOrderNeedsNoLuck == Nav!MenuOrderNeedsNoLuck

\* A move always changes what is shown: refuted on demand (Navigation says why).
MoveIsSeen == Nav!MoveIsSeen
=============================================================================

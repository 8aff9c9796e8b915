--------------------------- MODULE MCMembership ---------------------------
(* One customer, one webhook request at a time: no race is needed. *)
EXTENDS Membership

CONSTANTS c1, w1, ann

MCCustomers == {c1}
MCEmails    == {ann}
MCEmailOf   == [c \in MCCustomers |-> ann]
MCWorkers   == {w1}
=============================================================================

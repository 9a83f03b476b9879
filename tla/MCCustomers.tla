------------------------------ MODULE MCCustomers ------------------------------
(* A small instance of Customers: a customer exists at the start. *)
EXTENDS Customers

CONSTANTS e1, e2

MCSeeds == [x \in {2} |-> e1]
=============================================================================

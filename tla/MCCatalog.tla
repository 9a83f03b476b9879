------------------------------ MODULE MCCatalog ------------------------------
(* A small instance of Catalog: a product with two plans and one without. *)
EXTENDS Catalog

MCSeedPlans == [q \in {2, 4} |-> 8]
=============================================================================

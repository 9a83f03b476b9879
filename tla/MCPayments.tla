----------------------------- MODULE MCPayments -----------------------------
(* Small instances of Payments. *)
EXTENDS Payments, TLC

CONSTANTS c1, c2, c3, c4, k1, k2, i1, i2, alice, bob

\* Two invoices of two customers.
MCCustomerOf == [i \in Invoices |-> IF i = i1 THEN alice ELSE bob]

\* Paid by hand: a part, and a correction.
MCAmounts == {3, -1}
MCCorrections == {-1}

\* Calls are interchangeable, and so are keys.
Symmetry == Permutations(Calls) \cup Permutations(Keys)
=============================================================================

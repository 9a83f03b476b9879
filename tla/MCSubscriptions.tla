--------------------------- MODULE MCSubscriptions ---------------------------
(* Small instances of Subscriptions. *)
EXTENDS Subscriptions, TLC

CONSTANTS c1, c2, c3, w1, w2, alice, bob, pBilled, pTrial, pMinus

\* A plan billed at once, one with a trial in another currency, and one whose
\* trial days are negative.
MCTerms ==
  [p \in Plans |->
     [trial    |-> CASE p = pTrial -> 1 [] p = pMinus -> -1 [] OTHER -> 0,
      period   |-> 1,
      amount   |-> 2,
      currency |-> IF p = pTrial THEN "eur" ELSE "usd"]]

\* Calls are interchangeable, and so are workers and customers.
Symmetry == Permutations(Calls) \cup Permutations(Workers) \cup Permutations(Customers)
=============================================================================

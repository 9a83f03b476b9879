----------------------------- MODULE Settlement -----------------------------
(***************************************************************************)
(* What payment.Service and the ledger promise about recorded money, with  *)
(* requests, transactions and the provider abstracted away: a payment      *)
(* settles or fails in one step, a settled payment is reversed in one      *)
(* step, and the step that changes a payment's status is the step that     *)
(* writes the ledger entry about it.  A reversal carries the customer and  *)
(* the amount of the payment it reverses.                                  *)
(*                                                                         *)
(* A payment is reversed once, unless it is contested: reversals of it     *)
(* began that do not know of each other.  Who contests a payment is not up *)
(* to the book, so contested is a variable it only reads.                  *)
(***************************************************************************)
EXTENDS Integers

CONSTANTS Calls, Customers

VARIABLES payments, refunds, ledger, contested

bookVars == <<payments, refunds, ledger>>

Unused(c) == payments[c] = "none" /\ refunds[c] = "none"

Init ==
  /\ payments = [c \in Calls |-> "none"]
  /\ refunds = [c \in Calls |-> "none"]
  /\ ledger = {}

\* A payment of a positive amount by some customer is recorded.
Settle(c) ==
  /\ Unused(c)
  /\ payments' = [payments EXCEPT ![c] = "succeeded"]
  /\ \E e \in ledger' :
       /\ e.call = c
       /\ e.type = "payment"
       /\ e.customer \in Customers
       /\ e.amount > 0
       /\ ledger' = ledger \cup {e}
  /\ UNCHANGED refunds

\* A payment that never took money is recorded.
Fail(c) ==
  /\ Unused(c)
  /\ payments' = [payments EXCEPT ![c] = "failed"]
  /\ UNCHANGED <<refunds, ledger>>

\* A settled payment is given back in full.
Reverse(c, p) ==
  /\ Unused(c)
  /\ payments[p] = "succeeded" \/ (payments[p] = "refunded" /\ p \in contested)
  /\ payments' = [payments EXCEPT ![p] = "refunded"]
  /\ refunds' = [refunds EXCEPT ![c] = "succeeded"]
  /\ \E e \in ledger :
       /\ e.call = p
       /\ e.type = "payment"
       /\ ledger' = ledger \cup
                      {[call |-> c, type |-> "refund", customer |-> e.customer, amount |-> e.amount]}

\* A refund the provider declined is recorded; the payment stays settled.
KeepPayment(c) ==
  /\ Unused(c)
  /\ refunds' = [refunds EXCEPT ![c] = "failed"]
  /\ UNCHANGED <<payments, ledger>>

Next ==
  \E c \in Calls :
    \/ Settle(c)
    \/ Fail(c)
    \/ \E p \in Calls : Reverse(c, p)
    \/ KeepPayment(c)

Spec == Init /\ [][Next]_bookVars
=============================================================================

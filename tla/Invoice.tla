------------------------------ MODULE Invoice ------------------------------
(***************************************************************************)
(* The invoice aggregate of internal/invoice/model.go: the columns of an   *)
(* invoice row that money and life cycle depend on, and the methods that   *)
(* change them.  The methods are functions from the in-memory row a        *)
(* service loaded to the row it will write back; they do not look at the   *)
(* database.                                                               *)
(***************************************************************************)
EXTENDS Integers

InvoiceStatus == {"draft", "open", "paid", "void", "uncollectible"}

InvoiceRow == [status : InvoiceStatus, total : Int, paid : Int, due : Int]

\* CalculateTotals: what is left of the sum of the lines (no discount and no
\* tax: generateInvoice, the only creator of invoices, sets neither).
AmountDue(total, paid) == total - paid

\* Finalize: a zero-total invoice is paid at once, any other becomes open.
Finalize(row, total) ==
  [status |-> IF total = 0 THEN "paid" ELSE "open",
   total |-> total, paid |-> row.paid, due |-> AmountDue(total, row.paid)]

\* The row generateInvoice inserts and finalizes in one transaction.
Draft == [status |-> "draft", total |-> 0, paid |-> 0, due |-> 0]
Issued(total) == Finalize(Draft, total)

IsOpen(row) == row.status = "open"

Void(row) == [row EXCEPT !.status = "void"]

MarkPaid(row) == [status |-> "paid", total |-> row.total, paid |-> row.total, due |-> 0]

MarkUncollectible(row) == [row EXCEPT !.status = "uncollectible"]

\* Deviation: the balance is computed before the payment is added.
RecordPaymentLate(row, amount) ==
  LET due == row.total - row.paid
  IN  [status |-> IF due <= 0 THEN "paid" ELSE row.status,
       total |-> row.total, paid |-> row.paid + amount, due |-> due]

\* RecordPayment never looks at the status: it pays a void invoice too.
RecordPayment(row, amount) ==
  LET paid == row.paid + amount
      due == row.total - paid
  IN  [status |-> IF due <= 0 THEN "paid" ELSE row.status,
       total |-> row.total, paid |-> paid, due |-> due]

(***************************************************************************)
(* What the amounts of a row mean together: the balance is what is left of *)
(* the total, and an open invoice has something left to pay (so the amount *)
(* a payment charges is positive).  A row that only natural amounts were   *)
(* paid to shows none below zero and nothing left to pay once it is paid.  *)
(***************************************************************************)
Balanced(row) ==
  /\ row.due = row.total - row.paid
  /\ row.status = "open" => row.due > 0

PaidUp(row) ==
  /\ row.paid >= 0
  /\ row.status = "paid" => row.due <= 0
=============================================================================

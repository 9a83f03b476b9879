------------------------------ MODULE Payments ------------------------------
(***************************************************************************)
(* Money movement: payment.Service.Attempt and Refund, the invoice.Service *)
(* operations that write the same invoice rows, the ledger and the payment *)
(* provider, over one PostgreSQL database (READ COMMITTED).                *)
(*                                                                         *)
(* A call is one service call made by one request.  Every call reads rows  *)
(* outside any transaction, decides on its in-memory copies, and later     *)
(* writes whole rows back without comparing versions, so calls interleave  *)
(* at their reads, at the insert that takes the unique index, at the       *)
(* provider's answer and at the commit.  What a transaction writes becomes *)
(* visible at its commit, so the writes before a commit are part of the    *)
(* commit action.                                                          *)
(*                                                                         *)
(* A payment's or a refund's id is the call that created it.  The columns  *)
(* of a payment no Update writes (invoice, key, amount) are the fields of  *)
(* that call's request and snapshot; payments[c] is its status column.     *)
(***************************************************************************)
EXTENDS Invoice, FiniteSetsExt

CONSTANTS
  Calls,          \* service calls; each runs at most once
  Invoices,       \* invoice ids
  Customers,      \* customer ids
  Keys,           \* idempotency keys of payment attempts
  CustomerOf,     \* invoice.customer_id, never updated
  Totals,         \* totals an invoice may have been issued with
  InvoiceOps,     \* invoice.Service operations that have a caller
  Amounts,        \* amounts invoice.Service.RecordPayment is called with
  Answers,        \* what the provider may answer
  ReadFaults,     \* TRUE: the refund lookup may fail with a database error
  Aborts,         \* TRUE: a call may die (crash, client gone, timeout)
  MaxInFlight     \* bound: calls between their first read and their end

ASSUME CustomerAssumption == CustomerOf \in [Invoices -> Customers]
ASSUME TotalsAssumption == Totals \subseteq Nat
ASSUME AmountsAssumption == Amounts \subseteq Int
ASSUME OpsAssumption ==
  InvoiceOps \subseteq {"void", "mark_paid", "mark_uncollectible", "record_payment"}
ASSUME AnswersAssumption == Answers \subseteq {"succeeded", "declined", "error"}

VARIABLES
  invoices,   \* committed invoice rows
  payments,   \* committed status of the payment each call created
  refunds,    \* committed status of the refund each call created
  ledger,     \* committed ledger_transactions rows
  pc,         \* where each call is
  req,        \* what each call was asked to do
  snap,       \* the invoice row each call holds in memory
  answer,     \* what the provider answered to each call
  \* History, which no guard reads:
  met,        \* the refunds of the same payment under way when a refund began
  blind,      \* refunds whose lookup failed while there was one to find
  lost        \* invoices over which a copy was written that was not the row

callVars == <<pc, req, snap, answer>>
history == <<met, blind, lost>>
vars == <<invoices, payments, refunds, ledger, callVars, history>>

-----------------------------------------------------------------------------
PaymentStatus == {"none", "succeeded", "failed", "refunded"}
RefundStatus == {"none", "succeeded", "failed"}

NoRequest == [op |-> "none"]
AttemptRequest == [op : {"attempt"}, invoice : Invoices, key : Keys]
RefundRequest == [op : {"refund"}, payment : Calls]
InvoiceRequest == [op : InvoiceOps, invoice : Invoices, amount : Amounts \cup {0}]
Request == {NoRequest} \cup AttemptRequest \cup RefundRequest \cup InvoiceRequest

Location == {"idle", "attempt_read", "attempt_inserted", "attempt_answered",
             "refund_read", "refund_checked", "refund_answered",
             "invoice_read", "done", "failed"}

Ended == {"done", "failed"}
InFlight == {c \in Calls : pc[c] \notin Ended \cup {"idle"}}

\* A payment's amount is the balance its call read (payment.Amount =
\* inv.AmountDue); a refund's is its payment's.
PaymentAmount(c) == snap[c].due

Entry == [call : Calls, type : {"payment", "refund"}, customer : Customers, amount : Int]

PaymentEntry(c) ==
  [call |-> c, type |-> "payment",
   customer |-> CustomerOf[req[c].invoice], amount |-> PaymentAmount(c)]

RefundEntry(c) ==
  [call |-> c, type |-> "refund",
   customer |-> CustomerOf[req[req[c].payment].invoice],
   amount |-> PaymentAmount(req[c].payment)]

\* Deviation: a refund counts up, as if it undid the payment's entry.
GetBalanceRefundUp(cust) ==
  MapThenSumSet(LAMBDA e : IF e.type = "payment" THEN -e.amount ELSE e.amount,
                {e \in ledger : e.customer = cust})

\* ledger GetBalance: charges count up, payments and refunds count down.
GetBalance(cust) ==
  MapThenSumSet(LAMBDA e : IF e.type \in {"payment", "refund"} THEN -e.amount ELSE e.amount,
                {e \in ledger : e.customer = cust})

-----------------------------------------------------------------------------
Init ==
  /\ invoices \in [Invoices -> {Issued(t) : t \in Totals}]
  /\ payments = [c \in Calls |-> "none"]
  /\ refunds = [c \in Calls |-> "none"]
  /\ ledger = {}
  /\ pc = [c \in Calls |-> "idle"]
  /\ req = [c \in Calls |-> NoRequest]
  /\ snap = [c \in Calls |-> Draft]
  /\ answer = [c \in Calls |-> "none"]
  /\ met = [c \in Calls |-> {}]
  /\ blind = {}
  /\ lost = {}

Goto(c, l) == pc' = [pc EXCEPT ![c] = l]

IsRefund(c) == req[c].op = "refund"

\* The first read of a call: it becomes in flight with request r, or is refused.
Begin(c, r, accepted, l) ==
  /\ pc[c] = "idle"
  /\ Cardinality(InFlight) < MaxInFlight
  /\ req' = [req EXCEPT ![c] = r]
  /\ Goto(c, IF accepted THEN l ELSE "failed")
  /\ met' = [met EXCEPT ![c] = {d \in InFlight : IsRefund(d) /\ req[d] = r}]
  /\ UNCHANGED <<blind, lost>>

\* The provider's answer to a call that waits for it.
Answered(c, a, l) ==
  /\ answer' = [answer EXCEPT ![c] = a]
  /\ Goto(c, l)
  /\ UNCHANGED <<invoices, payments, refunds, ledger, req, snap, history>>

\* The rows by id: an UPDATE puts back every column from memory.
LoadInvoice(c, i) == snap' = [snap EXCEPT ![c] = invoices[i]]
Current(c) == snap[c] = invoices[req[c].invoice]
SaveInvoice(c, row) ==
  /\ invoices' = [invoices EXCEPT ![req[c].invoice] = row]
  /\ lost' = IF Current(c) THEN lost ELSE lost \cup {req[c].invoice}
PaymentExists(p) == payments[p] # "none"
SavePayment(p, status) == payments' = [payments EXCEPT ![p] = status]
HasRefund(p) == \E d \in Calls : refunds[d] # "none" /\ req[d].payment = p
SaveRefund(r, status) == refunds' = [refunds EXCEPT ![r] = status]
AddEntry(e) == ledger' = ledger \cup {e}

-----------------------------------------------------------------------------
(* payment.Service.Attempt *)

\* Deviation: the invoice is not required to be open.
AttemptReadAny(c, i, k) ==
  /\ Begin(c, [op |-> "attempt", invoice |-> i, key |-> k], TRUE, "attempt_read")
  /\ LoadInvoice(c, i)
  /\ UNCHANGED <<invoices, payments, refunds, ledger, answer>>

\* The invoice is loaded and must be open; the copy in memory lives to the end.
AttemptRead(c, i, k) ==
  /\ Begin(c, [op |-> "attempt", invoice |-> i, key |-> k], IsOpen(invoices[i]), "attempt_read")
  /\ LoadInvoice(c, i)
  /\ UNCHANGED <<invoices, payments, refunds, ledger, answer>>

SameKey(c, d) ==
  /\ d # c
  /\ req[d].op = "attempt"
  /\ req[d].invoice = req[c].invoice
  /\ req[d].key = req[c].key

\* Deviation: the index on (invoice, key) is not unique.
AttemptInsertAnyKey(c) ==
  /\ pc[c] = "attempt_read"
  /\ Goto(c, "attempt_inserted")
  /\ UNCHANGED <<invoices, payments, refunds, ledger, req, snap, answer, history>>

\* BEGIN and INSERT of the pending payment.  The unique index on (invoice, key)
\* makes the insert wait for an uncommitted twin and fail on a committed one.
AttemptInsert(c) ==
  /\ pc[c] = "attempt_read"
  /\ \A d \in Calls : SameKey(c, d) => pc[d] \notin {"attempt_inserted", "attempt_answered"}
  /\ Goto(c, IF \E d \in Calls : SameKey(c, d) /\ payments[d] # "none"
             THEN "failed" ELSE "attempt_inserted")
  /\ UNCHANGED <<invoices, payments, refunds, ledger, req, snap, answer, history>>

\* provider.Charge answers, inside the open transaction.
AttemptCharge(c) ==
  /\ pc[c] = "attempt_inserted"
  /\ \E a \in Answers : Answered(c, a, "attempt_answered")

\* Deviation: the response's status is not looked at.
AttemptSucceedAnyAnswer(c) ==
  /\ pc[c] = "attempt_answered"
  /\ SavePayment(c, "succeeded")
  /\ SaveInvoice(c, RecordPayment(snap[c], PaymentAmount(c)))
  /\ AddEntry(PaymentEntry(c))
  /\ Goto(c, "done")
  /\ UNCHANGED <<refunds, req, snap, answer, met, blind>>

\* Deviation: the invoice is not written back.
AttemptSucceedNoInvoice(c) ==
  /\ pc[c] = "attempt_answered"
  /\ answer[c] = "succeeded"
  /\ SavePayment(c, "succeeded")
  /\ AddEntry(PaymentEntry(c))
  /\ Goto(c, "done")
  /\ UNCHANGED <<invoices, refunds, req, snap, answer, history>>

\* Deviation: the invoice is checked again after the charge, and an invoice no
\* longer open fails the call.
AttemptSucceedRecheck(c) ==
  /\ pc[c] = "attempt_answered"
  /\ answer[c] = "succeeded"
  /\ IF IsOpen(invoices[req[c].invoice])
     THEN /\ SavePayment(c, "succeeded")
          /\ SaveInvoice(c, RecordPayment(snap[c], PaymentAmount(c)))
          /\ AddEntry(PaymentEntry(c))
          /\ Goto(c, "done")
     ELSE Goto(c, "failed") /\ UNCHANGED <<invoices, payments, ledger, lost>>
  /\ UNCHANGED <<refunds, req, snap, answer, met, blind>>

\* The charge went through: the payment, the invoice (the copy read at the
\* start plus the payment) and the ledger entry commit together.
AttemptSucceed(c) ==
  /\ pc[c] = "attempt_answered"
  /\ answer[c] = "succeeded"
  /\ SavePayment(c, "succeeded")
  /\ SaveInvoice(c, RecordPayment(snap[c], PaymentAmount(c)))
  /\ AddEntry(PaymentEntry(c))
  /\ Goto(c, "done")
  /\ UNCHANGED <<refunds, req, snap, answer, met, blind>>

\* Deviation: a declined payment still pays the invoice.
AttemptDeclinePays(c) ==
  /\ pc[c] = "attempt_answered"
  /\ answer[c] = "declined"
  /\ SavePayment(c, "failed")
  /\ SaveInvoice(c, RecordPayment(snap[c], PaymentAmount(c)))
  /\ Goto(c, "done")
  /\ UNCHANGED <<refunds, ledger, req, snap, answer, met, blind>>

\* A response that is not "succeeded" but comes without an error: the failed
\* payment commits and keeps its key.
AttemptDecline(c) ==
  /\ pc[c] = "attempt_answered"
  /\ answer[c] = "declined"
  /\ SavePayment(c, "failed")
  /\ Goto(c, "done")
  /\ UNCHANGED <<invoices, refunds, ledger, req, snap, answer, history>>

\* Deviation: the charge is retried for as long as it errs.
AttemptErrorRetry(c) ==
  /\ pc[c] = "attempt_answered"
  /\ answer[c] = "error"
  /\ Goto(c, "attempt_inserted")
  /\ UNCHANGED <<invoices, payments, refunds, ledger, req, snap, answer, history>>

\* Charge returned an error: the row is marked failed in the transaction, then
\* returning the error rolls that very write back.
AttemptError(c) ==
  /\ pc[c] = "attempt_answered"
  /\ answer[c] = "error"
  /\ Goto(c, "failed")
  /\ UNCHANGED <<invoices, payments, refunds, ledger, req, snap, answer, history>>

-----------------------------------------------------------------------------
(* payment.Service.Refund *)

\* Deviation: CanBeRefunded is not asked.
RefundReadAny(c, p) ==
  /\ PaymentExists(p)
  /\ Begin(c, [op |-> "refund", payment |-> p], TRUE, "refund_read")
  /\ UNCHANGED <<invoices, payments, refunds, ledger, snap, answer>>

\* The payment is loaded and must be succeeded.
RefundRead(c, p) ==
  /\ PaymentExists(p)
  /\ Begin(c, [op |-> "refund", payment |-> p], payments[p] = "succeeded", "refund_read")
  /\ UNCHANGED <<invoices, payments, refunds, ledger, snap, answer>>

\* Deviation: earlier refunds of the payment are not looked up.
RefundCheckNothing(c) ==
  /\ pc[c] = "refund_read"
  /\ Goto(c, "refund_checked")
  /\ UNCHANGED <<invoices, payments, refunds, ledger, req, snap, answer, history>>

\* GetByPaymentID, still outside the transaction: any refund row of the payment
\* refuses the call, and any error of the lookup lets it pass (which is the same
\* if there was none to find).
RefundCheck(c) ==
  /\ pc[c] = "refund_read"
  /\ \/ /\ ~HasRefund(req[c].payment)
        /\ Goto(c, "refund_checked")
        /\ UNCHANGED blind
     \/ /\ HasRefund(req[c].payment)
        /\ Goto(c, "failed")
        /\ UNCHANGED blind
     \/ /\ HasRefund(req[c].payment) /\ ReadFaults
        /\ Goto(c, "refund_checked")
        /\ blind' = blind \cup {c}
  /\ UNCHANGED <<invoices, payments, refunds, ledger, req, snap, answer, met, lost>>

\* BEGIN, INSERT of the pending refund (nothing unique but its id), and the
\* provider's answer.  (A payment without the provider's id would fail the call;
\* one that succeeded was saved with it.)
RefundCharge(c) ==
  /\ pc[c] = "refund_checked"
  /\ \E a \in Answers : Answered(c, a, "refund_answered")

\* Deviation: no ledger entry for a refund.
RefundSucceedNoEntry(c) ==
  /\ pc[c] = "refund_answered"
  /\ answer[c] = "succeeded"
  /\ SaveRefund(c, "succeeded")
  /\ SavePayment(req[c].payment, "refunded")
  /\ Goto(c, "done")
  /\ UNCHANGED <<invoices, ledger, req, snap, answer, history>>

\* The refund, the payment's status and the ledger entry commit together; the
\* invoice is left as it is.  (The invoice lookup before RecordRefund cannot
\* fail without aborting the transaction: the row exists by foreign key.)
RefundSucceed(c) ==
  /\ pc[c] = "refund_answered"
  /\ answer[c] = "succeeded"
  /\ SaveRefund(c, "succeeded")
  /\ SavePayment(req[c].payment, "refunded")
  /\ AddEntry(RefundEntry(c))
  /\ Goto(c, "done")
  /\ UNCHANGED <<invoices, req, snap, answer, history>>

\* Deviation: the provider's status is copied to the row.
RefundDeclineCopied(c) ==
  /\ pc[c] = "refund_answered"
  /\ answer[c] = "declined"
  /\ SaveRefund(c, answer[c])
  /\ Goto(c, "done")
  /\ UNCHANGED <<invoices, payments, ledger, req, snap, answer, history>>

\* Deviation: the payment is marked refunded whatever the provider said.
RefundDeclineMarks(c) ==
  /\ pc[c] = "refund_answered"
  /\ answer[c] = "declined"
  /\ SaveRefund(c, "failed")
  /\ SavePayment(req[c].payment, "refunded")
  /\ Goto(c, "done")
  /\ UNCHANGED <<invoices, ledger, req, snap, answer, history>>

\* Declined without an error: the failed refund commits, the payment stays.
RefundDecline(c) ==
  /\ pc[c] = "refund_answered"
  /\ answer[c] = "declined"
  /\ SaveRefund(c, "failed")
  /\ Goto(c, "done")
  /\ UNCHANGED <<invoices, payments, ledger, req, snap, answer, history>>

RefundError(c) ==
  /\ pc[c] = "refund_answered"
  /\ answer[c] = "error"
  /\ Goto(c, "failed")
  /\ UNCHANGED <<invoices, payments, refunds, ledger, req, snap, answer, history>>

-----------------------------------------------------------------------------
(* invoice.Service: Void, MarkPaid, MarkUncollectible, RecordPayment *)

InvoiceRead(c, op, i, n) ==
  /\ n \in IF op = "record_payment" THEN Amounts ELSE {0}
  /\ Begin(c, [op |-> op, invoice |-> i, amount |-> n],
           op = "record_payment" \/ IsOpen(invoices[i]), "invoice_read")
  /\ LoadInvoice(c, i)
  /\ UNCHANGED <<invoices, payments, refunds, ledger, answer>>

\* What the call writes, computed from the copy it read.
Changed(r, row) ==
  CASE r.op = "void"               -> Void(row)
    [] r.op = "mark_paid"          -> MarkPaid(row)
    [] r.op = "mark_uncollectible" -> MarkUncollectible(row)
    [] r.op = "record_payment"     -> RecordPayment(row, r.amount)

InvoiceWrite(c) ==
  /\ pc[c] = "invoice_read"
  /\ SaveInvoice(c, Changed(req[c], snap[c]))
  /\ Goto(c, "done")
  /\ UNCHANGED <<payments, refunds, ledger, req, snap, answer, met, blind>>

-----------------------------------------------------------------------------
\* The process dies, the client disconnects or the request times out: an open
\* transaction rolls back, whatever the provider already did stays done.
Abort(c) ==
  /\ Aborts
  /\ c \in InFlight
  /\ Goto(c, "failed")
  /\ UNCHANGED <<invoices, payments, refunds, ledger, req, snap, answer, history>>

Arrive(c) ==
  \/ \E i \in Invoices, k \in Keys : AttemptRead(c, i, k)
  \/ \E p \in Calls : RefundRead(c, p)
  \/ \E op \in InvoiceOps, i \in Invoices, n \in Amounts \cup {0} : InvoiceRead(c, op, i, n)

Step(c) ==
  \/ AttemptInsert(c)
  \/ AttemptCharge(c)
  \/ AttemptSucceed(c)
  \/ AttemptDecline(c)
  \/ AttemptError(c)
  \/ RefundCheck(c)
  \/ RefundCharge(c)
  \/ RefundSucceed(c)
  \/ RefundDecline(c)
  \/ RefundError(c)
  \/ InvoiceWrite(c)

\* Every call has run: the system is at rest.
Rest == (\A c \in Calls : pc[c] \in Ended) /\ UNCHANGED vars

Next == (\E c \in Calls : Arrive(c) \/ Step(c) \/ Abort(c)) \/ Rest

\* A call that has begun is a running goroutine: it keeps taking its steps.
Fairness == \A c \in Calls : WF_vars(Step(c))

Spec == Init /\ [][Next]_vars /\ Fairness

-----------------------------------------------------------------------------
(* Properties *)

TypeOK ==
  /\ invoices \in [Invoices -> InvoiceRow]
  /\ payments \in [Calls -> PaymentStatus]
  /\ refunds \in [Calls -> RefundStatus]
  /\ ledger \subseteq Entry
  /\ pc \in [Calls -> Location]
  /\ req \in [Calls -> Request]
  /\ snap \in [Calls -> InvoiceRow]
  /\ answer \in [Calls -> {"none"} \cup Answers]
  /\ met \in [Calls -> SUBSET Calls]
  /\ blind \subseteq Calls
  /\ lost \subseteq Invoices

\* Calls whose payment took money, and calls whose refund gave it back.
Taken == {c \in Calls : payments[c] \in {"succeeded", "refunded"}}
GivenBack == {c \in Calls : refunds[c] = "succeeded"}

\* The amounts of an invoice always add up, and an open invoice has a positive
\* balance, although every write puts back a whole row computed from a copy
\* that may be stale.  Attempt charges that balance, so no charge is zero or
\* negative.  Unless negative amounts are recorded by hand, which nothing
\* refuses, a paid invoice owes nothing.
Sound(row) == Balanced(row) /\ (Amounts \subseteq Nat => PaidUp(row))
InvoicesBalanced == \A i \in Invoices : Sound(invoices[i])

\* The ledger is exactly one payment entry per payment that took money and one
\* refund entry per refund that gave it back, with the customer and the amount
\* of the payment: no rollback, no decline and no double refund leaves an entry
\* without its row or a row without its entry.
LedgerMatchesRows ==
  ledger = {PaymentEntry(c) : c \in Taken} \cup {RefundEntry(c) : c \in GivenBack}

\* The balance the ledger reports for a customer is what the payment and the
\* refund rows say: it goes down by a payment and down again by its refund.
BalanceExplained ==
  \A cust \in Customers :
    LET paid == {c \in Taken : CustomerOf[req[c].invoice] = cust}
        back == {c \in GivenBack : CustomerOf[req[req[c].payment].invoice] = cust}
    IN  GetBalance(cust) = -MapThenSumSet(PaymentAmount, paid)
                           - MapThenSumSet(LAMBDA c : PaymentAmount(req[c].payment), back)

\* A payment row that says money was taken, and a refund row that says it was
\* given back, is backed by an answer "succeeded" of the provider to that call.
RecordedWasAnswered ==
  \A c \in Taken \cup GivenBack : answer[c] = "succeeded"

\* Of the calls with one invoice and one idempotency key, at most one has been
\* charged and not died: a client that repeats its request cannot be charged
\* twice by calls that run to their end.
OneChargePerKey ==
  \A c, d \in Calls :
    /\ req[c].op = "attempt" /\ SameKey(c, d)
    /\ answer[c] = "succeeded" /\ answer[d] = "succeeded"
    => "failed" \in {pc[c], pc[d]}

\* A payment is refunded exactly when some refund of it succeeded, and only a
\* payment that took money is the subject of a succeeded refund.
RefundedHasRefund ==
  \A p \in Calls :
    payments[p] = "refunded" <=> \E c \in GivenBack : req[c].payment = p

\* The calls that change invoice i, and those that paid it by hand.
Concerns(c, i) == req[c].op \in {"attempt"} \cup InvoiceOps /\ req[c].invoice = i
PaidByHand(i) ==
  \E c \in Calls :
    Concerns(c, i) /\ pc[c] = "done" /\ req[c].op \in {"mark_paid", "record_payment"}

\* A paid invoice with a positive total has a payment that took money, unless it
\* was paid by hand.
PaidHasPayment ==
  \A i \in Invoices :
    invoices[i].status = "paid" /\ invoices[i].total > 0
    => PaidByHand(i) \/ \E c \in Taken : req[c].invoice = i

\* Paid, void and uncollectible are the end of an invoice's life: the row of
\* such an invoice is written again only by a call whose copy another call's
\* write has overtaken, or by RecordPayment, which does not look at the status.
TerminalIsFinal ==
  [][\A i \in Invoices :
       invoices[i].status \in {"paid", "void", "uncollectible"} /\ invoices'[i] # invoices[i]
       => \E c \in Calls : /\ pc'[c] # pc[c] /\ Concerns(c, i)
                           /\ ~Current(c) \/ req[c].op = "record_payment"]_vars

\* An invoice that nobody paid by hand never shows more than its payments took,
\* whatever calls overlap; and it shows less only if a copy was written over it
\* that was not the row.
PaymentsAreCounted ==
  \A i \in Invoices :
    LET taken == MapThenSumSet(PaymentAmount, {c \in Taken : req[c].invoice = i})
    IN  \/ PaidByHand(i)
        \/ invoices[i].paid = taken
        \/ invoices[i].paid < taken /\ i \in lost

\* Two calls refund one payment.
SamePayment(c, d) == c # d /\ IsRefund(c) /\ IsRefund(d) /\ req[c].payment = req[d].payment

\* They were under way together, or one was not told of the other.
Collide(c, d) == c \in met[d] \/ d \in met[c] \/ c \in blind \/ d \in blind

\* A payment has at most one refund row, failed ones included.
OneRefundPerPayment ==
  \A c, d \in Calls : SamePayment(c, d) => "none" \in {refunds[c], refunds[d]}

\* It has two only if the two calls overlapped or the lookup of one failed.
SecondRefundCollides ==
  \A c, d \in Calls :
    SamePayment(c, d) /\ refunds[c] # "none" /\ refunds[d] # "none" => Collide(c, d)

\* Every call that begins ends: calls that wait for each other's index entries
\* never wait in a circle.
CallsEnd == \A c \in Calls : pc[c] \notin {"idle"} \cup Ended ~> pc[c] \in Ended

\* If no call dies, every charge the provider made is recorded in the end.
ChargesRecorded ==
  \A c \in Calls :
    req[c].op = "attempt" /\ answer[c] = "succeeded"
    ~> payments[c] \in {"succeeded", "refunded"}

\* The payments of which two refunds were under way at once, or one was not
\* told of another.
Contested == {p \in Calls : \E c, d \in Calls : SamePayment(c, d) /\ req[c].payment = p /\ Collide(c, d)}

\* The rows and the ledger, without the calls, are the abstract book.
Book == INSTANCE Settlement WITH contested <- Contested

\* Seen from the tables only, concurrent calls settle, fail and reverse payments
\* atomically, and none but a contested payment is reversed twice.
BookKept == Book!Spec
=============================================================================

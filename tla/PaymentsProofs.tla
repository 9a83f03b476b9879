--------------------------- MODULE PaymentsProofs ---------------------------
(***************************************************************************)
(* Theorems about Payments for every number of calls, invoices, customers  *)
(* and keys, whatever the totals, the routed invoice operations and the    *)
(* provider's answers, with and without read faults and aborts.            *)
(*                                                                         *)
(* None of the safety properties is inductive: what a call may still write *)
(* depends on where it is, on the copy of the invoice it holds and on what *)
(* the provider answered.  IInv adds that.                                 *)
(***************************************************************************)
EXTENDS Payments, FiniteLemmas

USE DEF LoadInvoice, SaveInvoice, PaymentExists, SavePayment, HasRefund, SaveRefund, AddEntry, history

AttemptPC == {"attempt_read", "attempt_inserted", "attempt_answered"}
RefundPC == {"refund_read", "refund_checked", "refund_answered"}

(* A call is where its request takes it, and an attempt or an invoice
   operation holds a copy of an invoice whose amounts add up. *)
ControlInv ==
  \A c \in Calls :
    /\ pc[c] = "idle" => answer[c] = "none"
    /\ pc[c] \in AttemptPC =>
         /\ req[c] \in AttemptRequest
         /\ IsOpen(snap[c])
         /\ Sound(snap[c])
    /\ pc[c] \in RefundPC => req[c] \in RefundRequest
    /\ pc[c] = "invoice_read" =>
         /\ req[c] \in InvoiceRequest
         /\ Sound(snap[c])
         /\ req[c].op # "record_payment" => IsOpen(snap[c])

(* A row belongs to a call that ended normally, and says what the provider
   answered to it. *)
RowInv ==
  \A c \in Calls :
    /\ payments[c] # "none" =>
         /\ pc[c] = "done"
         /\ req[c] \in AttemptRequest
         /\ refunds[c] = "none"
    /\ payments[c] \in {"succeeded", "refunded"} => answer[c] = "succeeded"
    /\ payments[c] \in {"succeeded", "refunded"} => snap[c].due > 0
    /\ refunds[c] # "none" =>
         /\ pc[c] = "done"
         /\ req[c] \in RefundRequest
    /\ refunds[c] = "succeeded" => answer[c] = "succeeded"

(* A refund under way is about a payment that took money, a succeeded one
   about a refunded payment, and a refunded payment has such a refund. *)
RefundInv ==
  /\ \A c \in Calls :
       pc[c] \in RefundPC => payments[req[c].payment] \in {"succeeded", "refunded"}
  /\ \A c \in Calls : refunds[c] = "succeeded" => payments[req[c].payment] = "refunded"
  /\ \A p \in Calls :
       payments[p] = "refunded" => \E c \in Calls : refunds[c] = "succeeded" /\ req[c].payment = p

(* The index entry of (invoice, key) is held by one call at a time, from its
   insert to its rollback or, once committed, for ever; a charge is made only
   by a holder. *)
Holds(c) == pc[c] \in {"attempt_inserted", "attempt_answered"} \/ payments[c] # "none"
KeyInv ==
  /\ \A c, d \in Calls : req[c].op = "attempt" /\ SameKey(c, d) => ~(Holds(c) /\ Holds(d))
  /\ \A c \in Calls :
       req[c].op = "attempt" /\ answer[c] = "succeeded" => Holds(c) \/ pc[c] = "failed"

(* Two refunds of one payment that are under way together have met, and of two
   past the lookup one has met the other or was misled. *)
Past(c) == pc[c] \in {"refund_checked", "refund_answered"} \/ refunds[c] # "none"
PairInv ==
  \A c, d \in Calls :
    /\ SamePayment(c, d)
    /\ (pc[c] \in RefundPC /\ pc[d] \in RefundPC) \/ (Past(c) /\ Past(d))
    => Collide(c, d)

IInv ==
  /\ TypeOK
  /\ ControlInv
  /\ InvoicesBalanced
  /\ RowInv
  /\ RefundInv
  /\ LedgerMatchesRows
  /\ KeyInv
  /\ PairInv

-----------------------------------------------------------------------------
(* Rows *)

(* RecordPayment returns a row, and keeps its amounts adding up even when it
   overpays or takes back. *)
LEMMA RecordPaymentRow ==
  ASSUME NEW row \in InvoiceRow, NEW n \in Int
  PROVE  /\ RecordPayment(row, n) \in InvoiceRow
         /\ Sound(row) /\ (Amounts \subseteq Nat => n >= 0) => Sound(RecordPayment(row, n))
<1>1. /\ RecordPayment(row, n) \in InvoiceRow
      /\ Balanced(RecordPayment(row, n))
  BY DEF RecordPayment, InvoiceRow, InvoiceStatus, Balanced
<1>2. Balanced(row) /\ PaidUp(row) /\ n >= 0 => PaidUp(RecordPayment(row, n))
  BY DEF RecordPayment, InvoiceRow, InvoiceStatus, Balanced, PaidUp
<1>3. QED
  BY <1>1, <1>2 DEF Sound

(* So do the methods that close an invoice; MarkPaid is called on open rows. *)
LEMMA ClosedRow ==
  ASSUME NEW row \in InvoiceRow
  PROVE  /\ Void(row) \in InvoiceRow
         /\ MarkUncollectible(row) \in InvoiceRow
         /\ MarkPaid(row) \in InvoiceRow
         /\ Sound(row) => Sound(Void(row)) /\ Sound(MarkUncollectible(row))
         /\ Sound(row) /\ IsOpen(row) => Sound(MarkPaid(row))
<1> USE DEF InvoiceRow, InvoiceStatus, Sound, Balanced, PaidUp, IsOpen
<1>1. Void(row) \in InvoiceRow /\ (Sound(row) => Sound(Void(row)))
  BY DEF Void
<1>2. /\ MarkUncollectible(row) \in InvoiceRow
      /\ Sound(row) => Sound(MarkUncollectible(row))
  BY DEF MarkUncollectible
<1>3. MarkPaid(row) \in InvoiceRow /\ (Sound(row) /\ IsOpen(row) => Sound(MarkPaid(row)))
  BY DEF MarkPaid
<1>4. QED
  BY <1>1, <1>2, <1>3

(* An issued invoice is open with its total to pay, or paid if that is zero. *)
LEMMA IssuedRow ==
  ASSUME NEW n \in Nat
  PROVE  /\ Issued(n) \in InvoiceRow
         /\ Sound(Issued(n))
  BY DEF Issued, Finalize, AmountDue, Draft, InvoiceRow, InvoiceStatus, Sound, Balanced, PaidUp

(* What an invoice operation writes adds up if what it read did. *)
LEMMA ChangedBalanced ==
  ASSUME NEW row \in InvoiceRow, Sound(row), NEW r \in InvoiceRequest,
         r.op # "record_payment" => IsOpen(row)
  PROVE  /\ Changed(r, row) \in InvoiceRow
         /\ Sound(Changed(r, row))
<1>1. r.op \in {"void", "mark_paid", "mark_uncollectible", "record_payment"}
  BY OpsAssumption DEF InvoiceRequest
<1>2. r.amount \in Int /\ (Amounts \subseteq Nat => r.amount >= 0)
  <2>1. r.amount \in Amounts \cup {0}
    BY DEF InvoiceRequest
  <2>2. CASE r.amount \in Amounts
    <3>1. r.amount \in Int
      BY <2>2, AmountsAssumption
    <3>2. Amounts \subseteq Nat => r.amount \in Nat
      BY <2>2
    <3>3. QED
      BY <3>1, <3>2
  <2>3. CASE r.amount = 0
    BY <2>3
  <2>4. QED
    BY <2>1, <2>2, <2>3
<1>3. CASE r.op = "void"
  BY <1>3, ClosedRow DEF Changed
<1>4. CASE r.op = "mark_paid"
  BY <1>4, ClosedRow DEF Changed
<1>5. CASE r.op = "mark_uncollectible"
  BY <1>5, ClosedRow DEF Changed
<1>6. CASE r.op = "record_payment"
  BY <1>6, <1>2, RecordPaymentRow DEF Changed
<1>7. QED
  BY <1>1, <1>3, <1>4, <1>5, <1>6

-----------------------------------------------------------------------------
(* Initial states *)

LEMMA InitIInv == Init => IInv
<1> SUFFICES ASSUME Init
             PROVE  IInv
  OBVIOUS
<1> USE DEF Init
<1>1. \A t \in Totals : Issued(t) \in InvoiceRow /\ Sound(Issued(t))
  BY TotalsAssumption, IssuedRow
<1>2. invoices \in [Invoices -> InvoiceRow] /\ InvoicesBalanced
  BY <1>1 DEF InvoicesBalanced
<1>3. TypeOK
  <2>1. Draft \in InvoiceRow
    BY DEF Draft, InvoiceRow, InvoiceStatus
  <2>2. QED
    BY <1>2, <2>1 DEF TypeOK, PaymentStatus, RefundStatus, Location, Request
<1>4. ControlInv
  BY DEF ControlInv, AttemptPC, RefundPC
<1>5. RowInv
  BY DEF RowInv
<1>6. RefundInv
  BY DEF RefundInv, RefundPC
<1>7. LedgerMatchesRows
  BY DEF LedgerMatchesRows, Taken, GivenBack
<1>8. KeyInv
  BY DEF KeyInv, Holds, NoRequest
<1>9. PairInv
  BY DEF PairInv, Past, SamePayment, IsRefund, NoRequest
<1>10. QED
  BY <1>2, <1>3, <1>4, <1>5, <1>6, <1>7, <1>8, <1>9 DEF IInv

-----------------------------------------------------------------------------
(* Steps *)

(* Every variable keeps its type. *)
LEMMA TypeStep == IInv /\ [Next]_vars => TypeOK'
<1> SUFFICES ASSUME IInv, [Next]_vars
             PROVE  TypeOK'
  OBVIOUS
<1> USE DEF IInv, TypeOK
<1>1. ASSUME NEW c \in Calls, NEW i \in Invoices, NEW k \in Keys, AttemptRead(c, i, k)
      PROVE  TypeOK'
  <2>1. [op |-> "attempt", invoice |-> i, key |-> k] \in Request
    BY DEF Request, AttemptRequest
  <2>2. req' \in [Calls -> Request]
    BY <1>1, <2>1 DEF AttemptRead, Begin
  <2>3. pc' \in [Calls -> Location]
    BY <1>1 DEF AttemptRead, Begin, Goto, Location
  <2>4. met' \in [Calls -> SUBSET Calls] /\ UNCHANGED <<blind, lost>>
    BY <1>1 DEF AttemptRead, Begin, InFlight
  <2>5. QED
    BY <1>1, <2>2, <2>3, <2>4 DEF AttemptRead
<1>2. ASSUME NEW c \in Calls, AttemptInsert(c)
      PROVE  TypeOK'
  BY <1>2 DEF AttemptInsert, Goto, Location
<1>3. ASSUME NEW c \in Calls, AttemptCharge(c)
      PROVE  TypeOK'
  BY <1>3 DEF AttemptCharge, Answered, Goto, Location
<1>4. ASSUME NEW c \in Calls, AttemptSucceed(c)
      PROVE  TypeOK'
  <2>1. req[c] \in AttemptRequest
    BY <1>4 DEF AttemptSucceed, ControlInv, AttemptPC
  <2>2. CustomerOf[req[c].invoice] \in Customers /\ req[c].invoice \in Invoices
    BY <2>1, CustomerAssumption DEF AttemptRequest
  <2>3. PaymentAmount(c) \in Int
    BY DEF PaymentAmount, InvoiceRow
  <2>4. PaymentEntry(c) \in Entry
    BY <2>2, <2>3 DEF PaymentEntry, Entry
  <2>5. invoices' \in [Invoices -> InvoiceRow]
    BY <1>4, <2>2, <2>3, RecordPaymentRow DEF AttemptSucceed
  <2>6. QED
    BY <1>4, <2>4, <2>5 DEF AttemptSucceed, Goto, Location, PaymentStatus
<1>5. ASSUME NEW c \in Calls, AttemptDecline(c)
      PROVE  TypeOK'
  BY <1>5 DEF AttemptDecline, Goto, Location, PaymentStatus
<1>6. ASSUME NEW c \in Calls, AttemptError(c)
      PROVE  TypeOK'
  BY <1>6 DEF AttemptError, Goto, Location
<1>7. ASSUME NEW c \in Calls, NEW p \in Calls, RefundRead(c, p)
      PROVE  TypeOK'
  <2>1. [op |-> "refund", payment |-> p] \in Request
    BY DEF Request, RefundRequest
  <2>2. req' \in [Calls -> Request]
    BY <1>7, <2>1 DEF RefundRead, Begin
  <2>3. pc' \in [Calls -> Location]
    BY <1>7 DEF RefundRead, Begin, Goto, Location
  <2>4. met' \in [Calls -> SUBSET Calls] /\ UNCHANGED <<blind, lost>>
    BY <1>7 DEF RefundRead, Begin, InFlight
  <2>5. QED
    BY <1>7, <2>2, <2>3, <2>4 DEF RefundRead
<1>8. ASSUME NEW c \in Calls, RefundCheck(c)
      PROVE  TypeOK'
  BY <1>8 DEF RefundCheck, Goto, Location
<1>9. ASSUME NEW c \in Calls, RefundCharge(c)
      PROVE  TypeOK'
  BY <1>9 DEF RefundCharge, Answered, Goto, Location
<1>10. ASSUME NEW c \in Calls, RefundSucceed(c)
       PROVE  TypeOK'
  <2> DEFINE p == req[c].payment
  <2>1. p \in Calls
    BY <1>10 DEF RefundSucceed, ControlInv, RefundPC, RefundRequest
  <2>2. payments[p] \in {"succeeded", "refunded"}
    BY <1>10 DEF RefundSucceed, RefundInv, RefundPC
  <2>3. req[p] \in AttemptRequest
    BY <2>1, <2>2 DEF RowInv
  <2>4. CustomerOf[req[p].invoice] \in Customers
    BY <2>3, CustomerAssumption DEF AttemptRequest
  <2>5. PaymentAmount(p) \in Int
    BY <2>1 DEF PaymentAmount, InvoiceRow
  <2>6. RefundEntry(c) \in Entry
    BY <2>4, <2>5 DEF RefundEntry, Entry
  <2>7. QED
    BY <1>10, <2>1, <2>6 DEF RefundSucceed, Goto, Location, PaymentStatus, RefundStatus
<1>11. ASSUME NEW c \in Calls, RefundDecline(c)
       PROVE  TypeOK'
  BY <1>11 DEF RefundDecline, Goto, Location, RefundStatus
<1>12. ASSUME NEW c \in Calls, RefundError(c)
       PROVE  TypeOK'
  BY <1>12 DEF RefundError, Goto, Location
<1>13. ASSUME NEW c \in Calls, NEW op \in InvoiceOps, NEW i \in Invoices,
              NEW n \in Amounts \cup {0}, InvoiceRead(c, op, i, n)
       PROVE  TypeOK'
  <2>1. [op |-> op, invoice |-> i, amount |-> n] \in Request
    BY DEF Request, InvoiceRequest
  <2>2. req' \in [Calls -> Request]
    BY <1>13, <2>1 DEF InvoiceRead, Begin
  <2>3. pc' \in [Calls -> Location]
    BY <1>13 DEF InvoiceRead, Begin, Goto, Location
  <2>4. met' \in [Calls -> SUBSET Calls] /\ UNCHANGED <<blind, lost>>
    BY <1>13 DEF InvoiceRead, Begin, InFlight
  <2>5. QED
    BY <1>13, <2>2, <2>3, <2>4 DEF InvoiceRead
<1>14. ASSUME NEW c \in Calls, InvoiceWrite(c)
       PROVE  TypeOK'
  <2>1. /\ req[c] \in InvoiceRequest
        /\ Sound(snap[c])
        /\ req[c].op # "record_payment" => IsOpen(snap[c])
    BY <1>14 DEF InvoiceWrite, ControlInv
  <2>2. Changed(req[c], snap[c]) \in InvoiceRow
    BY <2>1, ChangedBalanced
  <2>3. invoices' \in [Invoices -> InvoiceRow]
    BY <1>14, <2>2 DEF InvoiceWrite
  <2>4. QED
    BY <1>14, <2>3 DEF InvoiceWrite, Goto, Location
<1>15. ASSUME NEW c \in Calls, Abort(c)
       PROVE  TypeOK'
  BY <1>15 DEF Abort, Goto, Location
<1>16. CASE UNCHANGED vars
  BY <1>16 DEF vars, callVars
<1>17. QED
  BY <1>1, <1>2, <1>3, <1>4, <1>5, <1>6, <1>7, <1>8, <1>9, <1>10, <1>11, <1>12, <1>13,
     <1>14, <1>15, <1>16 DEF Next, Arrive, Step, Rest

(* Only two actions write invoices, and each writes a row that adds up. *)
LEMMA BalanceStep == IInv /\ [Next]_vars => InvoicesBalanced'
<1> SUFFICES ASSUME IInv, [Next]_vars
             PROVE  InvoicesBalanced'
  OBVIOUS
<1> USE DEF IInv, InvoicesBalanced
<1>1. ASSUME NEW c \in Calls, AttemptSucceed(c)
      PROVE  InvoicesBalanced'
  <2>1. /\ req[c] \in AttemptRequest
        /\ IsOpen(snap[c])
        /\ Sound(snap[c])
        /\ snap[c] \in InvoiceRow
    BY <1>1 DEF AttemptSucceed, ControlInv, AttemptPC, TypeOK
  <2>2. PaymentAmount(c) \in Int /\ PaymentAmount(c) >= 0
    BY <2>1 DEF PaymentAmount, InvoiceRow, Sound, Balanced, IsOpen
  <2>3. Sound(RecordPayment(snap[c], PaymentAmount(c)))
    BY <2>1, <2>2, RecordPaymentRow
  <2>4. QED
    BY <1>1, <2>3 DEF AttemptSucceed, TypeOK
<1>2. ASSUME NEW c \in Calls, InvoiceWrite(c)
      PROVE  InvoicesBalanced'
  <2>1. /\ req[c] \in InvoiceRequest
        /\ Sound(snap[c])
        /\ req[c].op # "record_payment" => IsOpen(snap[c])
        /\ snap[c] \in InvoiceRow
    BY <1>2 DEF InvoiceWrite, ControlInv, TypeOK
  <2>2. Sound(Changed(req[c], snap[c]))
    BY <2>1, ChangedBalanced
  <2>3. QED
    BY <1>2, <2>2 DEF InvoiceWrite, TypeOK
<1>3. CASE UNCHANGED invoices
  BY <1>3
<1>4. QED
  BY <1>1, <1>2, <1>3
  DEF Next, Arrive, Step, Rest, vars, AttemptRead, AttemptInsert, AttemptCharge, AttemptDecline,
      AttemptError, RefundRead, RefundCheck, RefundCharge, RefundSucceed, RefundDecline,
      RefundError, InvoiceRead, Abort, Answered

(* A call keeps its request, its copy and its place consistent. *)
LEMMA ControlStep == IInv /\ [Next]_vars => ControlInv'
<1> SUFFICES ASSUME IInv, [Next]_vars
             PROVE  ControlInv'
  OBVIOUS
<1> USE DEF IInv, TypeOK, ControlInv, AttemptPC, RefundPC, Goto
<1>1. ASSUME NEW c \in Calls, NEW i \in Invoices, NEW k \in Keys, AttemptRead(c, i, k)
      PROVE  ControlInv'
  <2>1. [op |-> "attempt", invoice |-> i, key |-> k] \in AttemptRequest
    BY DEF AttemptRequest
  <2>2. Sound(invoices[i])
    BY DEF InvoicesBalanced
  <2>3. QED
    BY <1>1, <2>1, <2>2 DEF AttemptRead, Begin
<1>2. ASSUME NEW c \in Calls, NEW p \in Calls, RefundRead(c, p)
      PROVE  ControlInv'
  <2>1. [op |-> "refund", payment |-> p] \in RefundRequest
    BY DEF RefundRequest
  <2>2. QED
    BY <1>2, <2>1 DEF RefundRead, Begin
<1>3. ASSUME NEW c \in Calls, NEW op \in InvoiceOps, NEW i \in Invoices,
             NEW n \in Amounts \cup {0}, InvoiceRead(c, op, i, n)
      PROVE  ControlInv'
  <2>1. [op |-> op, invoice |-> i, amount |-> n] \in InvoiceRequest
    BY DEF InvoiceRequest
  <2>2. Sound(invoices[i])
    BY DEF InvoicesBalanced
  <2>3. QED
    BY <1>3, <2>1, <2>2 DEF InvoiceRead, Begin
<1>4. ASSUME NEW c \in Calls, Step(c)
      PROVE  ControlInv'
  <2>1. UNCHANGED <<req, snap>>
    BY <1>4 DEF Step, AttemptInsert, AttemptCharge, AttemptSucceed, AttemptDecline, AttemptError,
                RefundCheck, RefundCharge, RefundSucceed, RefundDecline, RefundError,
                InvoiceWrite, Answered
  <2>2. \A d \in Calls : d # c => pc'[d] = pc[d] /\ answer'[d] = answer[d]
    BY <1>4 DEF Step, AttemptInsert, AttemptCharge, AttemptSucceed, AttemptDecline, AttemptError,
                RefundCheck, RefundCharge, RefundSucceed, RefundDecline, RefundError,
                InvoiceWrite, Answered
  <2>3. \/ pc[c] \in AttemptPC /\ pc'[c] \in AttemptPC
        \/ pc[c] \in RefundPC /\ pc'[c] \in RefundPC
        \/ pc'[c] \in Ended
    BY <1>4 DEF Step, AttemptInsert, AttemptCharge, AttemptSucceed, AttemptDecline, AttemptError,
                RefundCheck, RefundCharge, RefundSucceed, RefundDecline, RefundError,
                InvoiceWrite, Answered, Ended
  <2>4. QED
    BY <2>1, <2>2, <2>3 DEF Ended
<1>5. ASSUME NEW c \in Calls, Abort(c)
      PROVE  ControlInv'
  BY <1>5 DEF Abort
<1>6. CASE UNCHANGED vars
  BY <1>6 DEF vars, callVars
<1>7. QED
  BY <1>1, <1>2, <1>3, <1>4, <1>5, <1>6 DEF Next, Arrive, Rest

(* What a step leaves alone: a step of c that is not the commit of a payment or
   a refund writes no row; an arrival and an abort write no row either, and
   only an arrival changes requests and copies, of an idle call, which then
   holds what it read. *)
LEMMA Frame ==
  ASSUME IInv, NEW c \in Calls
  PROVE  /\ Arrive(c) =>
              /\ pc[c] = "idle" /\ payments[c] = "none" /\ refunds[c] = "none"
              /\ UNCHANGED <<invoices, payments, refunds, ledger, answer, blind, lost>>
              /\ pc'[c] \in {"attempt_read", "refund_read", "invoice_read", "failed"}
              /\ met'[c] = {d \in InFlight : IsRefund(d) /\ req[d] = req'[c]}
              /\ pc'[c] \in {"attempt_read", "invoice_read"} => snap'[c] = invoices[req'[c].invoice]
              /\ pc'[c] = "refund_read" => payments[req'[c].payment] = "succeeded"
              /\ \A d \in Calls : d # c =>
                   req'[d] = req[d] /\ snap'[d] = snap[d] /\ pc'[d] = pc[d] /\ met'[d] = met[d]
         /\ Abort(c) =>
              /\ pc[c] \notin {"idle", "done", "failed"} /\ pc'[c] = "failed"
              /\ payments[c] = "none" /\ refunds[c] = "none"
              /\ UNCHANGED <<invoices, payments, refunds, ledger, req, snap, answer, met, blind, lost>>
              /\ \A d \in Calls : d # c => pc'[d] = pc[d]
         /\ Step(c) =>
              /\ pc[c] \notin {"idle", "done", "failed"}
              /\ payments[c] = "none" /\ refunds[c] = "none"
              /\ UNCHANGED <<req, snap, met>>
              /\ blind \subseteq blind' /\ lost \subseteq lost'
              /\ \A d \in Calls : d # c => pc'[d] = pc[d] /\ answer'[d] = answer[d]
<1> USE DEF IInv, TypeOK, RowInv, Goto
<1> DEFINE Arrived ==
             /\ pc[c] = "idle" /\ payments[c] = "none" /\ refunds[c] = "none"
             /\ UNCHANGED <<invoices, payments, refunds, ledger, answer, blind, lost>>
             /\ pc'[c] \in {"attempt_read", "refund_read", "invoice_read", "failed"}
             /\ met'[c] = {d \in InFlight : IsRefund(d) /\ req[d] = req'[c]}
             /\ pc'[c] \in {"attempt_read", "invoice_read"} => snap'[c] = invoices[req'[c].invoice]
             /\ pc'[c] = "refund_read" => payments[req'[c].payment] = "succeeded"
             /\ \A d \in Calls : d # c =>
                  req'[d] = req[d] /\ snap'[d] = snap[d] /\ pc'[d] = pc[d] /\ met'[d] = met[d]
<1>1. ASSUME NEW i \in Invoices, NEW k \in Keys, AttemptRead(c, i, k)
      PROVE  Arrived
  <2>1. pc[c] = "idle" /\ UNCHANGED <<invoices, payments, refunds, ledger, answer, blind, lost>>
    BY <1>1 DEF AttemptRead, Begin
  <2>2. /\ req' = [req EXCEPT ![c] = [op |-> "attempt", invoice |-> i, key |-> k]]
        /\ snap' = [snap EXCEPT ![c] = invoices[i]]
        /\ pc' = [pc EXCEPT ![c] = IF IsOpen(invoices[i]) THEN "attempt_read" ELSE "failed"]
    BY <1>1 DEF AttemptRead, Begin
  <2>3. met' = [met EXCEPT ![c] = {d \in InFlight :
                   IsRefund(d) /\ req[d] = [op |-> "attempt", invoice |-> i, key |-> k]}]
    BY <1>1 DEF AttemptRead, Begin
  <2>4. QED
    BY <2>1, <2>2, <2>3
<1>2. ASSUME NEW p \in Calls, RefundRead(c, p)
      PROVE  Arrived
  <2>1. /\ pc[c] = "idle"
        /\ UNCHANGED <<invoices, payments, refunds, ledger, answer, snap, blind, lost>>
    BY <1>2 DEF RefundRead, Begin
  <2>2. /\ req' = [req EXCEPT ![c] = [op |-> "refund", payment |-> p]]
        /\ pc' = [pc EXCEPT ![c] = IF payments[p] = "succeeded" THEN "refund_read" ELSE "failed"]
    BY <1>2 DEF RefundRead, Begin
  <2>3. met' = [met EXCEPT ![c] = {d \in InFlight :
                   IsRefund(d) /\ req[d] = [op |-> "refund", payment |-> p]}]
    BY <1>2 DEF RefundRead, Begin
  <2>4. QED
    BY <2>1, <2>2, <2>3
<1>3. ASSUME NEW op \in InvoiceOps, NEW i \in Invoices, NEW n \in Amounts \cup {0},
             InvoiceRead(c, op, i, n)
      PROVE  Arrived
  <2>1. pc[c] = "idle" /\ UNCHANGED <<invoices, payments, refunds, ledger, answer, blind, lost>>
    BY <1>3 DEF InvoiceRead, Begin
  <2>2. /\ req' = [req EXCEPT ![c] = [op |-> op, invoice |-> i, amount |-> n]]
        /\ snap' = [snap EXCEPT ![c] = invoices[i]]
        /\ pc' = [pc EXCEPT ![c] = IF op = "record_payment" \/ IsOpen(invoices[i])
                                   THEN "invoice_read" ELSE "failed"]
    BY <1>3 DEF InvoiceRead, Begin
  <2>3. met' = [met EXCEPT ![c] = {d \in InFlight :
                   IsRefund(d) /\ req[d] = [op |-> op, invoice |-> i, amount |-> n]}]
    BY <1>3 DEF InvoiceRead, Begin
  <2>4. QED
    BY <2>1, <2>2, <2>3
<1>4. Arrive(c) => Arrived
  BY <1>1, <1>2, <1>3 DEF Arrive
<1>5. ASSUME Abort(c)
      PROVE  /\ pc[c] \notin {"idle", "done", "failed"} /\ pc'[c] = "failed"
             /\ payments[c] = "none" /\ refunds[c] = "none"
             /\ UNCHANGED <<invoices, payments, refunds, ledger, req, snap, answer, met, blind, lost>>
             /\ \A d \in Calls : d # c => pc'[d] = pc[d]
  BY <1>5 DEF Abort, InFlight, Ended
<1>6. ASSUME Step(c)
      PROVE  /\ pc[c] \notin {"idle", "done", "failed"}
             /\ payments[c] = "none" /\ refunds[c] = "none"
             /\ UNCHANGED <<req, snap, met>>
             /\ blind \subseteq blind' /\ lost \subseteq lost'
             /\ \A d \in Calls : d # c => pc'[d] = pc[d] /\ answer'[d] = answer[d]
  BY <1>6 DEF Step, AttemptInsert, AttemptCharge, AttemptSucceed, AttemptDecline, AttemptError,
              RefundCheck, RefundCharge, RefundSucceed, RefundDecline, RefundError,
              InvoiceWrite, Answered
<1>7. QED
  BY <1>4, <1>5, <1>6

(* Steps that commit neither a payment nor a refund leave the rows and the
   ledger alone and do not finish a call as a writer of rows. *)
QuietStep(c) ==
  \/ AttemptInsert(c) \/ AttemptCharge(c) \/ AttemptError(c)
  \/ RefundCheck(c) \/ RefundCharge(c) \/ RefundError(c) \/ InvoiceWrite(c)

LEMMA QuietFrame ==
  ASSUME IInv, NEW c \in Calls, QuietStep(c)
  PROVE  UNCHANGED <<payments, refunds, ledger>>
  BY DEF QuietStep, AttemptInsert, AttemptCharge, AttemptError, RefundCheck, RefundCharge,
         RefundError, InvoiceWrite, Answered

(* Rows stay with the calls that wrote them. *)
LEMMA RowStep == IInv /\ [Next]_vars => RowInv'
<1> SUFFICES ASSUME IInv, [Next]_vars
             PROVE  RowInv'
  OBVIOUS
<1>0. RowInv /\ TypeOK
  BY DEF IInv
<1> USE DEF RowInv
<1>1. ASSUME NEW c \in Calls, Arrive(c)
      PROVE  RowInv'
  BY <1>0, <1>1, Frame
<1>2. ASSUME NEW c \in Calls, Abort(c)
      PROVE  RowInv'
  BY <1>0, <1>2, Frame
<1>3. ASSUME NEW c \in Calls, QuietStep(c)
      PROVE  RowInv'
  <2>1. Step(c)
    BY <1>3 DEF QuietStep, Step
  <2>2. QED
    BY <1>0, <1>3, <2>1, Frame, QuietFrame
<1>4. ASSUME NEW c \in Calls, AttemptSucceed(c)
      PROVE  RowInv'
  <2>1. Step(c)
    BY <1>4 DEF Step
  <2>2. req[c] \in AttemptRequest /\ snap[c].due > 0
    BY <1>4 DEF IInv, ControlInv, AttemptSucceed, AttemptPC, Sound, Balanced, IsOpen
  <2>3. answer' = answer /\ pc'[c] = "done" /\ answer[c] = "succeeded" /\ refunds' = refunds
    BY <1>0, <1>4 DEF AttemptSucceed, Goto, TypeOK
  <2>4. payments' = [payments EXCEPT ![c] = "succeeded"]
    BY <1>4 DEF AttemptSucceed
  <2>5. QED
    BY <1>0, <2>1, <2>2, <2>3, <2>4, Frame DEF TypeOK
<1>5. ASSUME NEW c \in Calls, AttemptDecline(c)
      PROVE  RowInv'
  <2>1. Step(c)
    BY <1>5 DEF Step
  <2>2. req[c] \in AttemptRequest
    BY <1>5 DEF IInv, ControlInv, AttemptDecline, AttemptPC
  <2>3. answer' = answer /\ pc'[c] = "done" /\ refunds' = refunds
    BY <1>0, <1>5 DEF AttemptDecline, Goto, TypeOK
  <2>4. payments' = [payments EXCEPT ![c] = "failed"]
    BY <1>5 DEF AttemptDecline
  <2>5. QED
    BY <1>0, <2>1, <2>2, <2>3, <2>4, Frame DEF TypeOK
<1>6. ASSUME NEW c \in Calls, RefundSucceed(c)
      PROVE  RowInv'
  <2> DEFINE p == req[c].payment
  <2>1. Step(c)
    BY <1>6 DEF Step
  <2>2. req[c] \in RefundRequest /\ p \in Calls /\ payments[p] \in {"succeeded", "refunded"}
    BY <1>6 DEF IInv, ControlInv, RefundInv, RefundSucceed, RefundPC, RefundRequest
  <2>3. answer' = answer /\ pc'[c] = "done" /\ answer[c] = "succeeded"
    BY <1>0, <1>6 DEF RefundSucceed, Goto, TypeOK
  <2>4. /\ payments' = [payments EXCEPT ![p] = "refunded"]
        /\ refunds' = [refunds EXCEPT ![c] = "succeeded"]
    BY <1>6 DEF RefundSucceed
  <2>5. p # c
    BY <2>1, <2>2, Frame
  <2> HIDE DEF p
  <2>6. QED
    BY <1>0, <2>1, <2>2, <2>3, <2>4, <2>5, Frame DEF TypeOK
<1>7. ASSUME NEW c \in Calls, RefundDecline(c)
      PROVE  RowInv'
  <2>1. Step(c)
    BY <1>7 DEF Step
  <2>2. req[c] \in RefundRequest
    BY <1>7 DEF IInv, ControlInv, RefundDecline, RefundPC
  <2>3. answer' = answer /\ pc'[c] = "done" /\ payments' = payments
    BY <1>0, <1>7 DEF RefundDecline, Goto, TypeOK
  <2>4. refunds' = [refunds EXCEPT ![c] = "failed"]
    BY <1>7 DEF RefundDecline
  <2>5. QED
    BY <1>0, <2>1, <2>2, <2>3, <2>4, Frame DEF TypeOK
<1>8. CASE UNCHANGED vars
  BY <1>0, <1>8 DEF vars, callVars
<1>9. QED
  BY <1>1, <1>2, <1>3, <1>4, <1>5, <1>6, <1>7, <1>8 DEF Next, Step, QuietStep, Rest

(* Refunds stay about payments that took money, and refunded payments keep the
   refund that made them so. *)
LEMMA RefundStep == IInv /\ [Next]_vars => RefundInv'
<1> SUFFICES ASSUME IInv, [Next]_vars
             PROVE  RefundInv'
  OBVIOUS
<1>0. RefundInv /\ TypeOK /\ RowInv /\ ControlInv
  BY DEF IInv
<1> USE DEF RefundInv, RefundPC
<1>1. ASSUME NEW c \in Calls, Arrive(c)
      PROVE  RefundInv'
  <2>1. \A d \in Calls : refunds[d] = "succeeded" => d # c
    BY <1>1, Frame
  <2>2. pc'[c] \in RefundPC => payments[req'[c].payment] \in {"succeeded", "refunded"}
    BY <1>1, Frame
  <2>3. QED
    BY <1>0, <1>1, <2>1, <2>2, Frame
<1>2. ASSUME NEW c \in Calls, Abort(c)
      PROVE  RefundInv'
  BY <1>0, <1>2, Frame
<1>3. ASSUME NEW c \in Calls, QuietStep(c)
      PROVE  RefundInv'
  <2>1. Step(c)
    BY <1>3 DEF QuietStep, Step
  <2>2. pc'[c] \in RefundPC => pc[c] \in RefundPC
    BY <1>0, <1>3 DEF QuietStep, AttemptInsert, AttemptCharge, AttemptError, RefundCheck, RefundCharge,
                      RefundError, InvoiceWrite, Answered, Goto, TypeOK
  <2>3. QED
    BY <1>0, <1>3, <2>1, <2>2, Frame, QuietFrame
<1>4. ASSUME NEW c \in Calls, AttemptSucceed(c) \/ AttemptDecline(c)
      PROVE  RefundInv'
  <2>1. Step(c)
    BY <1>4 DEF Step
  <2>2. PICK s \in {"succeeded", "failed"} : payments' = [payments EXCEPT ![c] = s]
    BY <1>4 DEF AttemptSucceed, AttemptDecline
  <2>3. refunds' = refunds /\ pc'[c] = "done"
    BY <1>0, <1>4 DEF AttemptSucceed, AttemptDecline, Goto, TypeOK
  <2>4. \A d \in Calls : pc[d] \in RefundPC \/ refunds[d] = "succeeded" => req[d].payment # c
    BY <1>0, <2>1, Frame
  <2>5. QED
    BY <1>0, <2>1, <2>2, <2>3, <2>4, Frame DEF TypeOK
<1>5. ASSUME NEW c \in Calls, RefundSucceed(c)
      PROVE  RefundInv'
  <2> DEFINE p == req[c].payment
  <2>1. Step(c)
    BY <1>5 DEF Step
  <2>2. p \in Calls
    BY <1>0, <1>5 DEF ControlInv, RefundSucceed, RefundRequest
  <2>3. /\ payments' = [payments EXCEPT ![p] = "refunded"]
        /\ refunds' = [refunds EXCEPT ![c] = "succeeded"]
        /\ pc'[c] = "done"
    BY <1>0, <1>5 DEF RefundSucceed, Goto, TypeOK
  <2>4. \A d \in Calls : req'[d] = req[d]
    BY <2>1, Frame
  <2>5. refunds'[c] = "succeeded" /\ req'[c].payment = p
    BY <1>0, <2>3, <2>4 DEF TypeOK
  <2> HIDE DEF p
  <2>6. QED
    BY <1>0, <2>1, <2>2, <2>3, <2>4, <2>5, Frame DEF TypeOK
<1>6. ASSUME NEW c \in Calls, RefundDecline(c)
      PROVE  RefundInv'
  <2>1. Step(c)
    BY <1>6 DEF Step
  <2>2. refunds' = [refunds EXCEPT ![c] = "failed"] /\ payments' = payments /\ pc'[c] = "done"
    BY <1>0, <1>6 DEF RefundDecline, Goto, TypeOK
  <2>3. QED
    BY <1>0, <2>1, <2>2, Frame DEF TypeOK
<1>7. CASE UNCHANGED vars
  BY <1>0, <1>7 DEF vars, callVars
<1>8. QED
  BY <1>1, <1>2, <1>3, <1>4, <1>5, <1>6, <1>7 DEF Next, Step, QuietStep, Rest

(* The entry of a recorded payment or refund never changes: the calls it is
   about have ended. *)
LEMMA EntriesKept ==
  ASSUME IInv, NEW c \in Calls, Arrive(c) \/ Abort(c) \/ Step(c)
  PROVE  /\ \A d \in Taken : PaymentEntry(d)' = PaymentEntry(d)
         /\ \A d \in GivenBack : RefundEntry(d)' = RefundEntry(d)
<1>0. RefundInv /\ RowInv
  BY DEF IInv
<1>1. \A d \in Calls : payments[d] # "none" \/ refunds[d] # "none" =>
        req'[d] = req[d] /\ snap'[d] = snap[d]
  BY Frame
<1>2. \A d \in Taken : PaymentEntry(d)' = PaymentEntry(d)
  BY <1>1 DEF Taken, PaymentEntry, PaymentAmount
<1>3. ASSUME NEW d \in GivenBack
      PROVE  RefundEntry(d)' = RefundEntry(d)
  <2>1. /\ d \in Calls
        /\ req[d].payment \in Calls
        /\ payments[req[d].payment] = "refunded"
    BY <1>0 DEF GivenBack, RefundInv, RowInv, RefundRequest
  <2>2. req'[d] = req[d]
    BY <1>1, <2>1 DEF GivenBack
  <2>3. req'[req[d].payment] = req[req[d].payment] /\ snap'[req[d].payment] = snap[req[d].payment]
    BY <1>1, <2>1
  <2>4. QED
    BY <2>2, <2>3 DEF RefundEntry, PaymentAmount
<1>4. QED
  BY <1>2, <1>3

(* The ledger gets an entry exactly when a row starts to deserve one. *)
LEMMA LedgerStep == IInv /\ [Next]_vars => LedgerMatchesRows'
<1> SUFFICES ASSUME IInv, [Next]_vars
             PROVE  LedgerMatchesRows'
  OBVIOUS
<1>0. LedgerMatchesRows /\ TypeOK /\ RowInv /\ RefundInv /\ ControlInv
  BY DEF IInv
<1>1. ASSUME NEW c \in Calls, Arrive(c) \/ Abort(c) \/ Step(c),
             Taken' = Taken, GivenBack' = GivenBack, ledger' = ledger
      PROVE  LedgerMatchesRows'
  BY <1>0, <1>1, EntriesKept DEF LedgerMatchesRows
<1>2. ASSUME NEW c \in Calls, Arrive(c) \/ Abort(c) \/ QuietStep(c)
      PROVE  LedgerMatchesRows'
  <2>1. Arrive(c) \/ Abort(c) \/ Step(c)
    BY <1>2 DEF QuietStep, Step
  <2>2. UNCHANGED <<payments, refunds, ledger>>
    BY <1>2, Frame, QuietFrame
  <2>3. QED
    BY <1>1, <2>1, <2>2 DEF Taken, GivenBack
<1>3. ASSUME NEW c \in Calls, AttemptDecline(c) \/ RefundDecline(c)
      PROVE  LedgerMatchesRows'
  <2>1. Step(c)
    BY <1>3 DEF Step
  <2>2. payments[c] = "none" /\ refunds[c] = "none"
    BY <2>1, Frame
  <2>3. ledger' = ledger
    BY <1>3 DEF AttemptDecline, RefundDecline
  <2>4. Taken' = Taken
    BY <1>0, <1>3, <2>2 DEF Taken, AttemptDecline, RefundDecline, TypeOK
  <2>5. GivenBack' = GivenBack
    BY <1>0, <1>3, <2>2 DEF GivenBack, AttemptDecline, RefundDecline, TypeOK
  <2>6. QED
    BY <1>1, <2>1, <2>3, <2>4, <2>5
<1>4. ASSUME NEW c \in Calls, AttemptSucceed(c)
      PROVE  LedgerMatchesRows'
  <2>1. Step(c)
    BY <1>4 DEF Step
  <2>2. ledger' = ledger \cup {PaymentEntry(c)} /\ refunds' = refunds
    BY <1>4 DEF AttemptSucceed
  <2>3. Taken' = Taken \cup {c}
    BY <1>0, <1>4 DEF Taken, AttemptSucceed, TypeOK
  <2>4. GivenBack' = GivenBack
    BY <2>2 DEF GivenBack
  <2>5. PaymentEntry(c)' = PaymentEntry(c)
    BY <2>1, Frame DEF PaymentEntry, PaymentAmount
  <2>6. QED
    BY <1>0, <2>1, <2>2, <2>3, <2>4, <2>5, EntriesKept DEF LedgerMatchesRows
<1>5. ASSUME NEW c \in Calls, RefundSucceed(c)
      PROVE  LedgerMatchesRows'
  <2> DEFINE p == req[c].payment
  <2>1. Step(c)
    BY <1>5 DEF Step
  <2>2. p \in Calls /\ payments[p] \in {"succeeded", "refunded"}
    BY <1>0, <1>5 DEF ControlInv, RefundInv, RefundSucceed, RefundPC, RefundRequest
  <2>3. /\ ledger' = ledger \cup {RefundEntry(c)}
        /\ payments' = [payments EXCEPT ![p] = "refunded"]
        /\ refunds' = [refunds EXCEPT ![c] = "succeeded"]
    BY <1>5 DEF RefundSucceed
  <2>4. RefundEntry(c)' = RefundEntry(c)
    BY <2>1, Frame DEF RefundEntry, PaymentAmount
  <2> HIDE DEF p
  <2>5. Taken' = Taken
    BY <1>0, <2>2, <2>3 DEF Taken, TypeOK
  <2>6. GivenBack' = GivenBack \cup {c}
    BY <1>0, <2>3 DEF GivenBack, TypeOK
  <2>7. QED
    BY <1>0, <2>1, <2>3, <2>4, <2>5, <2>6, EntriesKept DEF LedgerMatchesRows
<1>6. CASE UNCHANGED vars
  BY <1>0, <1>6 DEF vars, callVars, LedgerMatchesRows, Taken, GivenBack, PaymentEntry, RefundEntry,
                    PaymentAmount
<1>7. QED
  BY <1>2, <1>3, <1>4, <1>5, <1>6 DEF Next, Step, QuietStep, Rest

(* The index entry has one holder, and only holders are charged. *)
LEMMA KeyStep == IInv /\ [Next]_vars => KeyInv'
<1> SUFFICES ASSUME IInv, [Next]_vars
             PROVE  KeyInv'
  OBVIOUS
<1>0. KeyInv /\ TypeOK /\ RowInv /\ RefundInv /\ ControlInv
  BY DEF IInv
<1> USE DEF KeyInv, Holds, SameKey
<1>1. ASSUME NEW c \in Calls, Arrive(c)
      PROVE  KeyInv'
  <2>1. answer[c] = "none"
    BY <1>0, <1>1, Frame DEF ControlInv
  <2>2. QED
    BY <1>0, <1>1, <2>1, Frame
<1>2. ASSUME NEW c \in Calls, Abort(c)
      PROVE  KeyInv'
  BY <1>0, <1>2, Frame
<1>3. ASSUME NEW c \in Calls, AttemptInsert(c)
      PROVE  KeyInv'
  <2>1. Step(c)
    BY <1>3 DEF Step
  <2>2. UNCHANGED <<payments, answer>> /\ pc[c] = "attempt_read"
    BY <1>3 DEF AttemptInsert
  <2>3. pc'[c] = "attempt_inserted" =>
          \A d \in Calls : SameKey(c, d) => ~Holds(d)
    BY <1>0, <1>3 DEF AttemptInsert, Goto, TypeOK
  <2>4. pc'[c] \in {"attempt_inserted", "failed"}
    BY <1>0, <1>3 DEF AttemptInsert, Goto, TypeOK
  <2>5. req[c].op = "attempt"
    BY <1>0, <2>2 DEF ControlInv, AttemptPC, AttemptRequest
  <2>6. QED
    BY <1>0, <2>1, <2>2, <2>3, <2>4, <2>5, Frame
<1>4. ASSUME NEW c \in Calls,
             AttemptCharge(c) \/ AttemptSucceed(c) \/ AttemptDecline(c) \/ AttemptError(c)
      PROVE  KeyInv'
  <2>1. Step(c)
    BY <1>4 DEF Step
  <2>2. /\ Holds(c)
        /\ \A d \in Calls : d # c => payments'[d] = payments[d]
        /\ answer'[c] = "succeeded" => Holds(c)'
    BY <1>0, <1>4 DEF AttemptCharge, AttemptSucceed, AttemptDecline, AttemptError, Answered, Goto,
                      TypeOK
  <2>3. QED
    BY <1>0, <2>1, <2>2, Frame
<1>5. ASSUME NEW c \in Calls,
             \/ RefundCheck(c) \/ RefundCharge(c) \/ RefundSucceed(c) \/ RefundDecline(c)
             \/ RefundError(c) \/ InvoiceWrite(c)
      PROVE  KeyInv'
  <2>1. Step(c)
    BY <1>5 DEF Step
  <2>2. req[c].op # "attempt"
    BY <1>0, <1>5, OpsAssumption
    DEF ControlInv, RefundPC, RefundRequest, InvoiceRequest, RefundCheck, RefundCharge, RefundSucceed,
        RefundDecline, RefundError, InvoiceWrite
  <2>3. pc'[c] \notin {"attempt_inserted", "attempt_answered"}
    BY <1>0, <1>5 DEF RefundCheck, RefundCharge, RefundSucceed, RefundDecline, RefundError,
                      InvoiceWrite, Answered, Goto, TypeOK
  <2>4. \A d \in Calls : payments'[d] # "none" <=> payments[d] # "none"
    BY <1>0, <1>5 DEF RefundCheck, RefundCharge, RefundSucceed, RefundDecline, RefundError,
                      InvoiceWrite, Answered, TypeOK, RefundInv, RefundPC
  <2>5. QED
    BY <1>0, <2>1, <2>2, <2>3, <2>4, Frame
<1>6. CASE UNCHANGED vars
  BY <1>0, <1>6 DEF vars, callVars
<1>7. QED
  BY <1>1, <1>2, <1>3, <1>4, <1>5, <1>6 DEF Next, Step, Rest

(* Collisions stay, and no two refunds of a payment meet without one. *)
LEMMA PairStep == IInv /\ [Next]_vars => PairInv'
<1> SUFFICES ASSUME IInv, [Next]_vars
             PROVE  PairInv'
  OBVIOUS
<1>0. PairInv /\ TypeOK /\ RowInv /\ ControlInv
  BY DEF IInv
<1> USE DEF Past, SamePayment, IsRefund, Collide, RefundPC
<1>1. ASSUME NEW c \in Calls, Arrive(c)
      PROVE  PairInv'
  <2> SUFFICES ASSUME NEW a \in Calls, NEW b \in Calls, SamePayment(a, b)',
                      ((pc[a] \in RefundPC /\ pc[b] \in RefundPC) \/ (Past(a) /\ Past(b)))'
               PROVE  Collide(a, b)'
    BY DEF PairInv
  <2>1. \A d \in Calls : d # c => /\ req'[d] = req[d] /\ pc'[d] = pc[d] /\ met'[d] = met[d]
    BY <1>1, Frame
  <2>2. blind' = blind /\ refunds' = refunds /\ refunds[c] = "none"
    BY <1>1, Frame
  <2>3. pc'[c] \notin {"refund_checked", "refund_answered"}
    BY <1>1, Frame
  <2>4. ASSUME NEW d \in Calls, d # c, pc[d] \in RefundPC, req[d].payment = req'[c].payment,
               pc'[c] \in RefundPC, IsRefund(c)'
        PROVE  d \in met'[c]
    <3>1. d \in InFlight
      BY <2>4 DEF InFlight, Ended
    <3>2. req[d] \in RefundRequest
      BY <1>0, <2>4 DEF ControlInv
    <3>3. req'[c] \in RefundRequest
      <4>1. TypeOK' /\ ControlInv'
        BY TypeStep, ControlStep
      <4>2. QED
        BY <2>4, <4>1 DEF ControlInv
    <3>4. req[d] = req'[c]
      BY <2>4, <3>2, <3>3 DEF RefundRequest
    <3>5. met'[c] = {e \in InFlight : IsRefund(e) /\ req[e] = req'[c]}
      BY <1>1, Frame
    <3>6. QED
      BY <3>1, <3>2, <3>4, <3>5 DEF RefundRequest
  <2>5. CASE a # c /\ b # c
    BY <1>0, <2>1, <2>2, <2>5 DEF PairInv
  <2>6. CASE a = c
    <3>1. pc'[b] \in RefundPC /\ b # c
      BY <2>2, <2>3, <2>6
    <3>2. QED
      BY <2>1, <2>2, <2>4, <2>6, <3>1
  <2>7. CASE b = c
    <3>1. pc'[a] \in RefundPC /\ a # c
      BY <2>2, <2>3, <2>7
    <3>2. QED
      BY <2>1, <2>2, <2>3, <2>4, <2>7, <3>1
  <2>8. QED
    BY <2>5, <2>6, <2>7
<1>2. ASSUME NEW c \in Calls, Abort(c)
      PROVE  PairInv'
  BY <1>0, <1>2, Frame DEF PairInv
<1>3. ASSUME NEW c \in Calls, Step(c)
      PROVE  PairInv'
  <2>1. UNCHANGED <<req, met>> /\ blind \subseteq blind' /\ refunds[c] = "none"
    BY <1>3, Frame
  <2>2. \A d \in Calls : d # c => pc'[d] = pc[d]
    BY <1>3, Frame
  <2>3. \A d \in Calls : d # c => refunds'[d] = refunds[d]
    BY <1>0, <1>3 DEF Step, AttemptInsert, AttemptCharge, AttemptSucceed, AttemptDecline, AttemptError,
                      RefundCheck, RefundCharge, RefundSucceed, RefundDecline, RefundError,
                      InvoiceWrite, Answered, TypeOK
  <2>4. pc'[c] \in RefundPC => pc[c] \in RefundPC
    BY <1>0, <1>3 DEF Step, AttemptInsert, AttemptCharge, AttemptSucceed, AttemptDecline, AttemptError,
                      RefundCheck, RefundCharge, RefundSucceed, RefundDecline, RefundError,
                      InvoiceWrite, Answered, Goto, TypeOK
  <2>5. refunds'[c] # "none" => pc[c] = "refund_answered"
    BY <1>0, <1>3, <2>1 DEF Step, AttemptInsert, AttemptCharge, AttemptSucceed, AttemptDecline, AttemptError,
                      RefundCheck, RefundCharge, RefundSucceed, RefundDecline, RefundError,
                      InvoiceWrite, Answered, TypeOK
  <2>6. pc'[c] \in {"refund_checked", "refund_answered"} =>
          \/ pc[c] \in {"refund_checked", "refund_answered"}
          \/ pc[c] = "refund_read" /\ (HasRefund(req[c].payment) => c \in blind')
    BY <1>0, <1>3 DEF Step, AttemptInsert, AttemptCharge, AttemptSucceed, AttemptDecline, AttemptError,
                      RefundCheck, RefundCharge, RefundSucceed, RefundDecline, RefundError,
                      InvoiceWrite, Answered, Goto, TypeOK
  <2> SUFFICES ASSUME NEW a \in Calls, NEW b \in Calls, SamePayment(a, b),
                      ((pc[a] \in RefundPC /\ pc[b] \in RefundPC) \/ (Past(a) /\ Past(b)))',
                      ~Collide(a, b)'
               PROVE  FALSE
    BY <2>1 DEF PairInv
  <2>7. ~Collide(a, b)
    BY <2>1
  <2>8. ~(pc[a] \in RefundPC /\ pc[b] \in RefundPC) /\ ~(Past(a) /\ Past(b))
    BY <1>0, <2>7 DEF PairInv
  <2>9. Past(a)' /\ Past(b)'
    BY <2>2, <2>4, <2>8
  <2>10. \A d \in Calls : Past(d)' /\ ~Past(d) =>
           d = c /\ pc[c] = "refund_read" /\ (HasRefund(req[c].payment) => c \in blind')
    BY <2>2, <2>3, <2>5, <2>6
  <2>11. PICK d \in {a, b} : Past(d)' /\ ~Past(d)
    BY <2>8, <2>9
  <2>12. PICK e \in {a, b} : e # c
    BY DEF SamePayment
  <2>13. d = c /\ Past(e) /\ pc[c] = "refund_read"
    BY <2>9, <2>10, <2>11, <2>12
  <2>14. refunds[e] # "none"
    BY <2>8, <2>11, <2>12, <2>13
  <2>15. HasRefund(req[c].payment)
    BY <2>11, <2>12, <2>13, <2>14
  <2>16. QED
    BY <2>10, <2>11, <2>13, <2>15
<1>4. CASE UNCHANGED vars
  BY <1>0, <1>4 DEF vars, callVars, PairInv
<1>5. QED
  BY <1>1, <1>2, <1>3, <1>4 DEF Next, Rest

-----------------------------------------------------------------------------
(* Theorems *)

(* IInv holds in every reachable state. *)
THEOREM Invariance == Spec => []IInv
<1>1. Init => IInv
  BY InitIInv
<1>2. IInv /\ [Next]_vars => IInv'
  BY TypeStep, ControlStep, BalanceStep, RowStep, RefundStep, LedgerStep, KeyStep, PairStep DEF IInv
<1>3. QED
  BY <1>1, <1>2, PTL DEF Spec

(* Type correctness. *)
THEOREM TypeCorrect == Spec => []TypeOK
<1>1. IInv => TypeOK
  BY DEF IInv
<1>2. QED
  BY <1>1, Invariance, PTL

(* However calls interleave and whatever stale rows they write back, the
   amounts of every invoice add up, an open invoice has a positive balance and
   a paid one none. *)
THEOREM BalancedInvoices == Spec => []InvoicesBalanced
<1>1. IInv => InvoicesBalanced
  BY DEF IInv
<1>2. QED
  BY <1>1, Invariance, PTL

(* The ledger is exactly the entries that the committed payment and refund rows
   call for. *)
THEOREM LedgerAgrees == Spec => []LedgerMatchesRows
<1>1. IInv => LedgerMatchesRows
  BY DEF IInv
<1>2. QED
  BY <1>1, Invariance, PTL

(* What the database records as taken or given back, the provider confirmed. *)
THEOREM NothingInvented == Spec => []RecordedWasAnswered
<1>1. IInv => RecordedWasAnswered
  BY DEF IInv, RowInv, RecordedWasAnswered, Taken, GivenBack
<1>2. QED
  BY <1>1, Invariance, PTL

(* At most one call per invoice and key is charged and lives. *)
THEOREM KeyProtects == Spec => []OneChargePerKey
<1>1. IInv => OneChargePerKey
  BY DEF IInv, KeyInv, SameKey, OneChargePerKey
<1>2. QED
  BY <1>1, Invariance, PTL

(* A payment is refunded if and only if a refund of it succeeded. *)
THEOREM RefundsAgree == Spec => []RefundedHasRefund
<1>1. IInv => RefundedHasRefund
  <2> SUFFICES ASSUME IInv, NEW p \in Calls
               PROVE  payments[p] = "refunded" <=> \E c \in GivenBack : req[c].payment = p
    BY DEF RefundedHasRefund
  <2>1. QED
    BY DEF IInv, RefundInv, GivenBack
<1>2. QED
  BY <1>1, Invariance, PTL

(* Every step of a call is a step of the abstract book or leaves it alone. *)
LEMMA BookActions ==
  ASSUME IInv, NEW c \in Calls
  PROVE  /\ Arrive(c) \/ Abort(c) \/ QuietStep(c) => UNCHANGED Book!bookVars
         /\ AttemptSucceed(c) => Book!Settle(c)
         /\ AttemptDecline(c) => Book!Fail(c)
         /\ RefundSucceed(c) => req[c].payment \in Calls /\ Book!Reverse(c, req[c].payment)
         /\ RefundDecline(c) => Book!KeepPayment(c)
<1>0. LedgerMatchesRows /\ TypeOK /\ RowInv /\ RefundInv /\ ControlInv
  BY DEF IInv
<1>1. ASSUME Arrive(c) \/ Abort(c) \/ QuietStep(c)
      PROVE  UNCHANGED Book!bookVars
  BY <1>1, Frame, QuietFrame DEF Book!bookVars
<1>2. ASSUME Step(c)
      PROVE  Book!Unused(c)
  BY <1>2, Frame DEF Book!Unused
<1>3. ASSUME AttemptSucceed(c)
      PROVE  Book!Settle(c)
  <2> DEFINE e == PaymentEntry(c)
  <2>1. Book!Unused(c)
    BY <1>2, <1>3 DEF Step
  <2>2. req[c].invoice \in Invoices /\ snap[c].due > 0
    BY <1>0, <1>3 DEF ControlInv, AttemptSucceed, AttemptPC, AttemptRequest, Sound, Balanced, IsOpen
  <2>3. e.call = c /\ e.type = "payment" /\ e.customer \in Customers /\ e.amount > 0
    BY <2>2, CustomerAssumption DEF PaymentEntry, PaymentAmount
  <2>4. /\ payments' = [payments EXCEPT ![c] = "succeeded"]
        /\ refunds' = refunds
        /\ ledger' = ledger \cup {e}
    BY <1>3 DEF AttemptSucceed
  <2> HIDE DEF e
  <2>5. QED
    BY <2>1, <2>3, <2>4 DEF Book!Settle
<1>4. ASSUME AttemptDecline(c)
      PROVE  Book!Fail(c)
  <2>1. Book!Unused(c)
    BY <1>2, <1>4 DEF Step
  <2>2. QED
    BY <1>4, <2>1 DEF AttemptDecline, Book!Fail
<1>5. ASSUME RefundSucceed(c)
      PROVE  req[c].payment \in Calls /\ Book!Reverse(c, req[c].payment)
  <2> DEFINE p == req[c].payment
             e == PaymentEntry(p)
  <2>1. Book!Unused(c)
    BY <1>2, <1>5 DEF Step
  <2>2. p \in Calls /\ payments[p] \in {"succeeded", "refunded"}
    BY <1>0, <1>5 DEF ControlInv, RefundInv, RefundSucceed, RefundPC, RefundRequest
  <2>3. e \in ledger
    BY <1>0, <2>2 DEF LedgerMatchesRows, Taken
  <2>4. /\ e.call = p /\ e.type = "payment"
        /\ RefundEntry(c) =
             [call |-> c, type |-> "refund", customer |-> e.customer, amount |-> e.amount]
    BY DEF PaymentEntry, RefundEntry
  <2>5. /\ payments' = [payments EXCEPT ![p] = "refunded"]
        /\ refunds' = [refunds EXCEPT ![c] = "succeeded"]
        /\ ledger' = ledger \cup {RefundEntry(c)}
    BY <1>5 DEF RefundSucceed
  <2>6. payments[p] = "refunded" => p \in Contested
    <3>1. ASSUME payments[p] = "refunded"
          PROVE  p \in Contested
      <4>1. PICK d \in Calls : refunds[d] = "succeeded" /\ req[d].payment = p
        BY <1>0, <2>2, <3>1 DEF RefundInv
      <4>2. SamePayment(d, c)
        <5>1. IsRefund(d)
          BY <1>0, <4>1 DEF RowInv, RefundRequest, IsRefund
        <5>2. IsRefund(c)
          BY <1>0, <1>5 DEF ControlInv, RefundSucceed, RefundPC, RefundRequest, IsRefund
        <5>3. refunds[c] = "none"
          BY <1>5, Frame DEF Step
        <5>4. QED
          BY <4>1, <5>1, <5>2, <5>3 DEF SamePayment
      <4>3. Collide(d, c)
        BY <1>5, <4>1, <4>2 DEF IInv, PairInv, Past, RefundSucceed
      <4>4. QED
        BY <2>2, <4>1, <4>2, <4>3 DEF Contested
    <3>2. QED
      BY <3>1
  <2> HIDE DEF e
  <2>7. QED
    BY <2>1, <2>2, <2>3, <2>4, <2>5, <2>6 DEF Book!Reverse
<1>6. ASSUME RefundDecline(c)
      PROVE  Book!KeepPayment(c)
  <2>1. Book!Unused(c)
    BY <1>2, <1>6 DEF Step
  <2>2. QED
    BY <1>6, <2>1 DEF RefundDecline, Book!KeepPayment
<1>7. QED
  BY <1>1, <1>3, <1>4, <1>5, <1>6

LEMMA BookStep == IInv /\ [Next]_vars => [Book!Next]_(Book!bookVars)
<1> SUFFICES ASSUME IInv, [Next]_vars
             PROVE  [Book!Next]_(Book!bookVars)
  OBVIOUS
<1>1. CASE UNCHANGED vars
  BY <1>1 DEF vars, callVars, Book!bookVars
<1>2. QED
  BY <1>1, BookActions DEF Next, Step, QuietStep, Rest, Book!Next

(* Payments implements the book of Settlement: in every behaviour the committed
   rows and the ledger change together, one payment or refund at a time, and a
   reversal carries the customer and the amount of the payment it reverses. *)
THEOREM BookRefined == Spec => BookKept
<1>1. Init => Book!Init
  BY DEF Init, Book!Init
<1>2. IInv /\ [Next]_vars => [Book!Next]_(Book!bookVars)
  BY BookStep
<1>3. QED
  BY <1>1, <1>2, Invariance, PTL DEF Spec, BookKept, Book!Spec
-----------------------------------------------------------------------------
(* What a payment needs *)

(* A step is a call's, or nothing happens. *)
LEMMA OneCall ==
  ASSUME [Next]_vars
  PROVE  UNCHANGED vars \/ \E c \in Calls : Arrive(c) \/ Abort(c) \/ Step(c)
  BY DEF Next, Rest

(* A payment that took money has taken it for ever, for the same invoice, and
   only a payment's commit adds one. *)
LEMMA TakenStep ==
  ASSUME IInv, NEW c \in Calls, Arrive(c) \/ Abort(c) \/ Step(c)
  PROVE  /\ Taken' = IF AttemptSucceed(c) THEN Taken \cup {c} ELSE Taken
         /\ c \notin Taken
         /\ \A d \in Taken : req'[d] = req[d] /\ snap'[d] = snap[d]
<1>0. TypeOK /\ RowInv /\ RefundInv /\ ControlInv
  BY DEF IInv
<1>1. c \notin Taken /\ \A d \in Taken : req'[d] = req[d] /\ snap'[d] = snap[d]
  BY Frame DEF Taken
<1>2. CASE Arrive(c) \/ Abort(c) \/ QuietStep(c) \/ RefundDecline(c)
  <2>1. payments' = payments
    BY <1>2, Frame, QuietFrame DEF RefundDecline
  <2>2. CASE AttemptSucceed(c)
    <3>1. payments'[c] = "succeeded" /\ payments[c] = "none"
      BY <1>0, <2>2, Frame DEF AttemptSucceed, Step, TypeOK
    <3>2. QED
      BY <2>1, <3>1
  <2>3. QED
    BY <1>1, <2>1, <2>2 DEF Taken
<1>3. CASE AttemptSucceed(c)
  BY <1>0, <1>1, <1>3 DEF Taken, AttemptSucceed, TypeOK
<1>4. CASE AttemptDecline(c)
  <2>1. ~AttemptSucceed(c)
    BY <1>4 DEF AttemptDecline, AttemptSucceed
  <2>2. payments' = [payments EXCEPT ![c] = "failed"]
    BY <1>4 DEF AttemptDecline
  <2>3. QED
    BY <1>0, <1>1, <2>1, <2>2 DEF Taken, TypeOK
<1>5. CASE RefundSucceed(c)
  <2>1. ~AttemptSucceed(c)
    BY <1>5 DEF RefundSucceed, AttemptSucceed
  <2>2. req[c].payment \in Taken
    BY <1>0, <1>5 DEF ControlInv, RefundInv, RefundSucceed, RefundPC, RefundRequest, Taken
  <2>3. payments' = [payments EXCEPT ![req[c].payment] = "refunded"]
    BY <1>5 DEF RefundSucceed
  <2>4. QED
    BY <1>0, <1>1, <2>1, <2>2, <2>3 DEF Taken, TypeOK
<1>6. QED
  BY <1>1, <1>2, <1>3, <1>4, <1>5 DEF Step, QuietStep

(* What happens to the invoices: a payment or an invoice operation writes one,
   from the copy its call holds. *)
LEMMA InvoiceStep ==
  ASSUME IInv, NEW c \in Calls, Arrive(c) \/ Abort(c) \/ Step(c)
  PROVE  \/ UNCHANGED <<invoices, lost>> /\ ~AttemptSucceed(c)
         \/ /\ AttemptSucceed(c)
            /\ pc[c] = "attempt_answered" /\ req[c] \in AttemptRequest /\ IsOpen(snap[c])
            /\ invoices' = [invoices EXCEPT ![req[c].invoice] = RecordPayment(snap[c], snap[c].due)]
            /\ lost' = IF Current(c) THEN lost ELSE lost \cup {req[c].invoice}
         \/ /\ ~AttemptSucceed(c)
            /\ pc[c] = "invoice_read" /\ req[c] \in InvoiceRequest
            /\ invoices' = [invoices EXCEPT ![req[c].invoice] = Changed(req[c], snap[c])]
            /\ lost' = IF Current(c) THEN lost ELSE lost \cup {req[c].invoice}
<1>0. ControlInv
  BY DEF IInv
<1>1. CASE AttemptSucceed(c)
  BY <1>0, <1>1 DEF AttemptSucceed, ControlInv, AttemptPC, PaymentAmount
<1>2. CASE InvoiceWrite(c)
  <2>1. ~AttemptSucceed(c)
    BY <1>2 DEF InvoiceWrite, AttemptSucceed
  <2>2. QED
    BY <1>0, <1>2, <2>1 DEF InvoiceWrite, ControlInv
<1>3. CASE ~AttemptSucceed(c) /\ ~InvoiceWrite(c)
  <2>1. CASE Step(c)
    BY <1>3, <2>1 DEF Step, AttemptInsert, AttemptCharge, AttemptDecline, AttemptError, RefundCheck,
                      RefundCharge, RefundSucceed, RefundDecline, RefundError, Answered
  <2>2. CASE Arrive(c) \/ Abort(c)
    BY <1>3, <2>2, Frame
  <2>3. QED
    BY <2>1, <2>2
<1>4. QED
  BY <1>1, <1>2, <1>3

(* What a call was asked stays with it once it has ended. *)
LEMMA EndStep ==
  ASSUME IInv, NEW c \in Calls, Arrive(c) \/ Abort(c) \/ Step(c)
  PROVE  /\ \A d \in Calls : pc[d] \in Ended => pc'[d] = pc[d] /\ req'[d] = req[d]
         /\ \A i \in Invoices : PaidByHand(i) => PaidByHand(i)'
<1>1. \A d \in Calls : pc[d] \in Ended => pc'[d] = pc[d] /\ req'[d] = req[d]
  BY Frame DEF Ended
<1>2. QED
  BY <1>1 DEF PaidByHand, Concerns, Ended

(* An invoice operation that is not done by hand adds nothing to the amount
   paid, and leaves an invoice that is not paid. *)
LEMMA ByHandStep ==
  ASSUME IInv, NEW c \in Calls, Step(c), pc[c] = "invoice_read", req[c] \in InvoiceRequest,
         NEW i, req[c].invoice = i
  PROVE  \/ PaidByHand(i)'
         \/ /\ Changed(req[c], snap[c]).status \in {"void", "uncollectible"}
            /\ Changed(req[c], snap[c]).paid = snap[c].paid
<1>0. TypeOK
  BY DEF IInv
<1>1. CASE req[c].op \in {"mark_paid", "record_payment"}
  <2>1. pc'[c] = "done" /\ req' = req
    BY <1>0 DEF Step, AttemptInsert, AttemptCharge, AttemptSucceed, AttemptDecline, AttemptError,
                RefundCheck, RefundCharge, RefundSucceed, RefundDecline, RefundError,
                InvoiceWrite, Answered, Goto, TypeOK
  <2>2. req[c].op \in InvoiceOps
    BY DEF InvoiceRequest
  <2>3. QED
    BY <1>1, <2>1, <2>2 DEF PaidByHand, Concerns
<1>2. CASE req[c].op \notin {"mark_paid", "record_payment"}
  <2>1. req[c].op \in {"void", "mark_uncollectible"}
    BY <1>2, OpsAssumption DEF InvoiceRequest
  <2>2. snap[c] \in InvoiceRow
    BY <1>0 DEF TypeOK
  <2>3. QED
    BY <2>1, <2>2 DEF Changed, Void, MarkUncollectible, InvoiceRow
<1>3. QED
  BY <1>1, <1>2

LEMMA PaidStep ==
  ASSUME IInv, PaidHasPayment, [Next]_vars
  PROVE  PaidHasPayment'
<1>0. TypeOK
  BY DEF IInv
<1>1. ASSUME NEW c \in Calls, Arrive(c) \/ Abort(c) \/ Step(c)
      PROVE  PaidHasPayment'
  <2>1. /\ Taken \subseteq Taken' /\ (AttemptSucceed(c) => c \in Taken')
        /\ \A d \in Taken : req'[d] = req[d]
    BY <1>1, TakenStep
  <2> SUFFICES ASSUME NEW i \in Invoices, invoices'[i].status = "paid", invoices'[i].total > 0,
                      ~PaidByHand(i)'
               PROVE  \E d \in Taken' : req'[d].invoice = i
    BY DEF PaidHasPayment
  <2>2. CASE invoices'[i] = invoices[i]
    <3>1. ~PaidByHand(i)
      BY <1>1, EndStep
    <3>2. PICK d \in Taken : req[d].invoice = i
      BY <2>2, <3>1 DEF PaidHasPayment
    <3>3. QED
      BY <2>1, <3>2
  <2>3. CASE AttemptSucceed(c) /\ invoices'[i] # invoices[i]
    <3>1. i = req[c].invoice
      BY <1>0, <1>1, <2>3, InvoiceStep DEF TypeOK
    <3>2. req' = req
      BY <2>3 DEF AttemptSucceed
    <3>3. QED
      BY <2>1, <2>3, <3>1, <3>2
  <2>4. CASE ~AttemptSucceed(c) /\ invoices'[i] # invoices[i]
    <3>1. /\ i = req[c].invoice /\ req[c] \in InvoiceRequest /\ pc[c] = "invoice_read"
          /\ invoices'[i] = Changed(req[c], snap[c])
      BY <1>0, <1>1, <2>4, InvoiceStep DEF TypeOK
    <3>2. Step(c)
      BY <1>1, <2>4, Frame
    <3>3. invoices'[i].status \in {"void", "uncollectible"}
      BY <3>1, <3>2, ByHandStep
    <3>4. QED
      BY <3>3
  <2>5. QED
    BY <2>2, <2>3, <2>4
<1>2. CASE UNCHANGED vars
  BY <1>2 DEF vars, callVars, PaidHasPayment, Taken, PaidByHand, Concerns
<1>3. QED
  BY <1>1, <1>2, OneCall

(* A paid invoice with a positive total has a payment that took money, or was
   paid by hand. *)
THEOREM PaidByPayments == Spec => []PaidHasPayment
<1>1. Init => PaidHasPayment
  <2> SUFFICES ASSUME Init, NEW i \in Invoices
               PROVE  ~(invoices[i].status = "paid" /\ invoices[i].total > 0)
    BY DEF PaidHasPayment
  <2>1. PICK t \in Totals : invoices[i] = Issued(t)
    BY DEF Init
  <2>2. t \in Nat
    BY TotalsAssumption
  <2>3. QED
    BY <2>1, <2>2 DEF Issued, Finalize, AmountDue, Draft
<1>2. IInv /\ PaidHasPayment /\ [Next]_vars => PaidHasPayment'
  BY PaidStep
<1>3. QED
  BY <1>1, <1>2, Invariance, PTL DEF Spec
-----------------------------------------------------------------------------
(* Balances *)

(* The sum of payments is the sum of the function of their amounts. *)
LEMMA SumOfPayments ==
  ASSUME NEW S, NEW f, Summable(f, S), \A x \in S : f[x] = PaymentAmount(x)
  PROVE  MapThenSumSet(PaymentAmount, S) = Sum(f, S)
<1> DEFINE Value(x) == PaymentAmount(x)
           Fold(h) == h = [T \in SUBSET S |->
                             IF T = {} THEN 0
                             ELSE Value(CHOOSE x \in T : TRUE) + h[T \ {CHOOSE x \in T : TRUE}]]
           fold == CHOOSE h : Fold(h)
<1>1. MapThenSumSet(PaymentAmount, S) = fold[S]
  BY DEF MapThenSumSet, MapThenFoldSet
<1>2. \A x \in S : Value(x) = f[x]
  OBVIOUS
<1> HIDE DEF Value
<1>3. IsFiniteSet(S)
  BY DEF Summable
<1>4. PICK g : Additive(g, f, S)
  BY AdditiveExists
<1>5. Fold(g)
  <2> DEFINE next(T) == IF T = {} THEN 0
                        ELSE Value(CHOOSE x \in T : TRUE) + g[T \ {CHOOSE x \in T : TRUE}]
  <2>1. \A T \in SUBSET S : g[T] = next(T)
    BY <1>2, <1>4 DEF Additive
  <2>2. g = [T \in SUBSET S |-> g[T]]
    BY <1>4 DEF Additive
  <2> HIDE DEF next
  <2>3. g = [T \in SUBSET S |-> next(T)]
    BY <2>1, <2>2
  <2>4. QED
    BY <2>3 DEF next
<1>6. Fold(fold)
  BY <1>5
<1> HIDE DEF fold
<1>7. Adding(fold, f, S)
  BY <1>2, <1>6 DEF Adding
<1>8. fold[S] = g[S]
  BY <1>3, <1>4, <1>7, FoldIsAdditive
<1>9. QED
  BY <1>1, <1>3, <1>4, <1>8, AdditiveUnique

(* So is the sum of refunds. *)
LEMMA SumOfRefunds ==
  ASSUME NEW S, NEW f, Summable(f, S), \A x \in S : f[x] = PaymentAmount(req[x].payment)
  PROVE  MapThenSumSet(LAMBDA c : PaymentAmount(req[c].payment), S) = Sum(f, S)
<1> DEFINE Value(x) == PaymentAmount(req[x].payment)
           Fold(h) == h = [T \in SUBSET S |->
                             IF T = {} THEN 0
                             ELSE Value(CHOOSE x \in T : TRUE) + h[T \ {CHOOSE x \in T : TRUE}]]
           fold == CHOOSE h : Fold(h)
<1>1. MapThenSumSet(LAMBDA c : PaymentAmount(req[c].payment), S) = fold[S]
  BY DEF MapThenSumSet, MapThenFoldSet
<1>2. \A x \in S : Value(x) = f[x]
  OBVIOUS
<1> HIDE DEF Value
<1>3. IsFiniteSet(S)
  BY DEF Summable
<1>4. PICK g : Additive(g, f, S)
  BY AdditiveExists
<1>5. Fold(g)
  <2> DEFINE next(T) == IF T = {} THEN 0
                        ELSE Value(CHOOSE x \in T : TRUE) + g[T \ {CHOOSE x \in T : TRUE}]
  <2>1. \A T \in SUBSET S : g[T] = next(T)
    BY <1>2, <1>4 DEF Additive
  <2>2. g = [T \in SUBSET S |-> g[T]]
    BY <1>4 DEF Additive
  <2> HIDE DEF next
  <2>3. g = [T \in SUBSET S |-> next(T)]
    BY <2>1, <2>2
  <2>4. QED
    BY <2>3 DEF next
<1>6. Fold(fold)
  BY <1>5
<1> HIDE DEF fold
<1>7. Adding(fold, f, S)
  BY <1>2, <1>6 DEF Adding
<1>8. fold[S] = g[S]
  BY <1>3, <1>4, <1>7, FoldIsAdditive
<1>9. QED
  BY <1>1, <1>3, <1>4, <1>8, AdditiveUnique

(* So is the balance that the ledger computes. *)
LEMMA SumOfEntries ==
  ASSUME NEW S, NEW f, Summable(f, S), \A x \in S : f[x] = IF x.type \in {"payment", "refund"} THEN -x.amount ELSE x.amount
  PROVE  MapThenSumSet(LAMBDA e : IF e.type \in {"payment", "refund"} THEN -e.amount ELSE e.amount, S) = Sum(f, S)
<1> DEFINE Value(x) == IF x.type \in {"payment", "refund"} THEN -x.amount ELSE x.amount
           Fold(h) == h = [T \in SUBSET S |->
                             IF T = {} THEN 0
                             ELSE Value(CHOOSE x \in T : TRUE) + h[T \ {CHOOSE x \in T : TRUE}]]
           fold == CHOOSE h : Fold(h)
<1>1. MapThenSumSet(LAMBDA e : IF e.type \in {"payment", "refund"} THEN -e.amount ELSE e.amount, S) = fold[S]
  BY DEF MapThenSumSet, MapThenFoldSet
<1>2. \A x \in S : Value(x) = f[x]
  OBVIOUS
<1> HIDE DEF Value
<1>3. IsFiniteSet(S)
  BY DEF Summable
<1>4. PICK g : Additive(g, f, S)
  BY AdditiveExists
<1>5. Fold(g)
  <2> DEFINE next(T) == IF T = {} THEN 0
                        ELSE Value(CHOOSE x \in T : TRUE) + g[T \ {CHOOSE x \in T : TRUE}]
  <2>1. \A T \in SUBSET S : g[T] = next(T)
    BY <1>2, <1>4 DEF Additive
  <2>2. g = [T \in SUBSET S |-> g[T]]
    BY <1>4 DEF Additive
  <2> HIDE DEF next
  <2>3. g = [T \in SUBSET S |-> next(T)]
    BY <2>1, <2>2
  <2>4. QED
    BY <2>3 DEF next
<1>6. Fold(fold)
  BY <1>5
<1> HIDE DEF fold
<1>7. Adding(fold, f, S)
  BY <1>2, <1>6 DEF Adding
<1>8. fold[S] = g[S]
  BY <1>3, <1>4, <1>7, FoldIsAdditive
<1>9. QED
  BY <1>1, <1>3, <1>4, <1>8, AdditiveUnique

(* Calls begin one after the other, so at any moment finitely many have begun,
   however many there are. *)
Begun == {c \in Calls : pc[c] # "idle"}

LEMMA BegunStep == IInv /\ IsFiniteSet(Begun) /\ [Next]_vars => IsFiniteSet(Begun')
<1> SUFFICES ASSUME IInv, IsFiniteSet(Begun), [Next]_vars
             PROVE  IsFiniteSet(Begun')
  OBVIOUS
<1>1. ASSUME NEW c \in Calls, Arrive(c) \/ Abort(c) \/ Step(c)
      PROVE  IsFiniteSet(Begun')
  <2>1. \A d \in Calls : d # c => pc'[d] = pc[d]
    BY <1>1, Frame
  <2>2. Begun' \in SUBSET (Begun \cup {c})
    BY <2>1 DEF Begun
  <2>3. IsFiniteSet(Begun \cup {c})
    BY FS_AddElement
  <2>4. QED
    BY <2>2, <2>3, FS_Subset
<1>2. CASE UNCHANGED vars
  BY <1>2 DEF vars, callVars, Begun
<1>3. QED
  BY <1>1, <1>2, OneCall

LEMMA BegunFinite == Spec => []IsFiniteSet(Begun)
<1>1. Init => IsFiniteSet(Begun)
  <2>1. Init => Begun = {}
    BY DEF Init, Begun
  <2>2. QED
    BY <2>1, FS_EmptySet
<1>2. IInv /\ IsFiniteSet(Begun) /\ [Next]_vars => IsFiniteSet(Begun)'
  BY BegunStep
<1>3. QED
  BY <1>1, <1>2, Invariance, PTL DEF Spec

(* The amounts taken and given back by finitely many calls can be added up. *)
LEMMA AmountsAddUp ==
  ASSUME IInv, IsFiniteSet(Begun), NEW S \in SUBSET Taken, NEW T \in SUBSET GivenBack
  PROVE  /\ S \subseteq Calls /\ T \subseteq Calls
         /\ IsFiniteSet(S) /\ IsFiniteSet(T)
         /\ \A c \in S : PaymentAmount(c) \in Int
         /\ \A c \in T : req[c].payment \in Calls /\ PaymentAmount(req[c].payment) \in Int
<1>0. TypeOK /\ RowInv
  BY DEF IInv
<1>1. Taken \subseteq Begun /\ GivenBack \subseteq Begun
  BY <1>0 DEF Taken, GivenBack, Begun, RowInv
<1>2. S \in SUBSET Begun /\ T \in SUBSET Begun
  BY <1>1
<1>3. IsFiniteSet(S) /\ IsFiniteSet(T)
  BY <1>2, FS_Subset
<1>4. \A c \in Calls : PaymentAmount(c) \in Int
  BY <1>0 DEF TypeOK, InvoiceRow, PaymentAmount
<1>5. \A c \in GivenBack : req[c].payment \in Calls
  BY <1>0 DEF RowInv, GivenBack, RefundRequest
<1>6. QED
  BY <1>2, <1>3, <1>4, <1>5 DEF Begun

LEMMA BalanceHolds ==
  ASSUME IInv, IsFiniteSet(Begun)
  PROVE  BalanceExplained
<1> SUFFICES ASSUME NEW cust \in Customers
             PROVE  LET paid == {c \in Taken : CustomerOf[req[c].invoice] = cust}
                        back == {c \in GivenBack : CustomerOf[req[req[c].payment].invoice] = cust}
                    IN  GetBalance(cust) = -MapThenSumSet(PaymentAmount, paid)
                                           - MapThenSumSet(LAMBDA c : PaymentAmount(req[c].payment), back)
  BY DEF BalanceExplained
<1> DEFINE paid == {c \in Taken : CustomerOf[req[c].invoice] = cust}
           back == {c \in GivenBack : CustomerOf[req[req[c].payment].invoice] = cust}
           entries == {e \in ledger : e.customer = cust}
           amount == [c \in Calls |-> PaymentAmount(c)]
           refund == [c \in Calls |-> PaymentAmount(req[c].payment)]
           value == [e \in ledger |-> IF e.type \in {"payment", "refund"} THEN -e.amount ELSE e.amount]
           payEntry == [c \in Calls |-> PaymentEntry(c)]
           backEntry == [c \in Calls |-> RefundEntry(c)]
           minusAmount == [c \in Calls |-> -PaymentAmount(c)]
           minusRefund == [c \in Calls |-> -PaymentAmount(req[c].payment)]
           payEntries == {payEntry[c] : c \in paid}
           backEntries == {backEntry[c] : c \in back}
<1>1. /\ paid \subseteq Calls /\ back \subseteq Calls
      /\ IsFiniteSet(paid) /\ IsFiniteSet(back)
      /\ \A c \in paid : PaymentAmount(c) \in Int
      /\ \A c \in back : req[c].payment \in Calls /\ PaymentAmount(req[c].payment) \in Int
  <2>1. paid \in SUBSET Taken /\ back \in SUBSET GivenBack
    OBVIOUS
  <2> HIDE DEF paid, back
  <2>2. QED
    BY <2>1, AmountsAddUp
<1>2. /\ \A c \in paid : PaymentEntry(c) \in ledger
      /\ \A c \in back : RefundEntry(c) \in ledger
  BY DEF IInv, LedgerMatchesRows
<1>3. entries = payEntries \cup backEntries
  <2>1. /\ \A c : PaymentEntry(c).customer = CustomerOf[req[c].invoice]
        /\ \A c : RefundEntry(c).customer = CustomerOf[req[req[c].payment].invoice]
    BY DEF PaymentEntry, RefundEntry
  <2>2. ledger = {PaymentEntry(c) : c \in Taken} \cup {RefundEntry(c) : c \in GivenBack}
    BY DEF IInv, LedgerMatchesRows
  <2>3. ASSUME NEW e \in entries
        PROVE  e \in payEntries \cup backEntries
    <3>1. CASE e \in {PaymentEntry(c) : c \in Taken}
      <4>1. PICK c \in Taken : e = PaymentEntry(c)
        BY <3>1
      <4>2. c \in paid /\ c \in Calls
        BY <2>1, <2>3, <4>1 DEF Taken
      <4>3. payEntry[c] = e
        BY <4>1, <4>2
      <4>4. QED
        BY <4>2, <4>3
    <3>2. CASE e \in {RefundEntry(c) : c \in GivenBack}
      <4>1. PICK c \in GivenBack : e = RefundEntry(c)
        BY <3>2
      <4>2. c \in back /\ c \in Calls
        BY <2>1, <2>3, <4>1 DEF GivenBack
      <4>3. backEntry[c] = e
        BY <4>1, <4>2
      <4>4. QED
        BY <4>2, <4>3
    <3>3. QED
      BY <2>2, <2>3, <3>1, <3>2
  <2>4. ASSUME NEW c \in paid
        PROVE  payEntry[c] \in entries
    BY <1>1, <1>2, <2>1
  <2>5. ASSUME NEW c \in back
        PROVE  backEntry[c] \in entries
    BY <1>1, <1>2, <2>1
  <2> HIDE DEF entries, payEntry, backEntry, paid, back
  <2>6. QED
    BY <2>3, <2>4, <2>5
<1>4. payEntries \cap backEntries = {}
  <2>1. \A c, d : PaymentEntry(c) # RefundEntry(d)
    BY DEF PaymentEntry, RefundEntry
  <2>2. QED
    BY <1>1, <2>1
<1>5. Summable(amount, paid) /\ Summable(refund, back)
      /\ Summable(minusAmount, paid) /\ Summable(minusRefund, back)
  BY <1>1 DEF Summable
<1>6. \A c \in paid : /\ payEntry[c] = PaymentEntry(c) /\ value[payEntry[c]] = minusAmount[c]
                      /\ amount[c] = PaymentAmount(c) /\ minusAmount[c] = -amount[c]
  BY <1>1, <1>2 DEF PaymentEntry
<1>7. \A c \in back : /\ backEntry[c] = RefundEntry(c) /\ value[backEntry[c]] = minusRefund[c]
                      /\ refund[c] = PaymentAmount(req[c].payment) /\ minusRefund[c] = -refund[c]
  BY <1>1, <1>2 DEF RefundEntry
<1>8. \A c, d \in paid : payEntry[c] = payEntry[d] => c = d
  <2> SUFFICES ASSUME NEW c \in paid, NEW d \in paid, payEntry[c] = payEntry[d]
               PROVE  c = d
    OBVIOUS
  <2>1. PaymentEntry(c) = PaymentEntry(d)
    BY <1>6
  <2>2. PaymentEntry(c).call = c /\ PaymentEntry(d).call = d
    BY DEF PaymentEntry
  <2>3. QED
    BY <2>1, <2>2
<1>9. \A c, d \in back : backEntry[c] = backEntry[d] => c = d
  <2> SUFFICES ASSUME NEW c \in back, NEW d \in back, backEntry[c] = backEntry[d]
               PROVE  c = d
    OBVIOUS
  <2>1. RefundEntry(c) = RefundEntry(d)
    BY <1>7
  <2>2. RefundEntry(c).call = c /\ RefundEntry(d).call = d
    BY DEF RefundEntry
  <2>3. QED
    BY <2>1, <2>2
<1>10. \A e \in entries : value[e] = IF e.type \in {"payment", "refund"} THEN -e.amount ELSE e.amount
  OBVIOUS
<1>11. GetBalance(cust) = MapThenSumSet(LAMBDA e : IF e.type \in {"payment", "refund"} THEN -e.amount
                                                                                      ELSE e.amount, entries)
  BY DEF GetBalance
<1> HIDE DEF paid, back, entries, amount, refund, value, payEntry, backEntry, minusAmount, minusRefund
<1>12. Summable(value, payEntries) /\ Sum(value, payEntries) = -Sum(amount, paid)
  <2>1. Summable(value, payEntries) /\ Sum(value, payEntries) = Sum(minusAmount, paid)
    BY <1>5, <1>6, <1>8, SumImage
  <2>2. Sum(minusAmount, paid) = -Sum(amount, paid)
    BY <1>5, <1>6, SumOpposite
  <2>3. QED
    BY <2>1, <2>2
<1>13. Summable(value, backEntries) /\ Sum(value, backEntries) = -Sum(refund, back)
  <2>1. Summable(value, backEntries) /\ Sum(value, backEntries) = Sum(minusRefund, back)
    BY <1>5, <1>7, <1>9, SumImage
  <2>2. Sum(minusRefund, back) = -Sum(refund, back)
    BY <1>5, <1>7, SumOpposite
  <2>3. QED
    BY <2>1, <2>2
<1> HIDE DEF payEntries, backEntries
<1>14. Sum(value, entries) = -Sum(amount, paid) + -Sum(refund, back)
  BY <1>3, <1>4, <1>12, <1>13, SumUnion
<1>15. Summable(value, entries)
  BY <1>3, <1>12, <1>13, FS_Union DEF Summable
<1>16. GetBalance(cust) = Sum(value, entries)
  BY <1>10, <1>11, <1>15, SumOfEntries
<1>17. MapThenSumSet(PaymentAmount, paid) = Sum(amount, paid)
  BY <1>5, <1>6, SumOfPayments
<1>18. MapThenSumSet(LAMBDA c : PaymentAmount(req[c].payment), back) = Sum(refund, back)
  BY <1>5, <1>7, SumOfRefunds
<1>19. Sum(amount, paid) \in Int /\ Sum(refund, back) \in Int
  BY <1>5, SumIsNumber
<1>20. GetBalance(cust) = -MapThenSumSet(PaymentAmount, paid)
                          - MapThenSumSet(LAMBDA c : PaymentAmount(req[c].payment), back)
  BY <1>14, <1>16, <1>17, <1>18, <1>19
<1>21. QED
  BY <1>20 DEF paid, back

(* The balance the ledger reports is what the payment and refund rows say,
   however many there are. *)
THEOREM BalancesExplained == Spec => []BalanceExplained
<1>1. IInv /\ IsFiniteSet(Begun) => BalanceExplained
  BY BalanceHolds
<1>2. QED
  BY <1>1, Invariance, BegunFinite, PTL
-----------------------------------------------------------------------------
(* What overlapping calls may do to each other *)

(* A payment has two refunds only if the two calls met, or the lookup of one
   failed. *)
THEOREM SecondRefundsCollide == Spec => []SecondRefundCollides
<1>1. IInv => SecondRefundCollides
  BY DEF IInv, PairInv, Past, SecondRefundCollides
<1>2. QED
  BY <1>1, Invariance, PTL

(* A paid, void or uncollectible invoice is written again only from a copy that
   another call's write has overtaken, or by RecordPayment. *)
THEOREM TerminalRowsKept == Spec => TerminalIsFinal
<1> DEFINE Final == \A i \in Invoices :
              invoices[i].status \in {"paid", "void", "uncollectible"} /\ invoices'[i] # invoices[i]
              => \E c \in Calls : /\ pc'[c] # pc[c] /\ Concerns(c, i)
                                  /\ ~Current(c) \/ req[c].op = "record_payment"
<1>1. ASSUME IInv, [Next]_vars
      PROVE  Final
  <2>0. TypeOK /\ ControlInv
    BY <1>1 DEF IInv
  <2>1. ASSUME NEW c \in Calls, Arrive(c) \/ Abort(c) \/ Step(c), NEW i \in Invoices,
               invoices[i].status \in {"paid", "void", "uncollectible"}, invoices'[i] # invoices[i]
        PROVE  /\ pc'[c] # pc[c] /\ Concerns(c, i)
               /\ ~Current(c) \/ req[c].op = "record_payment"
    <3>1. /\ \/ pc[c] = "attempt_answered" /\ req[c] \in AttemptRequest
             \/ pc[c] = "invoice_read" /\ req[c] \in InvoiceRequest
          /\ req[c].invoice = i
      BY <1>1, <2>0, <2>1, InvoiceStep DEF TypeOK
    <3>2. AttemptSucceed(c) \/ InvoiceWrite(c)
      <4>1. Step(c)
        BY <1>1, <2>1, Frame
      <4>2. QED
        BY <2>1, <4>1 DEF Step, AttemptInsert, AttemptCharge, AttemptDecline, AttemptError, RefundCheck,
                          RefundCharge, RefundSucceed, RefundDecline, RefundError, Answered
    <3>3. pc'[c] = "done"
      BY <2>0, <3>2 DEF AttemptSucceed, InvoiceWrite, Goto, TypeOK
    <3>4. Concerns(c, i)
      BY <3>1 DEF Concerns, AttemptRequest, InvoiceRequest
    <3>5. req[c].op = "record_payment" \/ IsOpen(snap[c])
      BY <2>0, <3>1 DEF ControlInv, AttemptPC
    <3>6. Current(c) => snap[c].status \in {"paid", "void", "uncollectible"}
      BY <2>1, <3>1 DEF Current
    <3>7. QED
      BY <3>1, <3>3, <3>4, <3>5, <3>6 DEF IsOpen
  <2>2. CASE UNCHANGED vars
    BY <2>2 DEF vars
  <2>3. QED
    BY <1>1, <2>1, <2>2, OneCall
<1>2. IInv /\ [Next]_vars => [Final]_vars
  BY <1>1
<1> HIDE DEF Final
<1>3. Spec => [][Final]_vars
  BY <1>2, Invariance, PTL DEF Spec
<1>4. QED
  BY <1>3 DEF TerminalIsFinal, Final

(* The payments of an invoice, and their sum as a function of this library. *)
Paying(i) == {c \in Taken : req[c].invoice = i}
Paid(i) == Sum([c \in Calls |-> snap[c].due], Paying(i))

(* The copies of an invoice under way, and the row itself, show no more than its
   payments took; the row shows as much until a stale copy is written over it. *)
Holding(c, i) == pc[c] \in AttemptPC \cup {"invoice_read"} /\ req[c].invoice = i
Counted(i) ==
  /\ invoices[i].paid <= Paid(i)
  /\ i \notin lost => invoices[i].paid = Paid(i)
  /\ \A c \in Calls : Holding(c, i) => snap[c].paid <= Paid(i)
CountInv == \A i \in Invoices : PaidByHand(i) \/ Counted(i)

LEMMA CountedIsCounted == IInv /\ IsFiniteSet(Begun) /\ CountInv => PaymentsAreCounted
<1> SUFFICES ASSUME IInv, IsFiniteSet(Begun), CountInv, NEW i \in Invoices, ~PaidByHand(i)
             PROVE  LET taken == MapThenSumSet(PaymentAmount, Paying(i))
                    IN  invoices[i].paid = taken \/ (invoices[i].paid < taken /\ i \in lost)
  BY DEF PaymentsAreCounted, Paying
<1> DEFINE amount == [c \in Calls |-> snap[c].due]
<1>1. Paying(i) \in SUBSET Taken /\ {} \in SUBSET GivenBack
  BY DEF Paying
<1>2. Paying(i) \subseteq Calls /\ IsFiniteSet(Paying(i)) /\ \A c \in Paying(i) : PaymentAmount(c) \in Int
  BY <1>1, AmountsAddUp
<1>3. Summable(amount, Paying(i)) /\ \A c \in Paying(i) : amount[c] = PaymentAmount(c)
  BY <1>2 DEF Summable, PaymentAmount
<1>4. Paid(i) = Sum(amount, Paying(i)) /\ Counted(i)
  BY DEF CountInv, Paid
<1>5. invoices[i].paid \in Int
  BY DEF IInv, TypeOK, InvoiceRow
<1> HIDE DEF amount
<1>6. Paid(i) = MapThenSumSet(PaymentAmount, Paying(i)) /\ Paid(i) \in Int
  BY <1>3, <1>4, SumOfPayments, SumIsNumber
<1>7. QED
  BY <1>4, <1>5, <1>6 DEF Counted

LEMMA InitCount == Init => CountInv
<1> SUFFICES ASSUME Init, NEW i \in Invoices
             PROVE  Counted(i)
  BY DEF CountInv
<1>1. PICK t \in Totals : invoices[i] = Issued(t)
  BY DEF Init
<1>2. invoices[i].paid = 0
  BY <1>1 DEF Issued, Finalize, Draft
<1>3. Paying(i) = {}
  BY DEF Init, Paying, Taken
<1>4. Paid(i) = 0
  BY <1>3, SumStep DEF Paid
<1>5. QED
  BY <1>2, <1>4 DEF Counted, Holding, AttemptPC, Init

(* A commit adds its payment to the sum of its invoice; nothing else changes a
   sum. *)
LEMMA PaidSumStep ==
  ASSUME IInv, IsFiniteSet(Begun), NEW c \in Calls, Arrive(c) \/ Abort(c) \/ Step(c),
         NEW i \in Invoices
  PROVE  /\ Paid(i) \in Int
         /\ Paid(i)' = IF AttemptSucceed(c) /\ req[c].invoice = i
                       THEN Paid(i) + snap[c].due ELSE Paid(i)
<1>0. TypeOK
  BY DEF IInv
<1>1. PICK f, g, S, T : /\ f = [d \in Calls |-> snap[d].due] /\ S = Paying(i)
                        /\ g = [d \in Calls |-> snap'[d].due] /\ T = Paying(i)'
  OBVIOUS
<1>2. Paid(i) = Sum(f, S) /\ Paid(i)' = Sum(g, T)
  BY <1>1 DEF Paid
<1>3. S \subseteq Calls /\ Summable(f, S)
  <2>1. S \in SUBSET Taken /\ {} \in SUBSET GivenBack
    BY <1>1 DEF Paying
  <2>2. S \subseteq Calls /\ IsFiniteSet(S) /\ \A d \in S : PaymentAmount(d) \in Int
    BY <1>0, <2>1, AmountsAddUp
  <2>3. QED
    BY <1>1, <2>2 DEF Summable, PaymentAmount
<1>4. \A d \in S : g[d] = f[d] /\ req'[d] = req[d]
  <2>1. \A d \in Taken : d \in Calls /\ req'[d] = req[d] /\ snap'[d] = snap[d]
    BY TakenStep DEF Taken
  <2>2. QED
    BY <1>1, <2>1 DEF Paying
<1>5. c \notin S
  BY <1>1, TakenStep DEF Paying
<1>6. Sum(g, S) = Sum(f, S) /\ Sum(f, S) \in Int
  BY <1>3, <1>4, SumSame, SumIsNumber
<1>7. CASE AttemptSucceed(c) /\ req[c].invoice = i
  <2>1. UNCHANGED <<req, snap>> /\ snap[c] \in InvoiceRow
    BY <1>0, <1>7 DEF AttemptSucceed, TypeOK
  <2>2. T = S \cup {c}
    BY <1>1, <1>7, <2>1, TakenStep DEF Paying
  <2>3. g[c] = snap[c].due /\ snap[c].due \in Int
    BY <1>1, <2>1 DEF InvoiceRow
  <2>4. Summable(g, S \cup {c})
    BY <1>3, <1>4, <2>3, FS_AddElement DEF Summable
  <2>5. Sum(g, T) = Sum(g, S) + g[c]
    BY <1>5, <2>2, <2>4, SumStep
  <2>6. QED
    BY <1>2, <1>6, <1>7, <2>3, <2>5
<1>8. CASE ~(AttemptSucceed(c) /\ req[c].invoice = i)
  <2>1. T = S
    BY <1>1, <1>4, <1>8, TakenStep DEF Paying, AttemptSucceed
  <2>2. QED
    BY <1>2, <1>6, <1>8, <2>1
<1>9. QED
  BY <1>7, <1>8

LEMMA CountStep ==
  ASSUME IInv, IsFiniteSet(Begun), CountInv, [Next]_vars
  PROVE  CountInv'
<1>0. TypeOK /\ ControlInv
  BY DEF IInv
<1>1. ASSUME NEW c \in Calls, Arrive(c) \/ Abort(c) \/ Step(c), NEW i \in Invoices,
             ~PaidByHand(i)'
      PROVE  Counted(i)'
  <2>1. Counted(i)
    BY <1>1, EndStep DEF CountInv
  <2>2. PICK old, new \in Int : old = Paid(i) /\ new = Paid(i)'
    <3>1. Paid(i) \in Int /\ Paid(i)' \in Int
      BY <1>0, <1>1, PaidSumStep DEF TypeOK, InvoiceRow
    <3>2. QED
      BY <3>1
  <2>3. new = IF AttemptSucceed(c) /\ req[c].invoice = i THEN old + snap[c].due ELSE old
    BY <1>1, <2>2, PaidSumStep
  <2>4. AttemptSucceed(c) => snap[c].due > 0
    BY <1>0 DEF AttemptSucceed, ControlInv, AttemptPC, Sound, Balanced, IsOpen
  <2>5. /\ invoices[i].paid \in Int /\ snap[c] \in InvoiceRow /\ snap[c].due \in Int
        /\ \A d \in Calls : snap[d].paid \in Int
    BY <1>0 DEF TypeOK, InvoiceRow
  <2>6. old <= new
    BY <2>3, <2>4, <2>5
  <2>7. /\ invoices[i].paid <= old
        /\ i \notin lost => invoices[i].paid = old
        /\ \A d \in Calls : Holding(d, i) => snap[d].paid <= old
    BY <2>1, <2>2 DEF Counted
  <2>8. invoices'[i].paid <= new /\ (i \notin lost' => invoices'[i].paid = new)
    <3>1. CASE UNCHANGED <<invoices, lost>> /\ ~AttemptSucceed(c)
      BY <2>3, <2>7, <3>1
    <3>2. CASE /\ AttemptSucceed(c)
               /\ pc[c] = "attempt_answered" /\ req[c] \in AttemptRequest /\ IsOpen(snap[c])
               /\ invoices' = [invoices EXCEPT ![req[c].invoice] = RecordPayment(snap[c], snap[c].due)]
               /\ lost' = IF Current(c) THEN lost ELSE lost \cup {req[c].invoice}
      <4>1. CASE req[c].invoice = i
        <5>1. invoices'[i].paid = snap[c].paid + snap[c].due
          BY <1>0, <3>2, <4>1 DEF TypeOK, RecordPayment
        <5>2. snap[c].paid <= old
          BY <2>7, <3>2, <4>1 DEF Holding, AttemptPC
        <5>3. i \notin lost' => snap[c].paid = old
          BY <2>7, <3>2, <4>1 DEF Current
        <5>4. new = old + snap[c].due
          BY <2>3, <3>2, <4>1
        <5>5. QED
          BY <2>5, <5>1, <5>2, <5>3, <5>4
      <4>2. CASE req[c].invoice # i
        <5>1. invoices'[i] = invoices[i] /\ (i \notin lost' => i \notin lost)
          BY <1>0, <3>2, <4>2 DEF TypeOK
        <5>2. QED
          BY <2>3, <2>7, <4>2, <5>1
      <4>3. QED
        BY <4>1, <4>2
    <3>3. CASE /\ ~AttemptSucceed(c) /\ Step(c)
               /\ pc[c] = "invoice_read" /\ req[c] \in InvoiceRequest
               /\ invoices' = [invoices EXCEPT ![req[c].invoice] = Changed(req[c], snap[c])]
               /\ lost' = IF Current(c) THEN lost ELSE lost \cup {req[c].invoice}
      <4>1. CASE req[c].invoice = i
        <5>1. invoices'[i].paid = snap[c].paid
          BY <1>0, <1>1, <3>3, <4>1, ByHandStep DEF TypeOK
        <5>2. snap[c].paid <= old
          BY <2>7, <3>3, <4>1 DEF Holding
        <5>3. i \notin lost' => snap[c].paid = old
          BY <2>7, <3>3, <4>1 DEF Current
        <5>4. QED
          BY <2>3, <3>3, <5>1, <5>2, <5>3
      <4>2. CASE req[c].invoice # i
        <5>1. invoices'[i] = invoices[i] /\ (i \notin lost' => i \notin lost)
          BY <1>0, <3>3, <4>2 DEF TypeOK
        <5>2. QED
          BY <2>3, <2>7, <3>3, <5>1
      <4>3. QED
        BY <4>1, <4>2
    <3>4. Arrive(c) \/ Abort(c) => UNCHANGED <<invoices, lost>>
      BY Frame
    <3>5. QED
      BY <1>1, <3>1, <3>2, <3>3, <3>4, InvoiceStep
  <2>9. ASSUME NEW d \in Calls, Holding(d, i)'
        PROVE  snap'[d].paid <= new
    <3>1. CASE snap'[d] = snap[d] /\ Holding(d, i)
      BY <2>5, <2>6, <2>7, <3>1
    <3>2. CASE d = c /\ Arrive(c)
      <4>1. snap'[d] = invoices[i]
        BY <2>9, <3>2, Frame DEF Holding, AttemptPC
      <4>2. QED
        BY <2>5, <2>6, <2>7, <4>1
    <3>3. (snap'[d] = snap[d] /\ Holding(d, i)) \/ (d = c /\ Arrive(c))
      <4>1. CASE d # c
        <5>1. req'[d] = req[d] /\ snap'[d] = snap[d] /\ pc'[d] = pc[d]
          BY <1>1, <4>1, Frame
        <5>2. pc'[d] \in AttemptPC \cup {"invoice_read"} /\ req'[d].invoice = i
          BY <2>9 DEF Holding
        <5>3. QED
          BY <5>1, <5>2 DEF Holding
      <4>2. CASE d = c /\ ~Arrive(c)
        <5>1. UNCHANGED <<req, snap>>
          BY <1>1, <4>2, Frame
        <5>2. pc'[c] \in AttemptPC \cup {"invoice_read"} => pc[c] \in AttemptPC \cup {"invoice_read"}
          <6>1. CASE Step(c)
            BY <1>0, <6>1 DEF Step, AttemptInsert, AttemptCharge, AttemptSucceed, AttemptDecline,
                  AttemptError, RefundCheck, RefundCharge, RefundSucceed, RefundDecline, RefundError,
                  InvoiceWrite, Answered, Goto, TypeOK, AttemptPC
          <6>2. CASE Abort(c)
            BY <6>2, Frame DEF AttemptPC
          <6>3. QED
            BY <1>1, <4>2, <6>1, <6>2
        <5>3. pc'[d] \in AttemptPC \cup {"invoice_read"} /\ req'[d].invoice = i
          BY <2>9 DEF Holding
        <5>4. QED
          BY <4>2, <5>1, <5>2, <5>3 DEF Holding
      <4>3. QED
        BY <4>1, <4>2
    <3>4. QED
      BY <3>1, <3>2, <3>3
  <2>10. QED
    BY <2>2, <2>8, <2>9 DEF Counted
<1>2. CASE UNCHANGED vars
  BY <1>2 DEF vars, callVars, CountInv, Counted, Paid, Paying, Taken, Holding, PaidByHand, Concerns
<1>3. QED
  BY <1>1, <1>2, OneCall DEF CountInv

(* Whatever calls overlap, an invoice nobody paid by hand never shows more than
   its payments took, and less only if a stale copy was written over it. *)
THEOREM PaymentsCounted == Spec => []PaymentsAreCounted
<1>1. IInv /\ IsFiniteSet(Begun) /\ CountInv /\ [Next]_vars => CountInv'
  BY CountStep
<1>2. Spec => []CountInv
  BY <1>1, InitCount, Invariance, BegunFinite, PTL DEF Spec
<1>3. IInv /\ IsFiniteSet(Begun) /\ CountInv => PaymentsAreCounted
  BY CountedIsCounted
<1>4. QED
  BY <1>2, <1>3, Invariance, BegunFinite, PTL
=============================================================================

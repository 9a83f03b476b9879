-------------------------- MODULE SubscriptionsProofs --------------------------
(***************************************************************************)
(* Theorems about Subscriptions for every number of calls, workers,        *)
(* customers and plans, every clock and every batch size.                  *)
(*                                                                         *)
(* The invariant: whatever row a call or a worker holds is coherent and of *)
(* a subscription that exists, what a worker holds is over, and a customer *)
(* a call holds is not younger than the table's.                           *)
(***************************************************************************)
EXTENDS Subscriptions, TLAPS

USE DEF history

(* A coherent row by time n. *)
Good(row, n) ==
  /\ row \in SubRow
  /\ row.start < row.end
  /\ row.ended <=> row.status = "canceled"
  /\ row.start <= n

CreateRequest == [op : {"create"}, customer : Customers, plan : Plans]
CustomerRequest == [op : {"update", "suspend", "reactivate", "delete"}, customer : Customers]
SubRequest ==
  [op : {"cancel"}, sub : Calls, atEnd : BOOLEAN]
  \cup [op : {"update_plan"}, sub : Calls, plan : Plans]

(* A subscription is there once the call that creates it is done. *)
SubInv(s) ==
  /\ Exists(s) <=> pc[s] = "done" /\ req[s].op = "create"
  /\ Exists(s) => req[s] \in CreateRequest /\ Good(subs[s], now)

(* What a call holds between its steps. *)
HoldsCustomer(c, x) ==
  /\ copy[c] \in CustomerRow
  /\ copy[c].version <= customers[x].version
  /\ copy[c].version = customers[x].version => customers[x].status # "deleted"

CallInv(c) ==
  /\ pc[c] = "create_customer" => req[c] \in CreateRequest
  /\ pc[c] = "create_plan" => req[c] \in CreateRequest /\ Good(copy[c], now)
  /\ pc[c] = "sub_read" =>
       req[c] \in SubRequest /\ Exists(req[c].sub) /\ Good(copy[c], now)
  /\ pc[c] = "delete_checked" => req[c] \in CustomerRequest
  /\ pc[c] = "customer_read" =>
       req[c] \in CustomerRequest /\ HoldsCustomer(c, req[c].customer)

(* What a worker holds is due. *)
BatchInv ==
  \A w \in Workers : \A e \in batch[w] :
    Exists(e.sub) /\ Good(e.row, now) /\ e.row.end <= now

IInv ==
  /\ TypeOK
  /\ \A s \in Calls : SubInv(s)
  /\ \A c \in Calls : CallInv(c)
  /\ BatchInv
  /\ BilledAtCreation

-----------------------------------------------------------------------------
(* Rows and the methods that change them *)

(* A new row is coherent: the clock is inside its first period. *)
LEMMA NewRowGood ==
  ASSUME NEW x \in Customers, NEW p \in Plans, NEW n \in Nat,
         NEW trial \in Int, NEW length \in Nat \ {0}
  PROVE  Good(NewSubscription(x, p, trial, n, n + length), n)
BY DEF Good, NewSubscription, SubRow, SubscriptionStatus

(* Cancelling, planning a cancellation, changing the plan and marking as past due
   keep the period and keep ended_at on canceled rows only. *)
LEMMA MethodsKeepGood ==
  ASSUME NEW n \in Nat, NEW row, Good(row, n)
  PROVE  /\ Good(CancelImmediately(row), n)
         /\ Good(ScheduleCancellation(row), n)
         /\ \A p \in Plans : Good(ChangePlan(row, p), n)
         /\ CanMarkPastDue(row) => Good(MarkPastDue(row), n)
<1>1. Good(CancelImmediately(row), n)
  BY DEF Good, CancelImmediately, SubRow, SubscriptionStatus
<1>2. Good(ScheduleCancellation(row), n)
  BY DEF Good, ScheduleCancellation, SubRow
<1>3. \A p \in Plans : Good(ChangePlan(row, p), n)
  BY DEF Good, ChangePlan, SubRow
<1>4. CanMarkPastDue(row) => Good(MarkPastDue(row), n)
  BY DEF Good, CanMarkPastDue, MarkPastDue, SubRow, SubscriptionStatus
<1>5. QED
  BY <1>1, <1>2, <1>3, <1>4

(* So does what a request makes of a row, which stays that of its customer and
   of its period and is alive only if it was. *)
LEMMA ChangedGood ==
  ASSUME NEW n \in Nat, NEW r \in SubRequest, NEW row, Good(row, n)
  PROVE  /\ Good(Changed(r, row), n)
         /\ Changed(r, row).customer = row.customer
         /\ Changed(r, row).start = row.start
         /\ Changed(r, row).end = row.end
         /\ Changed(r, row).status \in Living => row.status \in Living
<1>1. row \in SubRow
  BY DEF Good
<1>2. CASE r.op = "update_plan"
  <2>1. Changed(r, row) = ChangePlan(row, r.plan) /\ r.plan \in Plans
    BY <1>2 DEF Changed, SubRequest
  <2>2. Good(Changed(r, row), n)
    BY <2>1, MethodsKeepGood
  <2>3. QED
    BY <1>1, <2>1, <2>2 DEF ChangePlan, SubRow
<1>3. CASE r.op = "cancel" /\ r.atEnd
  <2>1. Changed(r, row) = ScheduleCancellation(row)
    BY <1>3 DEF Changed
  <2>2. Good(Changed(r, row), n)
    BY <2>1, MethodsKeepGood
  <2>3. QED
    BY <1>1, <2>1, <2>2 DEF ScheduleCancellation, SubRow
<1>4. CASE r.op = "cancel" /\ ~r.atEnd
  <2>1. Changed(r, row) = CancelImmediately(row)
    BY <1>4 DEF Changed
  <2>2. Good(Changed(r, row), n)
    BY <2>1, MethodsKeepGood
  <2>3. QED
    BY <1>1, <2>1, <2>2 DEF CancelImmediately, SubRow, Living
<1>5. QED
  BY <1>2, <1>3, <1>4 DEF SubRequest

(* A renewal of a period that is over starts the next one where it ended. *)
LEMMA RenewedGood ==
  ASSUME NEW n \in Nat, NEW row, Good(row, n), row.end <= n, Renewable(row)
  PROVE  Good(Renewed(row), n)
<1>1. CASE row.cancelAtEnd
  BY <1>1, MethodsKeepGood DEF Renewed
<1>2. CASE ~row.cancelAtEnd
  <2> DEFINE next == row.end + Terms[row.plan].period
  <2>1. row.plan \in Plans /\ row.end \in Nat
    BY DEF Good, SubRow
  <2>2. Terms[row.plan].period \in Nat /\ Terms[row.plan].period > 0
    BY <2>1, TermsAssumption
  <2>3. next \in Nat /\ row.end < next
    BY <2>1, <2>2
  <2>4. CanActivate(row) /\ Renewed(row) = Activate(ExtendPeriod(row, next))
    BY <1>2 DEF Renewed, Renewable
  <2> HIDE DEF next
  <2> DEFINE after == Activate(ExtendPeriod(row, next))
  <2>5. after \in SubRow
    BY <2>1, <2>3 DEF Activate, ExtendPeriod, Good, SubRow, SubscriptionStatus
  <2>6. /\ after.start = row.end /\ after.end = next
        /\ after.ended = row.ended /\ after.status = "active"
    BY DEF Activate, ExtendPeriod, Good, SubRow
  <2>7. ~row.ended /\ row.ended \in BOOLEAN
    BY <2>4 DEF Good, CanActivate, SubRow
  <2> HIDE DEF after
  <2>8. QED
    BY <2>3, <2>4, <2>5, <2>6, <2>7 DEF Good, after
<1>3. QED
  BY <1>1, <1>2

(* Time only helps. *)
LEMMA GoodLater ==
  ASSUME NEW n \in Nat, NEW m \in Nat, n <= m, NEW row, Good(row, n)
  PROVE  Good(row, m)
BY DEF Good, SubRow

(* A row that exists is a row. *)
LEMMA RowExists ==
  ASSUME TypeOK, NEW s \in Calls
  PROVE  Exists(s) <=> subs[s] \in SubRow
BY DEF TypeOK, Exists, NoSub, SubRow, SubscriptionStatus

LEMMA RowStatus == ASSUME NEW row \in SubRow PROVE row.status # "none"
BY DEF SubRow, SubscriptionStatus

-----------------------------------------------------------------------------
(* Types *)

LEMMA InitTypes == Init => TypeOK
<1> SUFFICES ASSUME Init PROVE TypeOK
  OBVIOUS
<1>1. customers \in [Customers -> CustomerRow]
  BY DEF Init, CustomerRow
<1>2. subs \in [Calls -> {NoSub} \cup SubRow] /\ copy \in [Calls -> {NoRow} \cup SubRow \cup CustomerRow]
  BY DEF Init
<1>3. req \in [Calls -> Request]
  BY DEF Init, Request
<1>4. QED
  BY <1>1, <1>2, <1>3 DEF Init, TypeOK

-----------------------------------------------------------------------------
(* What a step leaves alone *)

(* A call that does not move keeps what it holds: subscriptions stay, the clock
   goes forward, and a customer that is written gets a higher version. *)
LEMMA CallStays ==
  ASSUME NEW c \in Calls, CallInv(c), TypeOK,
         pc'[c] = pc[c], req'[c] = req[c], copy'[c] = copy[c],
         now' \in Nat, now <= now',
         \A s \in Calls : Exists(s) => Exists(s)',
         \A x \in Customers :
           /\ customers'[x] \in CustomerRow
           /\ customers'[x] = customers[x] \/ customers'[x].version > customers[x].version
  PROVE  CallInv(c)'
<1>1. now \in Nat
  BY DEF TypeOK
<1>2. Good(copy[c], now) => Good(copy'[c], now')
  BY <1>1, GoodLater
<1>3. ASSUME NEW x \in Customers, HoldsCustomer(c, x)
      PROVE  HoldsCustomer(c, x)'
  BY <1>3 DEF HoldsCustomer, TypeOK, CustomerRow
<1>4. req[c] \in CustomerRequest => req[c].customer \in Customers
  BY DEF CustomerRequest
<1>5. req[c] \in SubRequest => req[c].sub \in Calls
  BY DEF SubRequest
<1>6. QED
  BY <1>2, <1>3, <1>4, <1>5 DEF CallInv

(* The rows that nobody touches. *)
LEMMA SubStays ==
  ASSUME NEW s \in Calls, SubInv(s), TypeOK,
         subs'[s] = subs[s], req'[s] = req[s],
         pc'[s] = pc[s] \/ ("done" \notin {pc[s], pc'[s]}) \/ req[s].op # "create",
         now' \in Nat, now <= now'
  PROVE  SubInv(s)' /\ (Exists(s)' <=> Exists(s))
<1>1. now \in Nat
  BY DEF TypeOK
<1>2. Exists(s)' <=> Exists(s)
  BY DEF Exists
<1>3. QED
  BY <1>1, <1>2, GoodLater DEF SubInv

(* A step that only reads: one call goes on or is refused. *)
LEMMA ReadStep ==
  ASSUME IInv, TypeOK', NEW c \in Calls, CallInv(c)',
         UNCHANGED <<now, customers, subs, invoices, batch>>,
         \A d \in Calls \ {c} : pc'[d] = pc[d] /\ req'[d] = req[d] /\ copy'[d] = copy[d],
         "done" \notin {pc[c], pc'[c]}
  PROVE  IInv'
<1> USE DEF IInv
<1>1. now \in Nat /\ \A x \in Customers : customers[x] \in CustomerRow
  BY DEF TypeOK
<1>2. ~Exists(c) /\ \A s \in Calls : Exists(s)' <=> Exists(s)
  BY DEF Exists, SubInv
<1>3. \A s \in Calls : SubInv(s)'
  <2>1. ASSUME NEW s \in Calls, s # c
        PROVE  SubInv(s)'
    BY <1>1, <2>1, SubStays
  <2>2. SubInv(c)'
    BY <1>2 DEF SubInv
  <2>3. QED
    BY <2>1, <2>2
<1>4. \A d \in Calls : CallInv(d)'
  BY <1>1, <1>2, CallStays
<1>5. BatchInv'
  BY <1>2 DEF BatchInv, TypeOK
<1>6. BilledAtCreation'
  BY <1>2 DEF BilledAtCreation
<1>7. QED
  BY <1>3, <1>4, <1>5, <1>6

(* A step that writes the coherent row of a subscription that exists, by a call
   or by a worker, and may take something out of the batches. *)
LEMMA RowStep ==
  ASSUME IInv, TypeOK', NEW t \in Calls, Exists(t), Good(subs'[t], now),
         \A s \in Calls \ {t} : subs'[s] = subs[s],
         UNCHANGED <<now, customers, invoices, req, copy>>,
         \A w \in Workers : batch'[w] \subseteq batch[w],
         \A d \in Calls : pc'[d] = pc[d] \/ (pc[d] = "sub_read" /\ pc'[d] = "done")
  PROVE  IInv'
<1> USE DEF IInv
<1>1. now \in Nat /\ \A x \in Customers : customers[x] \in CustomerRow
  BY DEF TypeOK
<1>2. \A d \in Calls : pc'[d] = pc[d] \/ req[d].op # "create"
  <2> SUFFICES ASSUME NEW d \in Calls, pc[d] = "sub_read" PROVE req[d].op # "create"
    OBVIOUS
  <2>1. req[d] \in SubRequest
    BY DEF CallInv
  <2>2. QED
    BY <2>1 DEF SubRequest
<1>3. Exists(t)'
  BY RowExists DEF Exists, Good, SubRow, SubscriptionStatus
<1>4. \A s \in Calls : SubInv(s)' /\ (Exists(s)' <=> Exists(s))
  <2>1. ASSUME NEW s \in Calls, s # t
        PROVE  SubInv(s)' /\ (Exists(s)' <=> Exists(s))
    BY <1>1, <1>2, <2>1, SubStays
  <2>2. SubInv(t)'
    <3>1. pc[t] = "done" /\ req[t].op = "create" /\ req[t] \in CreateRequest
      BY DEF SubInv
    <3>2. pc'[t] = "done"
      BY <3>1
    <3>3. QED
      BY <1>3, <3>1, <3>2 DEF SubInv
  <2>3. QED
    BY <1>3, <2>1, <2>2
<1>5. ASSUME NEW d \in Calls
      PROVE  CallInv(d)'
  <2>1. CASE pc'[d] = pc[d]
    BY <1>1, <1>4, <2>1, CallStays
  <2>2. CASE pc'[d] = "done"
    BY <2>2 DEF CallInv
  <2>3. QED
    BY <2>1, <2>2
<1>6. BatchInv'
  BY <1>4 DEF BatchInv, TypeOK
<1>7. BilledAtCreation'
  BY <1>4 DEF BilledAtCreation
<1>8. QED
  BY <1>4, <1>5, <1>6, <1>7

-----------------------------------------------------------------------------
(* The steps of the calls *)

(* What the first read of a call changes. *)
LEMMA BeginFrame ==
  ASSUME TypeOK, NEW c \in Calls, NEW r \in Request, NEW ok,
         NEW l \in {"create_customer", "sub_read", "delete_checked", "customer_read"},
         Begin(c, r, ok, l)
  PROVE  /\ pc[c] = "idle" /\ req'[c] = r
         /\ pc'[c] = IF ok THEN l ELSE "failed"
         /\ \A d \in Calls \ {c} : pc'[d] = pc[d] /\ req'[d] = req[d]
         /\ req' \in [Calls -> Request]
         /\ pc' \in [Calls -> {"idle", "create_customer", "create_plan", "sub_read",
                               "delete_checked", "customer_read", "done", "failed"}]
BY DEF TypeOK, Begin, Goto

(* What a call holds after a read. *)
LEMMA HoldFrame ==
  ASSUME TypeOK, NEW c \in Calls, NEW ok, NEW row, Hold(c, ok, row),
         ok => row \in SubRow \cup CustomerRow
  PROVE  /\ copy' \in [Calls -> {NoRow} \cup SubRow \cup CustomerRow]
         /\ ok => copy'[c] = row
         /\ \A d \in Calls \ {c} : copy'[d] = copy[d]
BY DEF TypeOK, Hold

LEMMA CreateReadStep ==
  ASSUME IInv, NEW c \in Calls, NEW x \in Customers, NEW p \in Plans, CreateRead(c, x, p)
  PROVE  IInv'
<1> USE DEF IInv
<1> DEFINE r == [op |-> "create", customer |-> x, plan |-> p]
<1>1. r \in Request /\ r \in CreateRequest
  BY DEF Request, CreateRequest
<1>2. Begin(c, r, CustomerActive(x), "create_customer")
  BY DEF CreateRead
<1> HIDE DEF r
<1>3. /\ pc[c] = "idle" /\ req'[c] = r
      /\ pc'[c] = IF CustomerActive(x) THEN "create_customer" ELSE "failed"
      /\ \A d \in Calls \ {c} : pc'[d] = pc[d] /\ req'[d] = req[d]
      /\ req' \in [Calls -> Request]
      /\ pc' \in [Calls -> {"idle", "create_customer", "create_plan", "sub_read",
                            "delete_checked", "customer_read", "done", "failed"}]
  BY <1>1, <1>2, BeginFrame
<1>4. TypeOK'
  BY <1>3 DEF CreateRead, TypeOK
<1>5. CallInv(c)'
  BY <1>1, <1>3 DEF CallInv
<1>6. QED
  BY <1>3, <1>4, <1>5, ReadStep DEF CreateRead

LEMMA CreatePlanStep ==
  ASSUME IInv, NEW c \in Calls, CreatePlan(c)
  PROVE  IInv'
<1> USE DEF IInv
<1> DEFINE p == req[c].plan
           x == req[c].customer
           trial == Terms[p].trial
           length == IF trial > 0 THEN trial ELSE Terms[p].period
           row == NewSubscription(x, p, trial, now, now + length)
<1>1. pc[c] = "create_customer" /\ req[c] \in CreateRequest /\ p \in Plans /\ x \in Customers
  BY DEF CreatePlan, CallInv, CreateRequest
<1>2. length \in Nat \ {0} /\ trial \in Int /\ now \in Nat
  BY <1>1, TermsAssumption DEF TypeOK
<1>3. Good(row, now)
  <2> HIDE DEF p, x, trial, length
  <2>1. QED
    BY <1>1, <1>2, NewRowGood
<1>4. row \in SubRow
  BY <1>3 DEF Good
<1>5. now + length = now + (IF trial > 0 THEN trial ELSE Terms[p].period)
  OBVIOUS
<1>6. Hold(c, PlanActive(p), row)
  BY <1>5 DEF CreatePlan
<1> HIDE DEF row
<1>7. /\ copy' \in [Calls -> {NoRow} \cup SubRow \cup CustomerRow]
      /\ PlanActive(p) => copy'[c] = row
      /\ \A d \in Calls \ {c} : copy'[d] = copy[d]
  BY <1>4, <1>6, HoldFrame
<1>8. /\ pc'[c] = IF PlanActive(p) THEN "create_plan" ELSE "failed"
      /\ pc' = [pc EXCEPT ![c] = IF PlanActive(p) THEN "create_plan" ELSE "failed"]
      /\ UNCHANGED <<now, customers, archived, subs, invoices, req, batch, history>>
  BY DEF CreatePlan, Goto, TypeOK
<1>9. TypeOK'
  BY <1>7, <1>8 DEF TypeOK
<1>10. CallInv(c)'
  BY <1>1, <1>3, <1>7, <1>8 DEF CallInv
<1>11. QED
  BY <1>1, <1>7, <1>8, <1>9, <1>10, ReadStep DEF TypeOK

(* Reads that end in a row of a subscription. *)
LEMMA SubReadStep ==
  ASSUME IInv, NEW c \in Calls, NEW r \in SubRequest, NEW ok, NEW row,
         Exists(r.sub), Good(row, now), Begin(c, r, ok, "sub_read"), Hold(c, ok, row),
         UNCHANGED <<now, customers, archived, subs, invoices, batch, history>>
  PROVE  IInv'
<1> USE DEF IInv
<1>1. r \in Request
  BY DEF Request, SubRequest
<1>2. /\ pc[c] = "idle" /\ req'[c] = r
      /\ pc'[c] = IF ok THEN "sub_read" ELSE "failed"
      /\ \A d \in Calls \ {c} : pc'[d] = pc[d] /\ req'[d] = req[d]
      /\ req' \in [Calls -> Request]
      /\ pc' \in [Calls -> {"idle", "create_customer", "create_plan", "sub_read",
                            "delete_checked", "customer_read", "done", "failed"}]
  BY <1>1, BeginFrame
<1>3. /\ copy' \in [Calls -> {NoRow} \cup SubRow \cup CustomerRow]
      /\ ok => copy'[c] = row
      /\ \A d \in Calls \ {c} : copy'[d] = copy[d]
  BY HoldFrame DEF Good
<1>4. TypeOK'
  BY <1>2, <1>3 DEF TypeOK
<1>5. Exists(r.sub)'
  BY DEF Exists
<1>6. CallInv(c)'
  BY <1>2, <1>3, <1>5 DEF CallInv
<1>7. QED
  BY <1>2, <1>3, <1>4, <1>6, ReadStep

LEMMA CancelReadStep ==
  ASSUME IInv, NEW c \in Calls, NEW s \in Calls, NEW atEnd \in BOOLEAN, CancelRead(c, s, atEnd)
  PROVE  IInv'
<1> DEFINE r == [op |-> "cancel", sub |-> s, atEnd |-> atEnd]
           ok == ~IsCanceled(subs[s]) /\ (atEnd => CanScheduleCancellation(subs[s]))
<1>1. r \in SubRequest /\ r.sub = s
  BY DEF SubRequest
<1>2. Exists(s) /\ Good(subs[s], now) /\ now \in Nat
  BY DEF CancelRead, IInv, SubInv, TypeOK
<1>3. /\ Begin(c, r, ok, "sub_read") /\ Hold(c, ok, subs[s])
      /\ UNCHANGED <<now, customers, archived, subs, invoices, batch, history>>
  BY DEF CancelRead
<1> HIDE DEF r, ok
<1>4. QED
  BY <1>1, <1>2, <1>3, SubReadStep

LEMMA PlanReadStep ==
  ASSUME IInv, NEW c \in Calls, NEW s \in Calls, NEW p \in Plans, PlanRead(c, s, p)
  PROVE  IInv'
<1> DEFINE r == [op |-> "update_plan", sub |-> s, plan |-> p]
           ok == /\ CanBeModified(subs[s])
                 /\ PlanActive(p)
                 /\ Terms[p].currency = Terms[subs[s].plan].currency
<1>1. r \in SubRequest /\ r.sub = s
  BY DEF SubRequest
<1>2. Exists(s) /\ Good(subs[s], now) /\ now \in Nat
  BY DEF PlanRead, IInv, SubInv, TypeOK
<1>3. /\ Begin(c, r, ok, "sub_read") /\ Hold(c, ok, subs[s])
      /\ UNCHANGED <<now, customers, archived, subs, invoices, batch, history>>
  BY DEF PlanRead
<1> HIDE DEF r, ok
<1>4. QED
  BY <1>1, <1>2, <1>3, SubReadStep

(* What a call reads of a customer it may change is not deleted. *)
LEMMA CustomerReadStep ==
  ASSUME IInv, NEW c \in Calls, NEW x \in Customers,
         NEW op \in {"update", "suspend", "reactivate"}, CustomerRead(c, op, x)
  PROVE  IInv'
<1> USE DEF IInv
<1> DEFINE ok == customers[x].status \in Accepts(op)
           row == [customers[x] EXCEPT !.status = After(op, customers[x].status)]
           r == [op |-> op, customer |-> x]
<1>1. /\ Begin(c, r, ok, "customer_read") /\ Hold(c, ok, row)
      /\ UNCHANGED <<now, customers, archived, subs, invoices, batch, history>>
  BY DEF CustomerRead
<1>2. r \in Request /\ r \in CustomerRequest /\ r.customer = x
  BY DEF Request, CustomerRequest
<1>3. customers[x] \in CustomerRow
  BY DEF TypeOK
<1>4. ok => After(op, customers[x].status) \in {"active", "suspended", "deleted"} /\ customers[x].status # "deleted"
  BY <1>3 DEF Accepts, After, CustomerRow
<1>5. ok => row \in CustomerRow /\ row.version = customers[x].version
  BY <1>3, <1>4 DEF CustomerRow
<1> HIDE DEF row, r, ok
<1>6. /\ pc[c] = "idle" /\ req'[c] = r
      /\ pc'[c] = IF ok THEN "customer_read" ELSE "failed"
      /\ \A d \in Calls \ {c} : pc'[d] = pc[d] /\ req'[d] = req[d]
      /\ req' \in [Calls -> Request]
      /\ pc' \in [Calls -> {"idle", "create_customer", "create_plan", "sub_read",
                            "delete_checked", "customer_read", "done", "failed"}]
  BY <1>1, <1>2, BeginFrame
<1>7. /\ copy' \in [Calls -> {NoRow} \cup SubRow \cup CustomerRow]
      /\ ok => copy'[c] = row
      /\ \A d \in Calls \ {c} : copy'[d] = copy[d]
  BY <1>1, <1>5, HoldFrame
<1>8. TypeOK'
  BY <1>1, <1>6, <1>7 DEF TypeOK
<1>9. ok => HoldsCustomer(c, x)'
  BY <1>1, <1>3, <1>4, <1>5, <1>7 DEF HoldsCustomer, CustomerRow
<1>10. CallInv(c)'
  BY <1>2, <1>6, <1>9 DEF CallInv, HoldsCustomer
<1>11. QED
  BY <1>1, <1>6, <1>7, <1>8, <1>10, ReadStep

LEMMA DeleteCheckStep ==
  ASSUME IInv, NEW c \in Calls, NEW x \in Customers, DeleteCheck(c, x)
  PROVE  IInv'
<1> USE DEF IInv
<1> DEFINE ok == ~HasActiveSubscriptions(x)
           r == [op |-> "delete", customer |-> x]
<1>1. /\ Begin(c, r, ok, "delete_checked")
      /\ UNCHANGED <<now, customers, archived, subs, invoices, copy, batch, revived>>
      /\ met' \subseteq Calls
  BY DEF DeleteCheck, TypeOK, On, Busy
<1>2. r \in Request /\ r \in CustomerRequest
  BY DEF Request, CustomerRequest
<1> HIDE DEF r, ok
<1>3. /\ pc[c] = "idle" /\ req'[c] = r
      /\ pc'[c] = IF ok THEN "delete_checked" ELSE "failed"
      /\ \A d \in Calls \ {c} : pc'[d] = pc[d] /\ req'[d] = req[d]
      /\ req' \in [Calls -> Request]
      /\ pc' \in [Calls -> {"idle", "create_customer", "create_plan", "sub_read",
                            "delete_checked", "customer_read", "done", "failed"}]
  BY <1>1, <1>2, BeginFrame
<1>4. TypeOK'
  BY <1>1, <1>3 DEF TypeOK
<1>5. CallInv(c)'
  BY <1>2, <1>3 DEF CallInv
<1>6. QED
  BY <1>1, <1>3, <1>4, <1>5, ReadStep

LEMMA DeleteReadStep ==
  ASSUME IInv, NEW c \in Calls, DeleteRead(c)
  PROVE  IInv'
<1> USE DEF IInv
<1>0. PICK x : x = req[c].customer
  OBVIOUS
<1>1. pc[c] = "delete_checked" /\ req[c] \in CustomerRequest /\ x \in Customers
  BY <1>0 DEF DeleteRead, CallInv, CustomerRequest
<1> DEFINE ok == customers[x].status \in Accepts("delete")
           row == [customers[x] EXCEPT !.status = "deleted"]
<1>2. /\ Hold(c, ok, row)
      /\ pc' = [pc EXCEPT ![c] = IF ok THEN "customer_read" ELSE "failed"]
      /\ UNCHANGED <<now, customers, archived, subs, invoices, req, batch, history>>
  BY <1>0 DEF DeleteRead, Goto
<1>3. customers[x] \in CustomerRow
  BY <1>1 DEF TypeOK
<1>4. row \in CustomerRow /\ row.version = customers[x].version
  BY <1>3 DEF CustomerRow
<1>5. ok => customers[x].status # "deleted"
  BY DEF Accepts
<1> HIDE DEF row, ok
<1>6. /\ copy' \in [Calls -> {NoRow} \cup SubRow \cup CustomerRow]
      /\ ok => copy'[c] = row
      /\ \A d \in Calls \ {c} : copy'[d] = copy[d]
  BY <1>2, <1>4, HoldFrame
<1>7. /\ pc'[c] = IF ok THEN "customer_read" ELSE "failed"
      /\ \A d \in Calls \ {c} : pc'[d] = pc[d]
  BY <1>2 DEF TypeOK
<1>8. TypeOK'
  BY <1>2, <1>6 DEF TypeOK
<1>9. ok => HoldsCustomer(c, x)'
  BY <1>2, <1>3, <1>4, <1>5, <1>6 DEF HoldsCustomer, CustomerRow
<1>10. CallInv(c)'
  BY <1>0, <1>1, <1>2, <1>7, <1>9 DEF CallInv, HoldsCustomer
<1>11. QED
  BY <1>1, <1>2, <1>6, <1>7, <1>8, <1>10, ReadStep

(* A call that is cut off holds nothing any more. *)
LEMMA AbortStep ==
  ASSUME IInv, NEW c \in Calls, Abort(c)
  PROVE  IInv'
<1> USE DEF IInv
<1>1. /\ pc[c] # "done" /\ pc' = [pc EXCEPT ![c] = "failed"]
      /\ UNCHANGED <<now, customers, archived, subs, invoices, req, copy, batch, history>>
  BY DEF Abort, Busy, Ended, Goto
<1>2. pc'[c] = "failed" /\ \A d \in Calls \ {c} : pc'[d] = pc[d]
  BY <1>1 DEF TypeOK
<1>3. TypeOK'
  BY <1>1 DEF TypeOK
<1>4. CallInv(c)'
  BY <1>2 DEF CallInv
<1>5. QED
  BY <1>1, <1>2, <1>3, <1>4, ReadStep

(* The copy is written whatever has become of the row: it is coherent. *)
LEMMA SubWriteStep ==
  ASSUME IInv, NEW c \in Calls, SubWrite(c)
  PROVE  IInv'
<1> USE DEF IInv
<1>0. PICK t : t = req[c].sub
  OBVIOUS
<1> DEFINE row == Changed(req[c], copy[c])
<1>1. /\ pc[c] = "sub_read" /\ Exists(t) /\ Good(row, now) /\ t \in Calls
      /\ UpdateRow(t, row)
      /\ pc' = [pc EXCEPT ![c] = "done"]
      /\ UNCHANGED <<now, customers, archived, invoices, req, copy, batch, met>>
  BY <1>0, ChangedGood DEF SubWrite, CallInv, SubRequest, Goto, TypeOK
<1> HIDE DEF row
<1>2. TypeOK'
  BY <1>1 DEF TypeOK, Good, UpdateRow
<1>3. Good(subs'[t], now) /\ \A s \in Calls \ {t} : subs'[s] = subs[s]
  BY <1>1 DEF TypeOK, UpdateRow
<1>4. \A d \in Calls : pc'[d] = pc[d] \/ (pc[d] = "sub_read" /\ pc'[d] = "done")
  BY <1>1 DEF TypeOK
<1>5. QED
  BY <1>1, <1>2, <1>3, <1>4, RowStep

(* Both rows or none: a number that is free at the insert stays its invoice's. *)
LEMMA CreateCommitStep ==
  ASSUME IInv, NEW c \in Calls, CreateCommit(c)
  PROVE  IInv'
<1> USE DEF IInv
<1>0. PICK p : p = req[c].plan
  OBVIOUS
<1>1. /\ pc[c] = "create_plan" /\ req[c] \in CreateRequest /\ Good(copy[c], now) /\ p \in Plans
      /\ UNCHANGED <<now, customers, archived, req, copy, batch, history>>
  BY <1>0 DEF CreateCommit, CallInv, CreateRequest
<1>2. ~Exists(c) /\ now \in Nat /\ Terms[p].amount \in Nat
  BY <1>1, TermsAssumption DEF SubInv, TypeOK
<1>3. \A x \in Customers : customers[x] \in CustomerRow
  BY DEF TypeOK
<1>4. CASE /\ pc' = [pc EXCEPT ![c] = "failed"]
           /\ UNCHANGED <<subs, invoices>>
  <2>1. pc'[c] = "failed" /\ \A d \in Calls \ {c} : pc'[d] = pc[d]
    BY <1>4 DEF TypeOK
  <2>2. TypeOK'
    BY <1>1, <1>4 DEF TypeOK
  <2>3. CallInv(c)'
    BY <2>1 DEF CallInv
  <2>4. QED
    BY <1>1, <1>4, <2>1, <2>2, <2>3, ReadStep
<1>5. CASE /\ ~(Billed(p) /\ \E i \in invoices : i.number = now)
           /\ subs' = [subs EXCEPT ![c] = copy[c]]
           /\ invoices' = IF Billed(p) THEN invoices \cup {FirstInvoice(c)} ELSE invoices
           /\ pc' = [pc EXCEPT ![c] = "done"]
  <2>1. FirstInvoice(c) \in [sub : Calls, number : Nat, total : Nat]
    BY <1>0, <1>2 DEF FirstInvoice
  <2>2. /\ subs'[c] = copy[c] /\ pc'[c] = "done"
        /\ \A s \in Calls \ {c} : subs'[s] = subs[s] /\ pc'[s] = pc[s]
    BY <1>5 DEF TypeOK
  <2>3. TypeOK'
    BY <1>1, <1>5, <2>1 DEF TypeOK, Good
  <2>4. Exists(c)'
    BY <1>1, <2>2, RowStatus DEF Exists, Good
  <2>5. \A s \in Calls : SubInv(s)'
    <3>1. SubInv(c)'
      BY <1>1, <2>2, <2>4 DEF SubInv, CreateRequest
    <3>2. ASSUME NEW s \in Calls, s # c
          PROVE  SubInv(s)'
      BY <1>1, <1>2, <2>2, <3>2, SubStays
    <3>3. QED
      BY <3>1, <3>2
  <2>6. \A s \in Calls \ {c} : Exists(s)' <=> Exists(s)
    BY <2>2 DEF Exists
  <2>7. \A d \in Calls : CallInv(d)'
    <3>1. CallInv(c)'
      BY <2>2 DEF CallInv
    <3>2. ASSUME NEW d \in Calls, d # c
          PROVE  CallInv(d)'
      BY <1>1, <1>2, <1>3, <2>2, <2>4, <2>6, <3>2, CallStays
    <3>3. QED
      BY <3>1, <3>2
  <2>8. BatchInv'
    BY <1>1, <2>4, <2>6 DEF BatchInv, TypeOK
  <2>9. BilledAtCreation'
    <3> SUFFICES ASSUME NEW s \in Calls
                 PROVE  LET own == {i \in invoices' : i.sub = s}
                        IN  /\ own # {} <=> Exists(s)' /\ Billed(req[s].plan)
                            /\ \A i \in own : own = {i} /\ i.total = Terms[req[s].plan].amount
      BY <1>1 DEF BilledAtCreation, Billed
    <3>1. FirstInvoice(c).sub = c /\ FirstInvoice(c).total = Terms[p].amount
      BY <1>0 DEF FirstInvoice
    <3>2. CASE s # c
      <4>1. {i \in invoices' : i.sub = s} = {i \in invoices : i.sub = s}
        BY <1>5, <3>1, <3>2
      <4>2. QED
        BY <2>6, <3>2, <4>1 DEF BilledAtCreation
    <3>3. CASE s = c
      <4>1. {i \in invoices : i.sub = c} = {}
        BY <1>2 DEF BilledAtCreation
      <4>2. {i \in invoices' : i.sub = c} = IF Billed(p) THEN {FirstInvoice(c)} ELSE {}
        BY <1>5, <3>1, <4>1
      <4>3. QED
        BY <1>0, <2>4, <3>1, <3>3, <4>2
    <3>4. QED
      BY <3>2, <3>3
  <2>10. QED
    BY <2>3, <2>5, <2>7, <2>8, <2>9
<1>6. QED
  BY <1>0, <1>4, <1>5 DEF CreateCommit, Goto, InsertSubscription, InsertInvoice

(* The version check: only the version that was read is replaced, by a later one. *)
LEMMA CustomerWriteStep ==
  ASSUME IInv, NEW c \in Calls, CustomerWrite(c)
  PROVE  /\ IInv'
         /\ \A x \in Customers : customers[x].status = "deleted" => customers'[x] = customers[x]
<1> USE DEF IInv
<1>0. PICK x : x = req[c].customer
  OBVIOUS
<1>1. /\ pc[c] = "customer_read" /\ req[c] \in CustomerRequest /\ x \in Customers
      /\ HoldsCustomer(c, x) /\ copy[c] \in CustomerRow
      /\ UNCHANGED <<now, archived, subs, invoices, req, copy, batch, history>>
  BY <1>0 DEF CustomerWrite, CallInv, CustomerRequest, HoldsCustomer
<1>2. now \in Nat /\ \A y \in Customers : customers[y] \in CustomerRow
  BY DEF TypeOK
<1>3. CASE customers[x].version # copy[c].version
  <2>1. pc' = [pc EXCEPT ![c] = "failed"] /\ UNCHANGED customers
    BY <1>0, <1>3 DEF CustomerWrite, Goto
  <2>2. pc'[c] = "failed" /\ \A d \in Calls \ {c} : pc'[d] = pc[d]
    BY <2>1 DEF TypeOK
  <2>3. TypeOK'
    BY <1>1, <2>1 DEF TypeOK
  <2>4. CallInv(c)'
    BY <2>2 DEF CallInv
  <2>5. QED
    BY <1>1, <2>1, <2>2, <2>3, <2>4, ReadStep
<1>4. CASE customers[x].version = copy[c].version
  <2>1. /\ pc' = [pc EXCEPT ![c] = "done"]
        /\ customers' = [customers EXCEPT ![x] = [copy[c] EXCEPT !.version = @ + 1]]
    BY <1>0, <1>4 DEF CustomerWrite, Goto
  <2>2. pc'[c] = "done" /\ \A d \in Calls \ {c} : pc'[d] = pc[d]
    BY <2>1 DEF TypeOK
  <2>3. /\ customers'[x] = [copy[c] EXCEPT !.version = copy[c].version + 1]
        /\ \A y \in Customers \ {x} : customers'[y] = customers[y]
    BY <1>1, <2>1 DEF TypeOK, CustomerRow
  <2>4. customers'[x] \in CustomerRow /\ customers'[x].version > customers[x].version
    BY <1>1, <1>4, <2>3 DEF CustomerRow
  <2>5. TypeOK'
    BY <1>1, <2>1, <2>4 DEF TypeOK
  <2>6. \A s \in Calls : Exists(s)' <=> Exists(s)
    BY <1>1 DEF Exists
  <2>7. req[c].op # "create"
    BY <1>1 DEF CustomerRequest
  <2>8. ASSUME NEW s \in Calls
        PROVE  SubInv(s)'
    BY <1>1, <1>2, <2>2, <2>7, SubStays
  <2>9. ASSUME NEW d \in Calls, d # c
        PROVE  CallInv(d)'
    <3>1. \A y \in Customers :
            /\ customers'[y] \in CustomerRow
            /\ customers'[y] = customers[y] \/ customers'[y].version > customers[y].version
      BY <1>2, <2>3, <2>4
    <3>2. now' \in Nat /\ now <= now' /\ pc'[d] = pc[d] /\ req'[d] = req[d] /\ copy'[d] = copy[d]
      BY <1>1, <1>2, <2>2, <2>9
    <3>3. QED
      BY <2>6, <3>1, <3>2, CallStays
  <2>10. CallInv(c)'
    BY <2>2 DEF CallInv
  <2>11. BatchInv'
    BY <1>1, <2>6 DEF BatchInv, TypeOK
  <2>12. BilledAtCreation'
    BY <1>1, <2>6 DEF BilledAtCreation
  <2>13. IInv'
    BY <2>5, <2>8, <2>9, <2>10, <2>11, <2>12
  <2>14. customers[x].status # "deleted"
    BY <1>1, <1>4 DEF HoldsCustomer
  <2>15. QED
    BY <2>3, <2>13, <2>14
<1>5. QED
  BY <1>3, <1>4

-----------------------------------------------------------------------------
(* The steps of the workers, of the clock and of the administrator *)

LEMMA PollStep ==
  ASSUME IInv, NEW w \in Workers, Poll(w)
  PROVE  IInv'
<1> USE DEF IInv
<1>1. PICK taken \in SUBSET DueForRenewal :
        batch' = [batch EXCEPT ![w] = {[sub |-> s, row |-> subs[s]] : s \in taken}]
  BY DEF Poll
<1>2. UNCHANGED <<now, customers, archived, subs, invoices, pc, req, copy, history>>
  BY DEF Poll, callVars
<1>3. \A s \in taken : /\ s \in Calls /\ Exists(s) /\ subs[s] \in SubRow
                       /\ Good(subs[s], now) /\ subs[s].end <= now
  BY <1>1, RowExists DEF DueForRenewal, SubInv
<1>4. {[sub |-> s, row |-> subs[s]] : s \in taken} \in SUBSET [sub : Calls, row : SubRow]
  BY <1>3
<1>5. TypeOK'
  BY <1>1, <1>2, <1>4 DEF TypeOK
<1>6. BatchInv'
  <2> SUFFICES ASSUME NEW v \in Workers, NEW e \in batch'[v]
               PROVE  Exists(e.sub)' /\ Good(e.row, now)' /\ (e.row.end <= now)'
    BY DEF BatchInv
  <2>1. CASE v # w
    BY <1>1, <1>2, <2>1 DEF BatchInv, TypeOK, Exists
  <2>2. CASE v = w
    <3>1. PICK s \in taken : e = [sub |-> s, row |-> subs[s]]
      BY <1>1, <2>2 DEF TypeOK
    <3>2. e.sub = s /\ e.row = subs[s]
      BY <3>1
    <3>3. QED
      BY <1>2, <1>3, <3>2 DEF Exists
  <2>3. QED
    BY <2>1, <2>2
<1>7. /\ \A s \in Calls : SubInv(s)'
      /\ \A c \in Calls : CallInv(c)'
      /\ BilledAtCreation'
  BY <1>2 DEF SubInv, CallInv, Exists, HoldsCustomer, BilledAtCreation
<1>8. QED
  BY <1>5, <1>6, <1>7

(* A renewal from a copy: coherent, and not ahead of the clock. *)
LEMMA ProcessStep ==
  ASSUME IInv, NEW w \in Workers, Process(w)
  PROVE  IInv'
<1> USE DEF IInv
<1>1. PICK e \in batch[w] :
        /\ batch' = [batch EXCEPT ![w] = @ \ {e}]
        /\ IF Renewable(e.row) THEN UpdateRow(e.sub, Renewed(e.row)) ELSE UNCHANGED <<subs, revived>>
  BY DEF Process
<1>2. UNCHANGED <<now, customers, archived, invoices, pc, req, copy, met>>
  BY DEF Process, callVars
<1>3. /\ e.sub \in Calls /\ Exists(e.sub) /\ now \in Nat
      /\ Good(e.row, now) /\ e.row.end <= now
  BY DEF TypeOK, BatchInv
<1>4. Renewable(e.row) => Good(Renewed(e.row), now)
  BY <1>3, RenewedGood
<1>5. Good(subs[e.sub], now)
  BY <1>3 DEF SubInv
<1>6. /\ Good(subs'[e.sub], now)
      /\ \A s \in Calls \ {e.sub} : subs'[s] = subs[s]
      /\ \A v \in Workers : batch'[v] \subseteq batch[v]
  BY <1>1, <1>3, <1>4, <1>5 DEF TypeOK, UpdateRow
<1>7. TypeOK'
  <2>1. subs' \in [Calls -> {NoSub} \cup SubRow] /\ revived' \subseteq Calls
    BY <1>1, <1>3, <1>4 DEF TypeOK, Good, UpdateRow
  <2>2. batch' \in [Workers -> SUBSET [sub : Calls, row : SubRow]]
    BY <1>1 DEF TypeOK
  <2>3. QED
    BY <1>2, <2>1, <2>2 DEF TypeOK
<1>8. QED
  BY <1>2, <1>3, <1>6, <1>7, RowStep

LEMMA PastDueStep ==
  ASSUME IInv, NEW s \in Calls, PastDue(s)
  PROVE  IInv'
<1> USE DEF IInv
<1>1. /\ CanMarkPastDue(subs[s]) /\ subs' = [subs EXCEPT ![s] = MarkPastDue(subs[s])]
      /\ UNCHANGED <<now, customers, archived, invoices, pc, req, copy, batch, history>>
  BY DEF PastDue, callVars, TypeOK
<1>2. Exists(s)
  BY <1>1 DEF CanMarkPastDue, Exists
<1>3. Good(MarkPastDue(subs[s]), now)
  BY <1>1, <1>2, MethodsKeepGood DEF SubInv, TypeOK
<1>4. Good(subs'[s], now) /\ \A t \in Calls \ {s} : subs'[t] = subs[t]
  BY <1>1, <1>3 DEF TypeOK
<1>5. TypeOK'
  BY <1>1, <1>3 DEF TypeOK, Good
<1>6. QED
  BY <1>1, <1>2, <1>4, <1>5, RowStep

(* A worker that loses rows, an archived plan, a tick of the clock. *)
LEMMA OutsideStep ==
  ASSUME IInv, TypeOK', UNCHANGED <<customers, subs, invoices, pc, req, copy>>,
         now' \in Nat, now <= now', \A w \in Workers : batch'[w] \subseteq batch[w]
  PROVE  IInv'
<1> USE DEF IInv
<1>1. now \in Nat /\ \A x \in Customers : customers[x] \in CustomerRow
  BY DEF TypeOK
<1>2. \A s \in Calls : Exists(s)' <=> Exists(s)
  BY DEF Exists
<1>3. \A s \in Calls : SubInv(s)'
  BY <1>1, SubStays
<1>4. \A c \in Calls : CallInv(c)'
  BY <1>1, <1>2, CallStays
<1>5. BatchInv'
  <2> SUFFICES ASSUME NEW w \in Workers, NEW e \in batch'[w]
               PROVE  Exists(e.sub)' /\ Good(e.row, now)' /\ e.row.end <= now'
    BY DEF BatchInv
  <2>1. e \in batch[w] /\ e.sub \in Calls /\ e.row.end \in Nat
    BY DEF TypeOK, SubRow
  <2>2. QED
    BY <1>1, <1>2, <2>1, GoodLater DEF BatchInv
<1>6. BilledAtCreation'
  BY <1>2 DEF BilledAtCreation
<1>7. QED
  BY <1>3, <1>4, <1>5, <1>6

LEMMA InitIInv == Init => IInv
<1> SUFFICES ASSUME Init PROVE IInv
  OBVIOUS
<1>1. TypeOK
  BY InitTypes
<1>2. \A s \in Calls : ~Exists(s)
  BY DEF Init, Exists, NoSub
<1>3. \A s \in Calls : SubInv(s) /\ CallInv(s)
  BY <1>2 DEF Init, SubInv, CallInv
<1>4. BatchInv
  BY DEF Init, BatchInv
<1>5. BilledAtCreation
  BY <1>2 DEF Init, BilledAtCreation
<1>6. QED
  BY <1>1, <1>3, <1>4, <1>5 DEF IInv

LEMMA StepIInv == IInv /\ [Next]_vars => IInv'
<1> SUFFICES ASSUME IInv, [Next]_vars PROVE IInv'
  OBVIOUS
<1>0. TypeOK /\ now \in Nat
  BY DEF IInv, TypeOK
<1>1. ASSUME NEW c \in Calls, Arrive(c)
      PROVE  IInv'
  BY <1>1, CreateReadStep, CancelReadStep, PlanReadStep, CustomerReadStep, DeleteCheckStep DEF Arrive
<1>2. ASSUME NEW c \in Calls, Step(c) \/ Abort(c) \/ PastDue(c)
      PROVE  IInv'
  BY <1>2, CreatePlanStep, CreateCommitStep, SubWriteStep, DeleteReadStep, CustomerWriteStep,
     AbortStep, PastDueStep DEF Step
<1>3. ASSUME NEW w \in Workers, Poll(w) \/ Process(w)
      PROVE  IInv'
  BY <1>3, PollStep, ProcessStep
<1>4. ASSUME NEW w \in Workers, WorkerAbort(w)
      PROVE  IInv'
  <2>1. PICK lost \in SUBSET batch[w] : batch' = [batch EXCEPT ![w] = @ \ lost]
    BY <1>4 DEF WorkerAbort
  <2>2. UNCHANGED <<now, customers, archived, subs, invoices, pc, req, copy, history>>
    BY <1>4 DEF WorkerAbort, callVars
  <2>3. TypeOK' /\ \A v \in Workers : batch'[v] \subseteq batch[v]
    BY <1>0, <2>1, <2>2 DEF TypeOK
  <2>4. QED
    BY <1>0, <2>2, <2>3, OutsideStep
<1>5. ASSUME NEW p \in Plans, ArchivePlan(p)
      PROVE  IInv'
  <2>1. UNCHANGED <<now, customers, subs, invoices, pc, req, copy, batch>> /\ TypeOK'
    BY <1>0, <1>5 DEF ArchivePlan, callVars, TypeOK
  <2>2. QED
    BY <1>0, <2>1, OutsideStep
<1>6. CASE Tick
  <2>1. /\ UNCHANGED <<customers, subs, invoices, pc, req, copy, batch>>
        /\ TypeOK' /\ now' \in Nat /\ now <= now'
    BY <1>0, <1>6 DEF Tick, callVars, TypeOK
  <2>2. QED
    BY <2>1, OutsideStep
<1>7. CASE UNCHANGED vars
  <2>1. UNCHANGED <<now, customers, subs, invoices, pc, req, copy, batch>> /\ TypeOK'
    BY <1>0, <1>7 DEF vars, callVars, TypeOK
  <2>2. QED
    BY <1>0, <2>1, OutsideStep
<1>8. QED
  BY <1>1, <1>2, <1>3, <1>4, <1>5, <1>6, <1>7 DEF Next, Rest

-----------------------------------------------------------------------------
(* The theorems *)

(* The inductive invariant holds always. *)
THEOREM Invariance == Spec => []IInv
BY InitIInv, StepIInv, PTL DEF Spec

(* Rows, requests, copies and batches keep their types. *)
THEOREM TypeCorrect == Spec => []TypeOK
<1>1. IInv => TypeOK
  BY DEF IInv
<1>2. QED
  BY <1>1, Invariance, PTL

(* A subscription that is billed at its creation has exactly its one invoice. *)
THEOREM CreatedIsBilled == Spec => []BilledAtCreation
<1>1. IInv => BilledAtCreation
  BY DEF IInv
<1>2. QED
  BY <1>1, Invariance, PTL

(* Stale copies never write an incoherent row. *)
THEOREM RowsAreCoherent == Spec => []RowsCoherent
<1>1. IInv => RowsCoherent
  BY DEF IInv, SubInv, Good, RowsCoherent
<1>2. QED
  BY <1>1, Invariance, PTL

(* No number of workers renews a subscription into the future. *)
THEOREM PeriodsAreNotAhead == Spec => []NoPeriodAhead
<1>1. IInv => NoPeriodAhead
  BY DEF IInv, SubInv, Good, NoPeriodAhead
<1>2. QED
  BY <1>1, Invariance, PTL

(* No call writes a deleted customer, however it interleaves with the deletion. *)
THEOREM DeletedStaysFrozen == Spec => DeletedIsFrozen
<1> DEFINE Frozen == \A x \in Customers : customers[x].status = "deleted" => customers'[x] = customers[x]
<1>1. IInv /\ [Next]_vars => [Frozen]_vars
  <2> SUFFICES ASSUME IInv, [Next]_vars, customers' # customers PROVE Frozen
    BY DEF vars
  <2>1. PICK c \in Calls : CustomerWrite(c)
    BY DEF Next, Rest, vars, callVars, Arrive, Step, CreateRead, CancelRead, PlanRead, CustomerRead,
       DeleteCheck, CreatePlan, CreateCommit, SubWrite, DeleteRead, Abort, PastDue, Poll,
       Process, WorkerAbort, ArchivePlan, Tick
  <2>2. QED
    BY <2>1, CustomerWriteStep
<1>2. QED
  BY <1>1, Invariance, PTL DEF Spec, DeletedIsFrozen

-----------------------------------------------------------------------------
(* What a write makes of a subscription *)

(* What a step makes of the row of a subscription that is there: it stays that
   of its customer, who wakes it is on record, and unless a copy was overtaken
   it was not canceled and its period stays or is followed by the next. *)
Rewrites(s) ==
  /\ Exists(s) /\ Exists(s)'
  /\ subs'[s].customer = subs[s].customer
  /\ subs'[s].status \in Living => subs[s].status \in Living \/ s \in revived'
  /\ \/ OvertakenWrite(s)
     \/ /\ subs[s].status # "canceled"
        /\ \/ subs'[s].start = subs[s].start /\ subs'[s].end = subs[s].end
           \/ subs'[s].start = subs[s].end /\ subs'[s].end > subs[s].end

(* A row that was not there is the one its creation built. *)
Creates(s) == ~Exists(s) /\ pc[s] = "create_plan" /\ subs'[s] = copy[s]

(* A copy stays with the customer of its subscription, and was taken of a row
   that was not canceled, or that was due. *)
CopyInv ==
  /\ \A c \in Calls : pc[c] = "sub_read" =>
       /\ copy[c].customer = subs[req[c].sub].customer
       /\ copy[c].status # "canceled"
  /\ \A w \in Workers : \A e \in batch[w] :
       /\ e.row.customer = subs[e.sub].customer
       /\ e.row.status \in {"active", "past_due"}
       /\ ~e.row.cancelAtEnd

(* The row a renewal of such a copy writes. *)
LEMMA RenewedRow ==
  ASSUME NEW n \in Nat, NEW row, Good(row, n), ~row.cancelAtEnd, Renewable(row)
  PROVE  /\ Renewed(row).customer = row.customer
         /\ Renewed(row).start = row.end /\ Renewed(row).end > row.end
         /\ Renewed(row).status = "active"
<1> DEFINE next == row.end + Terms[row.plan].period
<1>1. row \in SubRow /\ row.plan \in Plans /\ row.end \in Nat
  BY DEF Good, SubRow
<1>2. Terms[row.plan].period \in Nat /\ Terms[row.plan].period > 0
  BY <1>1, TermsAssumption
<1>3. row.end < next
  BY <1>1, <1>2
<1>4. Renewed(row) = Activate(ExtendPeriod(row, next))
  BY DEF Renewed
<1> HIDE DEF next
<1>5. /\ Activate(ExtendPeriod(row, next)).customer = row.customer
      /\ Activate(ExtendPeriod(row, next)).start = row.end
      /\ Activate(ExtendPeriod(row, next)).end = next
      /\ Activate(ExtendPeriod(row, next)).status = "active"
  BY <1>1 DEF Activate, ExtendPeriod, SubRow
<1>6. QED
  BY <1>3, <1>4, <1>5

(* The write of a call: a copy that is the row still was not canceled, and no
   request moves a period. *)
LEMMA SubWriteRows ==
  ASSUME IInv, CopyInv, NEW c \in Calls, SubWrite(c)
  PROVE  \A s \in Calls : subs'[s] = subs[s] \/ Rewrites(s)
<1>0. TypeOK /\ now \in Nat
  BY DEF IInv, TypeOK
<1> DEFINE row == Changed(req[c], copy[c])
<1>1. PICK t : t = req[c].sub
  OBVIOUS
<1>2. /\ pc[c] = "sub_read" /\ pc'[c] = "done" /\ UpdateRow(t, row)
      /\ req[c] \in SubRequest /\ Exists(t) /\ Good(copy[c], now) /\ t \in Calls
  BY <1>0, <1>1 DEF SubWrite, IInv, CallInv, SubRequest, Goto, TypeOK
<1>3. /\ Good(row, now) /\ row.customer = copy[c].customer
      /\ row.start = copy[c].start /\ row.end = copy[c].end
  BY <1>0, <1>2, ChangedGood
<1>4. copy[c].customer = subs[t].customer /\ copy[c].status # "canceled"
  BY <1>1, <1>2 DEF CopyInv
<1> HIDE DEF row
<1>5. subs'[t] = row /\ \A s \in Calls \ {t} : subs'[s] = subs[s]
  BY <1>0, <1>2 DEF UpdateRow, TypeOK
<1>6. Exists(t)'
  BY <1>3, <1>5, RowStatus DEF Exists, Good
<1>7. row.status \in Living => subs[t].status \in Living \/ t \in revived'
  BY <1>2 DEF UpdateRow
<1>8. copy[c] # subs[t] => OvertakenWrite(t)
  BY <1>1, <1>2 DEF OvertakenWrite
<1>9. Rewrites(t)
  BY <1>2, <1>3, <1>4, <1>5, <1>6, <1>7, <1>8 DEF Rewrites
<1>10. QED
  BY <1>5, <1>9

(* The write of a worker: a copy that is the row still is followed by the next
   period. *)
LEMMA ProcessRows ==
  ASSUME IInv, CopyInv, NEW w \in Workers, Process(w)
  PROVE  \A s \in Calls : subs'[s] = subs[s] \/ Rewrites(s)
<1>0. TypeOK /\ now \in Nat
  BY DEF IInv, TypeOK
<1>1. PICK e \in batch[w] :
        /\ batch' = [batch EXCEPT ![w] = @ \ {e}]
        /\ IF Renewable(e.row) THEN UpdateRow(e.sub, Renewed(e.row)) ELSE UNCHANGED <<subs, revived>>
  BY DEF Process
<1>2. e.sub \in Calls /\ Exists(e.sub) /\ Good(e.row, now) /\ e.row.end <= now
  BY <1>0 DEF IInv, TypeOK, BatchInv
<1>3. /\ e.row.customer = subs[e.sub].customer
      /\ e.row.status \in {"active", "past_due"} /\ ~e.row.cancelAtEnd
  BY DEF CopyInv
<1>4. CASE ~Renewable(e.row)
  BY <1>1, <1>4
<1>5. CASE Renewable(e.row)
  <2> DEFINE row == Renewed(e.row)
  <2>1. /\ Good(row, now) /\ row.customer = e.row.customer
        /\ row.start = e.row.end /\ row.end > e.row.end
    BY <1>0, <1>2, <1>3, <1>5, RenewedGood, RenewedRow
  <2> HIDE DEF row
  <2>2. UpdateRow(e.sub, row)
    BY <1>1, <1>5 DEF row
  <2>3. subs'[e.sub] = row /\ \A s \in Calls \ {e.sub} : subs'[s] = subs[s]
    BY <1>0, <1>2, <2>2 DEF UpdateRow, TypeOK
  <2>4. Exists(e.sub)'
    BY <2>1, <2>3, RowStatus DEF Exists, Good
  <2>5. row.status \in Living => subs[e.sub].status \in Living \/ e.sub \in revived'
    BY <2>2 DEF UpdateRow
  <2>6. e \in batch[w] \ batch'[w]
    BY <1>0, <1>1 DEF TypeOK
  <2>7. e.row # subs[e.sub] => OvertakenWrite(e.sub)
    BY <2>6 DEF OvertakenWrite
  <2>8. Rewrites(e.sub)
    BY <1>2, <1>3, <2>1, <2>3, <2>4, <2>5, <2>7 DEF Rewrites
  <2>9. QED
    BY <2>3, <2>8
<1>6. QED
  BY <1>4, <1>5

(* A subscription that becomes past due stays what it was. *)
LEMMA PastDueRows ==
  ASSUME IInv, NEW t \in Calls, PastDue(t)
  PROVE  \A s \in Calls : subs'[s] = subs[s] \/ Rewrites(s)
<1>0. TypeOK
  BY DEF IInv
<1>1. /\ subs[t].status = "active" /\ subs'[t] = MarkPastDue(subs[t])
      /\ \A s \in Calls \ {t} : subs'[s] = subs[s]
  BY <1>0 DEF PastDue, CanMarkPastDue, TypeOK
<1>2. Exists(t) /\ subs[t] \in SubRow
  BY <1>0, <1>1, RowExists DEF Exists
<1>3. /\ subs'[t].status = "past_due" /\ subs'[t].customer = subs[t].customer
      /\ subs'[t].start = subs[t].start /\ subs'[t].end = subs[t].end
  BY <1>1, <1>2 DEF MarkPastDue, SubRow
<1>4. Rewrites(t)
  BY <1>1, <1>2, <1>3 DEF Rewrites, Exists, Living
<1>5. QED
  BY <1>1, <1>4

(* A creation adds the row it built. *)
LEMMA CreateRows ==
  ASSUME IInv, NEW c \in Calls, CreateCommit(c)
  PROVE  \A s \in Calls : subs'[s] = subs[s] \/ (s = c /\ Creates(s) /\ pc'[c] = "done")
<1>0. TypeOK
  BY DEF IInv
<1>1. pc[c] = "create_plan" /\ ~Exists(c)
  BY DEF CreateCommit, IInv, SubInv
<1>2. subs' = subs \/ (subs' = [subs EXCEPT ![c] = copy[c]] /\ pc' = [pc EXCEPT ![c] = "done"])
  BY DEF CreateCommit, InsertSubscription, Goto
<1>3. QED
  BY <1>0, <1>1, <1>2 DEF TypeOK, Creates

(* Nothing else touches a row. *)
LEMMA RowsOfStep ==
  ASSUME IInv, CopyInv, [Next]_vars
  PROVE  \A s \in Calls : subs'[s] = subs[s] \/ Rewrites(s) \/ Creates(s)
<1>1. CASE subs' = subs
  BY <1>1
<1>2. CASE subs' # subs
  <2>1. \/ \E c \in Calls : SubWrite(c) \/ CreateCommit(c) \/ PastDue(c)
        \/ \E w \in Workers : Process(w)
    BY <1>2 DEF Next, Rest, vars, callVars, Arrive, Step, CreateRead, CancelRead, PlanRead,
       CustomerRead, DeleteCheck, CreatePlan, DeleteRead, CustomerWrite, Abort, Poll, WorkerAbort,
       ArchivePlan, Tick
  <2>2. QED
    BY <2>1, SubWriteRows, CreateRows, PastDueRows, ProcessRows
<1>3. QED
  BY <1>1, <1>2

(* A subscription stays that of its customer. *)
LEMMA CustomerKept ==
  ASSUME IInv, CopyInv, [Next]_vars, NEW s \in Calls, Exists(s)
  PROVE  Exists(s)' /\ subs'[s].customer = subs[s].customer
BY RowsOfStep DEF Rewrites, Creates, Exists

-----------------------------------------------------------------------------
(* Who moves in a step *)

Stays(c) == pc'[c] = pc[c] /\ req'[c] = req[c] /\ copy'[c] = copy[c]

LEMMA CallsOfStep ==
  ASSUME TypeOK, [Next]_vars
  PROVE  \A c \in Calls : Stays(c) \/ Arrive(c) \/ Step(c) \/ Abort(c)
<1>1. ASSUME NEW c \in Calls, Arrive(c) \/ Step(c) \/ Abort(c)
      PROVE  \A d \in Calls \ {c} : Stays(d)
  <2>1. CASE Arrive(c)
    BY <2>1 DEF Stays, TypeOK, Arrive, CreateRead, CancelRead, PlanRead, CustomerRead, DeleteCheck,
       Begin, Hold, Goto
  <2>2. CASE Step(c)
    BY <2>2 DEF Stays, TypeOK, Step, CreatePlan, CreateCommit, SubWrite, DeleteRead, CustomerWrite,
       Hold, Goto
  <2>3. CASE Abort(c)
    BY <2>3 DEF Stays, TypeOK, Abort, Goto
  <2>4. QED
    BY <1>1, <2>1, <2>2, <2>3
<1>2. ASSUME UNCHANGED <<pc, req, copy>>
      PROVE  \A c \in Calls : Stays(c)
  BY <1>2 DEF Stays
<1>3. \/ \E c \in Calls : Arrive(c) \/ Step(c) \/ Abort(c)
      \/ UNCHANGED <<pc, req, copy>>
  BY DEF Next, Rest, vars, callVars, PastDue, Poll, Process, WorkerAbort, ArchivePlan, Tick
<1>4. QED
  BY <1>1, <1>2, <1>3

LEMMA BatchesOfStep ==
  ASSUME TypeOK, [Next]_vars
  PROVE  \A w \in Workers : batch'[w] \subseteq batch[w] \/ Poll(w)
<1>1. CASE batch' = batch
  BY <1>1
<1>2. CASE batch' # batch
  <2>1. \E w \in Workers : Poll(w) \/ Process(w) \/ WorkerAbort(w)
    BY <1>2 DEF Next, Rest, vars, callVars, Arrive, Step, CreateRead, CancelRead, PlanRead,
       CustomerRead, DeleteCheck, CreatePlan, CreateCommit, SubWrite, DeleteRead, CustomerWrite,
       Abort, PastDue, ArchivePlan, Tick
  <2>2. QED
    BY <2>1 DEF TypeOK, Poll, Process, WorkerAbort
<1>3. QED
  BY <1>1, <1>2

(* Where a call gets by its first read, and by its later ones. *)
LEMMA WhereTo ==
  ASSUME TypeOK, NEW c \in Calls
  PROVE  /\ Arrive(c) =>
              \/ pc'[c] = "failed"
              \/ pc'[c] = "create_customer" /\ \E x \in Customers, p \in Plans : CreateRead(c, x, p)
              \/ pc'[c] = "sub_read" /\ \E s \in Calls, atEnd \in BOOLEAN : CancelRead(c, s, atEnd)
              \/ pc'[c] = "sub_read" /\ \E s \in Calls, p \in Plans : PlanRead(c, s, p)
              \/ /\ pc'[c] = "customer_read"
                 /\ \E x \in Customers, op \in {"update", "suspend", "reactivate"} :
                      CustomerRead(c, op, x)
              \/ pc'[c] = "delete_checked" /\ \E x \in Customers : DeleteCheck(c, x)
         /\ Step(c) \/ Abort(c) =>
              \/ pc'[c] \in Ended
              \/ pc'[c] = "create_plan" /\ CreatePlan(c)
              \/ pc'[c] = "customer_read" /\ DeleteRead(c)
<1>1. Arrive(c) =>
        \/ pc'[c] = "failed"
        \/ pc'[c] = "create_customer" /\ \E x \in Customers, p \in Plans : CreateRead(c, x, p)
        \/ pc'[c] = "sub_read" /\ \E s \in Calls, atEnd \in BOOLEAN : CancelRead(c, s, atEnd)
        \/ pc'[c] = "sub_read" /\ \E s \in Calls, p \in Plans : PlanRead(c, s, p)
        \/ /\ pc'[c] = "customer_read"
           /\ \E x \in Customers, op \in {"update", "suspend", "reactivate"} : CustomerRead(c, op, x)
        \/ pc'[c] = "delete_checked" /\ \E x \in Customers : DeleteCheck(c, x)
  BY DEF TypeOK, Arrive, CreateRead, CancelRead, PlanRead, CustomerRead, DeleteCheck, Begin, Goto
<1>2. Step(c) \/ Abort(c) =>
        \/ pc'[c] \in Ended
        \/ pc'[c] = "create_plan" /\ CreatePlan(c)
        \/ pc'[c] = "customer_read" /\ DeleteRead(c)
  BY DEF TypeOK, Step, Abort, CreatePlan, CreateCommit, SubWrite, DeleteRead, CustomerWrite, Goto,
     Ended
<1>3. QED
  BY <1>1, <1>2

-----------------------------------------------------------------------------
(* Canceled subscriptions and periods *)

LEMMA InitCopy == Init => CopyInv
BY DEF Init, CopyInv

LEMMA CopyStep ==
  ASSUME IInv, CopyInv, [Next]_vars
  PROVE  CopyInv'
<1>0. TypeOK
  BY DEF IInv
<1>1. ASSUME NEW c \in Calls, pc'[c] = "sub_read", NEW t, t = req'[c].sub
      PROVE  copy'[c].customer = subs'[t].customer /\ copy'[c].status # "canceled"
  <2>1. \/ Stays(c)
        \/ \E s \in Calls, atEnd \in BOOLEAN : CancelRead(c, s, atEnd)
        \/ \E s \in Calls, p \in Plans : PlanRead(c, s, p)
    BY <1>0, <1>1, CallsOfStep, WhereTo DEF Ended
  <2>2. CASE Stays(c)
    <3>1. pc[c] = "sub_read" /\ t = req[c].sub /\ copy'[c] = copy[c]
      BY <1>1, <2>2 DEF Stays
    <3>2. t \in Calls /\ Exists(t)
      BY <3>1 DEF IInv, CallInv, SubRequest
    <3>3. subs'[t].customer = subs[t].customer
      BY <3>2, CustomerKept
    <3>4. QED
      BY <3>1, <3>3 DEF CopyInv
  <2>3. ASSUME NEW s \in Calls, NEW r, NEW ok, r.sub = s, UNCHANGED subs, ok => subs[s].status # "canceled",
               Begin(c, r, ok, "sub_read"), Hold(c, ok, subs[s])
        PROVE  copy'[c].customer = subs'[t].customer /\ copy'[c].status # "canceled"
    <3>1. ok /\ t = s
      BY <1>0, <1>1, <2>3 DEF Begin, Goto, TypeOK
    <3>2. copy'[c] = subs[s]
      BY <1>0, <2>3, <3>1 DEF Hold, TypeOK
    <3>3. QED
      BY <2>3, <3>1, <3>2
  <2>4. ASSUME NEW s \in Calls, NEW atEnd \in BOOLEAN, CancelRead(c, s, atEnd)
        PROVE  copy'[c].customer = subs'[t].customer /\ copy'[c].status # "canceled"
    <3> DEFINE r == [op |-> "cancel", sub |-> s, atEnd |-> atEnd]
               ok == ~IsCanceled(subs[s]) /\ (atEnd => CanScheduleCancellation(subs[s]))
    <3>1. r.sub = s /\ UNCHANGED subs /\ Begin(c, r, ok, "sub_read") /\ Hold(c, ok, subs[s])
      BY <2>4 DEF CancelRead
    <3>2. ok => subs[s].status # "canceled"
      BY DEF IsCanceled
    <3> HIDE DEF r, ok
    <3>3. QED
      BY <2>3, <3>1, <3>2
  <2>5. ASSUME NEW s \in Calls, NEW p \in Plans, PlanRead(c, s, p)
        PROVE  copy'[c].customer = subs'[t].customer /\ copy'[c].status # "canceled"
    <3> DEFINE r == [op |-> "update_plan", sub |-> s, plan |-> p]
               ok == /\ CanBeModified(subs[s])
                     /\ PlanActive(p)
                     /\ Terms[p].currency = Terms[subs[s].plan].currency
    <3>1. r.sub = s /\ UNCHANGED subs /\ Begin(c, r, ok, "sub_read") /\ Hold(c, ok, subs[s])
      BY <2>5 DEF PlanRead
    <3>2. ok => subs[s].status # "canceled"
      BY DEF CanBeModified
    <3> HIDE DEF r, ok
    <3>3. QED
      BY <2>3, <3>1, <3>2
  <2>6. QED
    BY <2>1, <2>2, <2>4, <2>5
<1>2. ASSUME NEW w \in Workers, NEW e \in batch'[w]
      PROVE  /\ e.row.customer = subs'[e.sub].customer
             /\ e.row.status \in {"active", "past_due"}
             /\ ~e.row.cancelAtEnd
  <2>1. CASE e \in batch[w]
    <3>1. e.sub \in Calls /\ Exists(e.sub)
      BY <1>0, <2>1 DEF IInv, TypeOK, BatchInv
    <3>2. subs'[e.sub].customer = subs[e.sub].customer
      BY <3>1, CustomerKept
    <3>3. QED
      BY <2>1, <3>2 DEF CopyInv
  <2>2. CASE e \notin batch[w]
    <3>1. Poll(w)
      BY <1>0, <1>2, <2>2, BatchesOfStep
    <3>2. PICK taken \in SUBSET DueForRenewal :
            batch' = [batch EXCEPT ![w] = {[sub |-> s, row |-> subs[s]] : s \in taken}]
      BY <3>1 DEF Poll
    <3>3. PICK s \in taken : e = [sub |-> s, row |-> subs[s]]
      BY <1>0, <1>2, <3>2 DEF TypeOK
    <3>4. e.sub = s /\ e.row = subs[s] /\ UNCHANGED subs
      BY <3>1, <3>3 DEF Poll
    <3>5. QED
      BY <3>2, <3>3, <3>4 DEF DueForRenewal
  <2>3. QED
    BY <2>1, <2>2
<1>3. QED
  BY <1>1, <1>2 DEF CopyInv

(* Copies stay with the customer of their subscription. *)
THEOREM CopiesAreOwn == Spec => []CopyInv
BY InitCopy, CopyStep, Invariance, PTL DEF Spec

(* However calls and workers overlap, a canceled subscription is written only
   from a copy that was overtaken. *)
THEOREM CanceledStaysFinal == Spec => CanceledIsFinal
<1> DEFINE Final == \A s \in Calls :
             subs[s].status = "canceled" => subs'[s] = subs[s] \/ OvertakenWrite(s)
<1>1. IInv /\ CopyInv /\ [Next]_vars => [Final]_vars
  <2> SUFFICES ASSUME IInv, CopyInv, [Next]_vars PROVE Final
    OBVIOUS
  <2>1. QED
    BY RowsOfStep DEF Rewrites, Creates, Exists
<1>2. QED
  BY <1>1, Invariance, CopiesAreOwn, PTL DEF Spec, CanceledIsFinal

(* However many workers hold copies of one subscription, its periods follow each
   other but for the writes of copies that were overtaken. *)
THEOREM PeriodsFollow == Spec => PeriodsContiguous
<1> DEFINE Contiguous ==
      \A s \in Calls :
        Exists(s) /\ <<subs'[s].start, subs'[s].end>> # <<subs[s].start, subs[s].end>>
        => \/ subs'[s].start = subs[s].end /\ subs'[s].end > subs[s].end
           \/ OvertakenWrite(s)
<1>1. IInv /\ CopyInv /\ [Next]_vars => [Contiguous]_vars
  <2> SUFFICES ASSUME IInv, CopyInv, [Next]_vars PROVE Contiguous
    OBVIOUS
  <2>1. QED
    BY RowsOfStep DEF Rewrites, Creates
<1>2. QED
  BY <1>1, Invariance, CopiesAreOwn, PTL DEF Spec, PeriodsContiguous

-----------------------------------------------------------------------------
(* Deletions and the subscriptions they leave *)

Creating(c) == pc[c] \in {"create_customer", "create_plan"}
Deleting(d) == pc[d] \in {"delete_checked", "customer_read"} /\ req[d].op = "delete"

(* What a call of either kind holds, and what a creation for a deleted customer
   has met. *)
RoleInv(c) ==
  /\ pc[c] = "create_plan" => copy[c].customer = req[c].customer
  /\ pc[c] = "delete_checked" => req[c].op = "delete"
  /\ pc[c] = "customer_read" /\ copy[c].status = "deleted" => req[c].op = "delete"
  /\ Creating(c) /\ customers[req[c].customer].status = "deleted" => c \in met

(* A creation and a deletion under way have met, and what is alive although the
   deletion found nothing alive has met it or came back to life. *)
RaceInv ==
  /\ \A c \in Calls : RoleInv(c)
  /\ \A c, d \in Calls :
       Creating(c) /\ Deleting(d) /\ req[c].customer = req[d].customer => c \in met
  /\ \A d, s \in Calls :
       /\ Deleting(d) /\ Exists(s)
       /\ subs[s].customer = req[d].customer /\ subs[s].status \in Living
       => s \in met \cup revived
  /\ DeletedHasNoSubscriptions

LEMMA InitRace == Init => RaceInv
BY DEF Init, RaceInv, RoleInv, Creating, Deleting, DeletedHasNoSubscriptions, Exists, NoSub

(* The records only grow. *)
LEMMA HistoryGrows ==
  ASSUME [Next]_vars
  PROVE  met \subseteq met' /\ revived \subseteq revived'
<1>1. ASSUME NEW c \in Calls, Arrive(c)
      PROVE  met \subseteq met' /\ revived \subseteq revived'
  BY <1>1 DEF Arrive, CreateRead, CancelRead, PlanRead, CustomerRead, DeleteCheck
<1>2. ASSUME NEW c \in Calls, Step(c) \/ Abort(c) \/ PastDue(c)
      PROVE  met \subseteq met' /\ revived \subseteq revived'
  BY <1>2 DEF Step, CreatePlan, CreateCommit, SubWrite, DeleteRead, CustomerWrite, UpdateRow, Abort, PastDue
<1>3. ASSUME NEW w \in Workers, Poll(w) \/ Process(w) \/ WorkerAbort(w)
      PROVE  met \subseteq met' /\ revived \subseteq revived'
  BY <1>3 DEF Poll, Process, UpdateRow, WorkerAbort
<1>4. QED
  BY <1>1, <1>2, <1>3 DEF Next, Rest, vars, ArchivePlan, Tick

(* A creation under way was, or begins now. *)
LEMMA CreatingBefore ==
  ASSUME IInv, [Next]_vars, NEW c \in Calls, Creating(c)'
  PROVE  \/ Creating(c) /\ req'[c] = req[c]
         \/ \E x \in Customers, p \in Plans :
              CreateRead(c, x, p) /\ CustomerActive(x) /\ req'[c].customer = x
<1>0. TypeOK
  BY DEF IInv
<1>1. \/ Stays(c)
      \/ pc'[c] = "create_customer" /\ \E x \in Customers, p \in Plans : CreateRead(c, x, p)
      \/ CreatePlan(c)
  BY <1>0, CallsOfStep, WhereTo DEF Creating, Ended
<1>2. CASE Stays(c)
  BY <1>2 DEF Stays, Creating
<1>3. ASSUME pc'[c] = "create_customer", NEW x \in Customers, NEW p \in Plans, CreateRead(c, x, p)
      PROVE  CustomerActive(x) /\ req'[c].customer = x
  BY <1>0, <1>3 DEF CreateRead, Begin, Goto, TypeOK
<1>4. CASE CreatePlan(c)
  BY <1>4 DEF CreatePlan, Creating
<1>5. QED
  BY <1>1, <1>2, <1>3, <1>4

(* A deletion under way was, or finds no living subscription now. *)
LEMMA DeletingBefore ==
  ASSUME IInv, RaceInv, [Next]_vars, NEW d \in Calls, Deleting(d)'
  PROVE  \/ Deleting(d) /\ req'[d] = req[d]
         \/ \E x \in Customers :
              DeleteCheck(d, x) /\ ~HasActiveSubscriptions(x) /\ req'[d].customer = x
<1>0. TypeOK
  BY DEF IInv
<1>1. \/ Stays(d)
      \/ \E x \in Customers, op \in {"update", "suspend", "reactivate"} : CustomerRead(d, op, x)
      \/ pc'[d] = "delete_checked" /\ \E x \in Customers : DeleteCheck(d, x)
      \/ DeleteRead(d)
  BY <1>0, CallsOfStep, WhereTo DEF Deleting, Ended
<1>2. CASE Stays(d)
  BY <1>2 DEF Stays, Deleting
<1>3. ASSUME NEW x \in Customers, NEW op \in {"update", "suspend", "reactivate"}, CustomerRead(d, op, x)
      PROVE  FALSE
  BY <1>0, <1>3 DEF CustomerRead, Begin, TypeOK, Deleting
<1>4. ASSUME pc'[d] = "delete_checked", NEW x \in Customers, DeleteCheck(d, x)
      PROVE  ~HasActiveSubscriptions(x) /\ req'[d].customer = x
  BY <1>0, <1>4 DEF DeleteCheck, Begin, Goto, TypeOK
<1>5. CASE DeleteRead(d)
  BY <1>5 DEF DeleteRead, Deleting, RaceInv, RoleInv
<1>6. QED
  BY <1>1, <1>2, <1>3, <1>4, <1>5

(* A customer that is deleted was, or is by a deletion under way. *)
LEMMA CustomersOfStep ==
  ASSUME IInv, RaceInv, [Next]_vars, NEW x \in Customers, customers'[x].status = "deleted"
  PROVE  \/ customers[x].status = "deleted"
         \/ \E d \in Calls : Deleting(d) /\ req[d].customer = x
<1>0. TypeOK
  BY DEF IInv
<1>1. CASE customers' = customers
  BY <1>1
<1>2. CASE customers' # customers
  <2>1. PICK d \in Calls : CustomerWrite(d)
    BY <1>2 DEF Next, Rest, vars, callVars, Arrive, Step, CreateRead, CancelRead, PlanRead, CustomerRead,
       DeleteCheck, CreatePlan, CreateCommit, SubWrite, DeleteRead, Abort, PastDue, Poll,
       Process, WorkerAbort, ArchivePlan, Tick
  <2>2. PICK y : y = req[d].customer
    OBVIOUS
  <2>3. /\ pc[d] = "customer_read"
        /\ customers' = [customers EXCEPT ![y] = [copy[d] EXCEPT !.version = @ + 1]]
    BY <1>2, <2>1, <2>2 DEF CustomerWrite
  <2>4. copy[d] \in CustomerRow
    BY <2>3 DEF IInv, CallInv, HoldsCustomer
  <2>5. x # y => customers'[x] = customers[x]
    BY <1>0, <2>3 DEF TypeOK
  <2>6. x = y => copy[d].status = "deleted"
    BY <1>0, <2>3, <2>4 DEF TypeOK, CustomerRow
  <2>7. copy[d].status = "deleted" => Deleting(d)
    BY <2>3 DEF RaceInv, RoleInv, Deleting
  <2>8. QED
    BY <2>2, <2>5, <2>6, <2>7
<1>3. QED
  BY <1>1, <1>2

(* A creation under way for a deleted customer has met the deletion. *)
LEMMA CreatingMet ==
  ASSUME IInv, RaceInv, [Next]_vars, NEW c \in Calls, Creating(c), NEW x \in Customers, x = req[c].customer,
         customers'[x].status = "deleted"
  PROVE  c \in met
BY CustomersOfStep DEF RaceInv, RoleInv

(* What is alive after a step was alive, came back to life, or was being created. *)
LEMMA LivingBefore ==
  ASSUME IInv, CopyInv, RaceInv, [Next]_vars, NEW s \in Calls, Exists(s)', subs'[s].status \in Living
  PROVE  \/ Exists(s) /\ subs'[s].customer = subs[s].customer /\ subs[s].status \in Living
         \/ s \in revived'
         \/ Creating(s) /\ subs'[s].customer = req[s].customer
<1>1. CASE subs'[s] = subs[s]
  BY <1>1 DEF Exists
<1>2. CASE Rewrites(s)
  BY <1>2 DEF Rewrites
<1>3. CASE Creates(s)
  BY <1>3 DEF Creates, Creating, RaceInv, RoleInv
<1>4. QED
  BY <1>1, <1>2, <1>3, RowsOfStep

LEMMA RaceStep ==
  ASSUME IInv, IInv', CopyInv, RaceInv, [Next]_vars
  PROVE  RaceInv'
<1>0. TypeOK /\ TypeOK' /\ met \subseteq met' /\ revived \subseteq revived'
  BY HistoryGrows DEF IInv
<1>1. ASSUME NEW c \in Calls, Creating(c)
      PROVE  req[c].customer \in Customers /\ c \in Busy /\ req[c].op = "create"
  BY <1>1 DEF Creating, IInv, CallInv, CreateRequest, Busy, Ended
<1>2. ASSUME NEW d \in Calls, Deleting(d)
      PROVE  req[d].customer \in Customers /\ d \in Busy
  BY <1>2 DEF Deleting, IInv, CallInv, CustomerRequest, Busy, Ended
<1>3. ASSUME NEW c \in Calls, Creating(c)', NEW x, x = req'[c].customer, customers'[x].status = "deleted"
      PROVE  c \in met'
  <2>1. CASE Creating(c) /\ req'[c] = req[c]
    BY <1>0, <1>1, <1>3, <2>1, CreatingMet
  <2>2. ASSUME NEW y \in Customers, NEW p \in Plans, CreateRead(c, y, p), CustomerActive(y),
               req'[c].customer = y
        PROVE  FALSE
    BY <1>3, <2>2 DEF CreateRead, CustomerActive
  <2>3. QED
    BY <1>3, <2>1, <2>2, CreatingBefore
<1>4. ASSUME NEW c \in Calls
      PROVE  /\ pc'[c] = "create_plan" => copy'[c].customer = req'[c].customer
             /\ pc'[c] = "delete_checked" => req'[c].op = "delete"
             /\ pc'[c] = "customer_read" /\ copy'[c].status = "deleted" => req'[c].op = "delete"
  <2>1. CASE Stays(c)
    BY <2>1 DEF Stays, RaceInv, RoleInv
  <2>2. ASSUME CreatePlan(c), pc'[c] = "create_plan"
        PROVE  copy'[c].customer = req'[c].customer
    BY <1>0, <2>2 DEF CreatePlan, Hold, Goto, NewSubscription, TypeOK
  <2>3. ASSUME DeleteRead(c)
        PROVE  req'[c].op = "delete"
    BY <2>3 DEF DeleteRead, RaceInv, RoleInv
  <2>4. ASSUME NEW x \in Customers, DeleteCheck(c, x)
        PROVE  req'[c].op = "delete"
    BY <1>0, <2>4 DEF DeleteCheck, Begin, TypeOK
  <2>5. ASSUME NEW x \in Customers, NEW op \in {"update", "suspend", "reactivate"}, CustomerRead(c, op, x),
               pc'[c] = "customer_read"
        PROVE  copy'[c].status # "deleted"
    <3>1. customers[x] \in CustomerRow
      BY <1>0 DEF TypeOK
    <3>2. customers[x].status \in Accepts(op)
      BY <1>0, <2>5 DEF CustomerRead, Begin, Goto, TypeOK
    <3>3. copy'[c] = [customers[x] EXCEPT !.status = After(op, customers[x].status)]
      BY <1>0, <2>5, <3>2 DEF CustomerRead, Hold, TypeOK
    <3>4. QED
      BY <3>1, <3>2, <3>3 DEF CustomerRow, Accepts, After
  <2>6. QED
    BY <1>0, <2>1, <2>2, <2>3, <2>4, <2>5, CallsOfStep, WhereTo DEF Ended
<1>5. ASSUME NEW c \in Calls, NEW d \in Calls, Creating(c)', Deleting(d)', req'[c].customer = req'[d].customer
      PROVE  c \in met'
  <2>1. CASE Creating(c) /\ req'[c] = req[c] /\ Deleting(d) /\ req'[d] = req[d]
    BY <1>0, <1>5, <2>1 DEF RaceInv
  <2>2. ASSUME NEW x \in Customers, NEW p \in Plans, CreateRead(c, x, p), CustomerActive(x),
               req'[c].customer = x, Deleting(d), req'[d] = req[d]
        PROVE  c \in met'
    <3>1. d \in On(x, "delete")
      BY <1>2, <1>5, <2>2 DEF On, Deleting
    <3>2. QED
      BY <2>2, <3>1 DEF CreateRead
  <2>3. ASSUME NEW x \in Customers, DeleteCheck(d, x), ~HasActiveSubscriptions(x), req'[d].customer = x,
               Creating(c), req'[c] = req[c]
        PROVE  c \in met'
    <3>1. c \in On(x, "create")
      BY <1>1, <1>5, <2>3 DEF On
    <3>2. QED
      BY <2>3, <3>1 DEF DeleteCheck
  <2>4. ASSUME NEW x \in Customers, NEW p \in Plans, CreateRead(c, x, p), NEW y \in Customers, DeleteCheck(d, y)
        PROVE  FALSE
    BY <1>0, <1>5, <2>4 DEF CreateRead, DeleteCheck, Begin, Goto, TypeOK, Creating, Deleting
  <2>5. QED
    BY <1>5, <2>1, <2>2, <2>3, <2>4, CreatingBefore, DeletingBefore
<1>6. ASSUME NEW d \in Calls, NEW s \in Calls, Deleting(d)', Exists(s)',
             subs'[s].customer = req'[d].customer, subs'[s].status \in Living
      PROVE  s \in met' \cup revived'
  <2>1. CASE Deleting(d) /\ req'[d] = req[d]
    BY <1>0, <1>6, <2>1, LivingBefore DEF RaceInv
  <2>2. ASSUME NEW x \in Customers, DeleteCheck(d, x), ~HasActiveSubscriptions(x), req'[d].customer = x
        PROVE  FALSE
    BY <1>6, <2>2 DEF DeleteCheck, HasActiveSubscriptions, Exists
  <2>3. QED
    BY <1>6, <2>1, <2>2, DeletingBefore
<1>7. ASSUME NEW s \in Calls, Exists(s)', NEW x, x = subs'[s].customer, customers'[x].status = "deleted",
             subs'[s].status \in Living
      PROVE  s \in met' \cup revived'
  <2>1. CASE Exists(s) /\ subs'[s].customer = subs[s].customer /\ subs[s].status \in Living
    <3>1. x \in Customers
      BY <1>0, <1>7, <2>1, RowExists DEF SubRow
    <3>2. \/ customers[x].status = "deleted"
          \/ \E d \in Calls : Deleting(d) /\ req[d].customer = x
      BY <1>7, <3>1, CustomersOfStep
    <3>3. QED
      BY <1>0, <1>7, <2>1, <3>2 DEF RaceInv, DeletedHasNoSubscriptions
  <2>2. CASE Creating(s) /\ subs'[s].customer = req[s].customer
    BY <1>0, <1>1, <1>7, <2>2, CreatingMet
  <2>3. QED
    BY <1>7, <2>1, <2>2, LivingBefore
<1>8. \A c \in Calls : RoleInv(c)'
  BY <1>3, <1>4 DEF RoleInv, Creating
<1>9. DeletedHasNoSubscriptions'
  BY <1>7 DEF DeletedHasNoSubscriptions
<1>10. QED
  BY <1>5, <1>6, <1>8, <1>9 DEF RaceInv, Creating, Deleting, Exists

(* However calls overlap, a deleted customer is left only with subscriptions
   whose creation overlapped a deletion or that a write brought back to life. *)
THEOREM DeletedHasNone == Spec => []DeletedHasNoSubscriptions
<1>1. IInv /\ IInv' /\ CopyInv /\ RaceInv /\ [Next]_vars => RaceInv'
  BY RaceStep
<1>2. RaceInv => DeletedHasNoSubscriptions
  BY DEF RaceInv
<1>3. QED
  BY <1>1, <1>2, InitRace, Invariance, CopiesAreOwn, PTL DEF Spec
=============================================================================

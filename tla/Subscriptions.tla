--------------------------- MODULE Subscriptions ---------------------------
(***************************************************************************)
(* The subscription life cycle: subscription.Service (Create, Cancel,      *)
(* UpdatePlan), the RenewalWorker of every server instance, and the        *)
(* customer.Service operations whose rules depend on subscriptions, over   *)
(* one PostgreSQL database (READ COMMITTED).                               *)
(*                                                                         *)
(* A call is one service call of one request.  It reads rows, decides on   *)
(* copies and writes whole rows back.  A customer is written back only if  *)
(* its version is the one that was read; a subscription is written back    *)
(* whatever happened in between.  A subscription's id is the call that     *)
(* created it.  `met' and `revived' only record what happened; no step     *)
(* reads them.                                                             *)
(***************************************************************************)
EXTENDS Subscription, FiniteSetsExt

CONSTANTS
  Calls,         \* service calls; each runs at most once
  Workers,       \* renewal workers, one per server instance
  Customers,
  Plans,
  Terms,         \* a plan's columns that never change
  BatchSize,     \* rows a renewal worker takes per poll
  Dunning,       \* TRUE: something calls Subscription.MarkPastDue
  Aborts,        \* TRUE: a call or a worker may die
  MaxInFlight,   \* bound: calls and workers busy at the same time
  MaxTime        \* bound: last tick of the clock

\* The table asks for a positive interval and no negative price, but takes any
\* number of trial days.
PlanTerms == [trial : Int, period : Nat \ {0}, amount : Nat, currency : STRING]

ASSUME TermsAssumption ==
  /\ DOMAIN Terms = Plans
  /\ \A p \in Plans : /\ Terms[p].trial \in Int
                      /\ Terms[p].period \in Nat \ {0}
                      /\ Terms[p].amount \in Nat
ASSUME BoundsAssumption == BatchSize \in Nat \ {0} /\ MaxInFlight \in Nat /\ MaxTime \in Nat

VARIABLES
  now,         \* the clock
  customers,   \* customer rows: status and version
  archived,    \* plans with active = FALSE
  subs,        \* committed subscription rows, by the call that created them
  invoices,    \* invoices issued for subscriptions
  pc,          \* where each call is
  req,         \* what each call was asked to do
  copy,        \* the row each call has read or built
  batch,       \* what each renewal worker still has to process
  met,         \* history: creations that overlapped a deletion of their customer
  revived      \* history: subscriptions a write brought back to life

callVars == <<pc, req, copy>>
history == <<met, revived>>
vars == <<now, customers, archived, subs, invoices, callVars, batch, history>>

-----------------------------------------------------------------------------
NoSub == [status |-> "none"]
NoRow == [status |-> "none"]
NoRequest == [op |-> "none"]

Exists(s) == subs[s].status # "none"

Ended == {"done", "failed"}
Busy == {c \in Calls : pc[c] \notin Ended \cup {"idle"}}
Working == {w \in Workers : batch[w] # {}}
HasRoom == Cardinality(Busy) + Cardinality(Working) < MaxInFlight

Init ==
  /\ now = 0
  /\ customers = [x \in Customers |-> [status |-> "active", version |-> 1]]
  /\ archived = {}
  /\ subs = [c \in Calls |-> NoSub]
  /\ invoices = {}
  /\ pc = [c \in Calls |-> "idle"]
  /\ req = [c \in Calls |-> NoRequest]
  /\ copy = [c \in Calls |-> NoRow]
  /\ batch = [w \in Workers |-> {}]
  /\ met = {}
  /\ revived = {}

Goto(c, l) == pc' = [pc EXCEPT ![c] = l]

\* The first read of a call: it becomes busy with request r, or is refused.
Begin(c, r, accepted, l) ==
  /\ pc[c] = "idle"
  /\ HasRoom
  /\ req' = [req EXCEPT ![c] = r]
  /\ Goto(c, IF accepted THEN l ELSE "failed")

\* A refused call holds nothing.
Hold(c, accepted, row) == copy' = [copy EXCEPT ![c] = IF accepted THEN row ELSE @]

CustomerActive(x) == customers[x].status = "active"
PlanActive(p) == p \notin archived

\* The calls in progress for a customer.
On(x, op) == {c \in Busy : req[c].op = op /\ req[c].customer = x}

\* UPDATE subscriptions ... WHERE id: every column of the row.
Living == {"trialing", "active", "past_due"}
UpdateRow(s, row) ==
  /\ subs' = [subs EXCEPT ![s] = row]
  /\ revived' = IF row.status \in Living /\ subs[s].status \notin Living
                THEN revived \cup {s} ELSE revived

\* The inserts of a creation: the row in memory, and the invoice with the
\* number generateInvoice gave it.
InsertSubscription(c) == subs' = [subs EXCEPT ![c] = copy[c]]
InsertInvoice(i) == invoices' = invoices \cup {i}

-----------------------------------------------------------------------------
(* subscription.Service.Create *)

\* The customer is loaded and must be active.
CreateRead(c, x, p) ==
  /\ Begin(c, [op |-> "create", customer |-> x, plan |-> p],
           CustomerActive(x), "create_customer")
  /\ met' = IF CustomerActive(x) /\ On(x, "delete") # {} THEN met \cup {c} ELSE met
  /\ UNCHANGED <<now, customers, archived, subs, invoices, copy, batch, revived>>

\* The plan is loaded and must be active; the clock is read and the row built.
\* A trial is the first period, else the first period is the billing interval.
CreatePlan(c) ==
  LET p == req[c].plan
      trial == Terms[p].trial
      ok == PlanActive(p)
  IN  /\ pc[c] = "create_customer"
      /\ Hold(c, ok, NewSubscription(req[c].customer, p, trial, now,
                       now + IF trial > 0 THEN trial ELSE Terms[p].period))
      /\ Goto(c, IF ok THEN "create_plan" ELSE "failed")
      /\ UNCHANGED <<now, customers, archived, subs, invoices, req, batch, history>>

\* A plan without trial and with a price is billed at once.
Billed(p) == Terms[p].trial = 0 /\ Terms[p].amount > 0

\* The invoice generateInvoice issues: its number is the clock.
FirstInvoice(c) == [sub |-> c, number |-> now, total |-> Terms[req[c].plan].amount]

\* Deviation: an invoice whose number is taken leaves the subscription behind.
CreateCommitPartial(c) ==
  LET bill == Billed(req[c].plan) /\ \A i \in invoices : i.number # now
  IN  /\ pc[c] = "create_plan"
      /\ InsertSubscription(c)
      /\ IF bill THEN InsertInvoice(FirstInvoice(c)) ELSE UNCHANGED invoices
      /\ Goto(c, "done")
      /\ UNCHANGED <<now, customers, archived, req, copy, batch, history>>

\* One transaction inserts the subscription and, if the plan is billed, the
\* finalized invoice.  A number already used rolls both back.
CreateCommit(c) ==
  /\ pc[c] = "create_plan"
  /\ IF Billed(req[c].plan) /\ \E i \in invoices : i.number = now
     THEN Goto(c, "failed") /\ UNCHANGED <<subs, invoices>>
     ELSE /\ InsertSubscription(c)
          /\ IF Billed(req[c].plan) THEN InsertInvoice(FirstInvoice(c)) ELSE UNCHANGED invoices
          /\ Goto(c, "done")
  /\ UNCHANGED <<now, customers, archived, req, copy, batch, history>>

-----------------------------------------------------------------------------
(* subscription.Service.Cancel and UpdatePlan *)

CancelRead(c, s, atEnd) ==
  LET row == subs[s]
      ok == ~IsCanceled(row) /\ (atEnd => CanScheduleCancellation(row))
  IN  /\ Exists(s)
      /\ Begin(c, [op |-> "cancel", sub |-> s, atEnd |-> atEnd], ok, "sub_read")
      /\ Hold(c, ok, row)
      /\ UNCHANGED <<now, customers, archived, subs, invoices, batch, history>>

\* Deviation: the subscription's status is not looked at.
PlanReadAny(c, s, p) ==
  LET row == subs[s]
      ok == PlanActive(p) /\ Terms[p].currency = Terms[row.plan].currency
  IN  /\ Exists(s)
      /\ Begin(c, [op |-> "update_plan", sub |-> s, plan |-> p], ok, "sub_read")
      /\ Hold(c, ok, row)
      /\ UNCHANGED <<now, customers, archived, subs, invoices, batch, history>>

\* The subscription, then the plans: a plan active at the later read was active
\* at the earlier one, so one step stands for the three reads.
PlanRead(c, s, p) ==
  LET row == subs[s]
      ok == /\ CanBeModified(row)
            /\ PlanActive(p)
            /\ Terms[p].currency = Terms[row.plan].currency
  IN  /\ Exists(s)
      /\ Begin(c, [op |-> "update_plan", sub |-> s, plan |-> p], ok, "sub_read")
      /\ Hold(c, ok, row)
      /\ UNCHANGED <<now, customers, archived, subs, invoices, batch, history>>

\* What request r makes of the row that was read for it.
Changed(r, row) ==
  CASE r.op = "update_plan" -> ChangePlan(row, r.plan)
    [] r.op = "cancel" /\ r.atEnd -> ScheduleCancellation(row)
    [] r.op = "cancel" /\ ~r.atEnd -> CancelImmediately(row)

\* The whole row is written, from the copy.
SubWrite(c) ==
  /\ pc[c] = "sub_read"
  /\ UpdateRow(req[c].sub, Changed(req[c], copy[c]))
  /\ Goto(c, "done")
  /\ UNCHANGED <<now, customers, archived, invoices, req, copy, batch, met>>

-----------------------------------------------------------------------------
(* customer.Service: Update, Suspend, Reactivate, Delete *)

\* The statuses an operation accepts, and the status it sets.
Accepts(op) ==
  CASE op = "update"     -> {"active", "suspended"}
    [] op = "suspend"    -> {"active"}
    [] op = "reactivate" -> {"suspended"}
    [] op = "delete"     -> {"active", "suspended"}

After(op, status) ==
  CASE op = "update"     -> status
    [] op = "suspend"    -> "suspended"
    [] op = "reactivate" -> "active"
    [] op = "delete"     -> "deleted"

CustomerRead(c, op, x) ==
  LET row == customers[x]
      ok == row.status \in Accepts(op)
  IN  /\ op \in {"update", "suspend", "reactivate"}
      /\ Begin(c, [op |-> op, customer |-> x], ok, "customer_read")
      /\ Hold(c, ok, [row EXCEPT !.status = After(op, row.status)])
      /\ UNCHANGED <<now, customers, archived, subs, invoices, batch, history>>

\* Deviation: a past-due subscription does not count.
HasActiveSubscriptionsNarrow(x) ==
  \E s \in Calls : Exists(s) /\ subs[s].customer = x /\ subs[s].status \in {"trialing", "active"}

HasActiveSubscriptions(x) ==
  \E s \in Calls :
    /\ Exists(s)
    /\ subs[s].customer = x
    /\ subs[s].status \in Living

\* Delete asks for active subscriptions before it loads the customer.
DeleteCheck(c, x) ==
  /\ Begin(c, [op |-> "delete", customer |-> x], ~HasActiveSubscriptions(x), "delete_checked")
  /\ met' = IF HasActiveSubscriptions(x) THEN met ELSE met \cup On(x, "create")
  /\ UNCHANGED <<now, customers, archived, subs, invoices, copy, batch, revived>>

DeleteRead(c) ==
  LET row == customers[req[c].customer]
      ok == row.status \in Accepts("delete")
  IN  /\ pc[c] = "delete_checked"
      /\ Hold(c, ok, [row EXCEPT !.status = "deleted"])
      /\ Goto(c, IF ok THEN "customer_read" ELSE "failed")
      /\ UNCHANGED <<now, customers, archived, subs, invoices, req, batch, history>>

\* Deviation: the version is not part of the WHERE clause.
CustomerWriteAny(c) ==
  LET x == req[c].customer
  IN  /\ pc[c] = "customer_read"
      /\ customers' = [customers EXCEPT ![x] =
                         [status |-> copy[c].status, version |-> @.version + 1]]
      /\ Goto(c, "done")
      /\ UNCHANGED <<now, archived, subs, invoices, req, copy, batch, history>>

\* UPDATE customers ... version = version + 1 WHERE id AND version.
CustomerWrite(c) ==
  LET x == req[c].customer
  IN  /\ pc[c] = "customer_read"
      /\ IF customers[x].version = copy[c].version
         THEN /\ customers' = [customers EXCEPT ![x] = [copy[c] EXCEPT !.version = @ + 1]]
              /\ Goto(c, "done")
         ELSE Goto(c, "failed") /\ UNCHANGED customers
      /\ UNCHANGED <<now, archived, subs, invoices, req, copy, batch, history>>

-----------------------------------------------------------------------------
(* RenewalWorker *)

\* Deviation: past-due subscriptions are not selected.
DueForRenewalActive ==
  {s \in Calls : /\ Exists(s)
                 /\ subs[s].status = "active"
                 /\ ~subs[s].cancelAtEnd
                 /\ subs[s].end <= now}

DueForRenewal ==
  {s \in Calls : /\ Exists(s)
                 /\ subs[s].status \in {"active", "past_due"}
                 /\ ~subs[s].cancelAtEnd
                 /\ subs[s].end <= now}

\* Deviation: the youngest periods first.
PollYoungest(w) ==
  /\ batch[w] = {}
  /\ DueForRenewal # {}
  /\ HasRoom
  /\ \E taken \in SUBSET DueForRenewal :
       /\ Cardinality(taken) = Min({BatchSize, Cardinality(DueForRenewal)})
       /\ \A s \in taken, d \in DueForRenewal \ taken : subs[s].end >= subs[d].end
       /\ batch' = [batch EXCEPT ![w] = {[sub |-> s, row |-> subs[s]] : s \in taken}]
  /\ UNCHANGED <<now, customers, archived, subs, invoices, callVars, history>>

\* GetDueForRenewal: the oldest periods first, at most a batch.  The row locks
\* of FOR UPDATE SKIP LOCKED end with the statement, so two workers may hold
\* copies of the same row.
Poll(w) ==
  /\ batch[w] = {}
  /\ DueForRenewal # {}
  /\ HasRoom
  /\ \E taken \in SUBSET DueForRenewal :
       /\ Cardinality(taken) = Min({BatchSize, Cardinality(DueForRenewal)})
       /\ \A s \in taken, d \in DueForRenewal \ taken : subs[s].end <= subs[d].end
       /\ batch' = [batch EXCEPT ![w] = {[sub |-> s, row |-> subs[s]] : s \in taken}]
  /\ UNCHANGED <<now, customers, archived, subs, invoices, callVars, history>>

\* processRenewal of a copied row: what it writes, if Activate lets it.
Renewable(row) == row.cancelAtEnd \/ CanActivate(row)

\* Deviation: the next period begins at the clock.
RenewedFromNow(row) ==
  IF row.cancelAtEnd
  THEN CancelImmediately(row)
  ELSE Activate([row EXCEPT !.start = now, !.end = now + Terms[row.plan].period])

Renewed(row) ==
  IF row.cancelAtEnd
  THEN CancelImmediately(row)
  ELSE Activate(ExtendPeriod(row, row.end + Terms[row.plan].period))

\* Deviation: the statement extends the period of the table, not that of the copy.
ProcessInPlace(w) ==
  /\ \E e \in batch[w] :
       /\ \A o \in batch[w] : e.row.end <= o.row.end
       /\ batch' = [batch EXCEPT ![w] = @ \ {e}]
       /\ IF Renewable(e.row)
          THEN UpdateRow(e.sub, Renewed([e.row EXCEPT !.end = subs[e.sub].end]))
          ELSE UNCHANGED <<subs, revived>>
  /\ UNCHANGED <<now, customers, archived, invoices, callVars, met>>

\* The worker goes through its batch in the order of the query; an error skips
\* the row.
Process(w) ==
  /\ \E e \in batch[w] :
       /\ \A o \in batch[w] : e.row.end <= o.row.end
       /\ batch' = [batch EXCEPT ![w] = @ \ {e}]
       /\ IF Renewable(e.row) THEN UpdateRow(e.sub, Renewed(e.row)) ELSE UNCHANGED <<subs, revived>>
  /\ UNCHANGED <<now, customers, archived, invoices, callVars, met>>

-----------------------------------------------------------------------------
\* product.Service.ArchivePlan: no other column of a plan is ever written.
ArchivePlan(p) ==
  /\ archived' = archived \cup {p}
  /\ UNCHANGED <<now, customers, subs, invoices, callVars, batch, history>>

\* Nothing in the repository calls MarkPastDue; if something does, it does this.
PastDue(s) ==
  /\ Dunning
  /\ CanMarkPastDue(subs[s])
  /\ subs' = [subs EXCEPT ![s] = MarkPastDue(@)]
  /\ UNCHANGED <<now, customers, archived, invoices, callVars, batch, history>>

\* A request is cut off or a process dies: a call ends, a worker loses its batch.
\* A failed read or write of a renewal skips that row only.
Abort(c) ==
  /\ Aborts
  /\ c \in Busy
  /\ Goto(c, "failed")
  /\ UNCHANGED <<now, customers, archived, subs, invoices, req, copy, batch, history>>

WorkerAbort(w) ==
  /\ Aborts
  /\ \E lost \in SUBSET batch[w] \ {{}} : batch' = [batch EXCEPT ![w] = @ \ lost]
  /\ UNCHANGED <<now, customers, archived, subs, invoices, callVars, history>>

Tick ==
  /\ now < MaxTime
  /\ now' = now + 1
  /\ UNCHANGED <<customers, archived, subs, invoices, callVars, batch, history>>

Arrive(c) ==
  \/ \E x \in Customers, p \in Plans : CreateRead(c, x, p)
  \/ \E s \in Calls, atEnd \in BOOLEAN : CancelRead(c, s, atEnd)
  \/ \E s \in Calls, p \in Plans : PlanRead(c, s, p)
  \/ \E x \in Customers, op \in {"update", "suspend", "reactivate"} : CustomerRead(c, op, x)
  \/ \E x \in Customers : DeleteCheck(c, x)

Step(c) ==
  \/ CreatePlan(c)
  \/ CreateCommit(c)
  \/ SubWrite(c)
  \/ DeleteRead(c)
  \/ CustomerWrite(c)

\* Every call has run and the clock has reached its bound.
Rest == (\A c \in Calls : pc[c] \in Ended) /\ now = MaxTime /\ UNCHANGED vars

Next ==
  \/ \E c \in Calls : Arrive(c) \/ Step(c) \/ Abort(c) \/ PastDue(c)
  \/ \E w \in Workers : Poll(w) \/ Process(w) \/ WorkerAbort(w)
  \/ \E p \in Plans : ArchivePlan(p)
  \/ Tick
  \/ Rest

\* A call that began keeps running, every worker polls once a minute for ever
\* and works through what it took, and time passes.
Fairness ==
  /\ \A c \in Calls : WF_vars(Step(c))
  /\ \A w \in Workers : WF_vars(Poll(w)) /\ WF_vars(Process(w))
  /\ WF_vars(Tick)

Spec == Init /\ [][Next]_vars /\ Fairness

-----------------------------------------------------------------------------
(* Properties *)

SubRow ==
  [status : SubscriptionStatus, customer : Customers, plan : Plans, start : Nat, end : Nat,
   cancelAtEnd : BOOLEAN, ended : BOOLEAN]
CustomerRow == [status : {"active", "suspended", "deleted"}, version : Nat]

Request ==
  {NoRequest}
  \cup [op : {"create"}, customer : Customers, plan : Plans]
  \cup [op : {"cancel"}, sub : Calls, atEnd : BOOLEAN]
  \cup [op : {"update_plan"}, sub : Calls, plan : Plans]
  \cup [op : {"update", "suspend", "reactivate", "delete"}, customer : Customers]

TypeOK ==
  /\ now \in Nat
  /\ customers \in [Customers -> CustomerRow]
  /\ archived \subseteq Plans
  /\ subs \in [Calls -> {NoSub} \cup SubRow]
  /\ invoices \subseteq [sub : Calls, number : Nat, total : Nat]
  /\ pc \in [Calls -> {"idle", "create_customer", "create_plan", "sub_read",
                       "delete_checked", "customer_read", "done", "failed"}]
  /\ req \in [Calls -> Request]
  /\ copy \in [Calls -> {NoRow} \cup SubRow \cup CustomerRow]
  /\ batch \in [Workers -> SUBSET [sub : Calls, row : SubRow]]
  /\ met \subseteq Calls
  /\ revived \subseteq Calls

\* A subscription to a plan that bills without trial exists exactly when its
\* one invoice does, over the plan's price: neither a crash nor a number
\* already taken leaves one without the other.
BilledAtCreation ==
  \A s \in Calls :
    LET own == {i \in invoices : i.sub = s}
    IN  /\ own # {} <=> Exists(s) /\ Billed(req[s].plan)
        /\ \A i \in own : own = {i} /\ i.total = Terms[req[s].plan].amount

\* Whatever stale copies are written over it, a row is that of one coherent
\* subscription: a period that ends after it starts, and ended_at set exactly
\* on the canceled ones.
RowsCoherent ==
  \A s \in Calls :
    Exists(s) => /\ subs[s].start < subs[s].end
                 /\ subs[s].ended <=> subs[s].status = "canceled"

\* No renewal reaches into the future: a period begins only when the one before
\* it is over, although two workers may hold copies of the same row and renew it
\* both.
NoPeriodAhead == \A s \in Calls : Exists(s) => subs[s].start <= now

\* A deleted customer is never written again: the version check stops every
\* call that loaded the customer before.
DeletedIsFrozen ==
  [][\A x \in Customers : customers[x].status = "deleted" => customers'[x] = customers[x]]_vars

\* A copy of s that is not its row any more is written back by this step.
OvertakenWrite(s) ==
  \/ \E c \in Calls : pc[c] = "sub_read" /\ pc'[c] = "done" /\ req[c].sub = s /\ copy[c] # subs[s]
  \/ \E w \in Workers : \E e \in batch[w] \ batch'[w] : e.sub = s /\ e.row # subs[s]

\* A canceled subscription is written again only from a copy taken before the
\* cancellation: every call and worker that reads it canceled leaves it alone.
CanceledIsFinal ==
  [][\A s \in Calls :
       subs[s].status = "canceled" => subs'[s] = subs[s] \/ OvertakenWrite(s)]_vars

\* A deleted customer has no subscription that is trialing, active or past due,
\* except one whose creation overlapped a deletion of the customer and one that
\* a write brought back to life.
DeletedHasNoSubscriptions ==
  \A s \in Calls :
    Exists(s) /\ customers[subs[s].customer].status = "deleted" /\ subs[s].status \in Living
    => s \in met \cup revived

\* Each renewal begins where the period before it ended, and nothing else moves
\* a period, unless a copy that was overtaken is written back.
PeriodsContiguous ==
  [][\A s \in Calls :
       Exists(s) /\ <<subs'[s].start, subs'[s].end>> # <<subs[s].start, subs[s].end>>
       => \/ subs'[s].start = subs[s].end /\ subs'[s].end > subs[s].end
          \/ OvertakenWrite(s)]_vars

IsDue(s, status) ==
  subs[s].status = status /\ ~subs[s].cancelAtEnd /\ subs[s].end <= now

\* A batch full of active rows that are due no later than s: they stay due.
Starved(s) ==
  Cardinality({d \in Calls : IsDue(d, "active") /\ subs[d].end <= subs[s].end}) >= BatchSize

\* A past-due subscription whose period is over is renewed in the end, unless
\* it is canceled or active subscriptions that are due fill every batch before
\* it.
PastDueIsRenewed ==
  \A s \in Calls : IsDue(s, "past_due") ~> ~IsDue(s, "past_due") \/ Starved(s)

\* An active subscription whose period is over is renewed in the end.
ActiveIsRenewed == \A s \in Calls : IsDue(s, "active") ~> ~IsDue(s, "active")
=============================================================================

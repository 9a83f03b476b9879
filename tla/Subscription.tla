---------------------------- MODULE Subscription ----------------------------
(***************************************************************************)
(* The subscription aggregate of internal/subscription/model.go: its row   *)
(* and the methods that change it.  Time is counted in ticks; `ended'      *)
(* stands for ended_at being set.                                          *)
(***************************************************************************)
EXTENDS Integers

SubscriptionStatus == {"trialing", "active", "past_due", "paused", "canceled", "expired"}

\* A row by the time and the plan it was created with: it starts with a trial
\* unless the plan's trial days are exactly zero.
NewSubscription(customer, plan, trial, start, end) ==
  [status |-> IF trial = 0 THEN "active" ELSE "trialing", customer |-> customer, plan |-> plan,
   start |-> start, end |-> end, cancelAtEnd |-> FALSE, ended |-> FALSE]

IsCanceled(row) == row.status \in {"canceled", "expired"}

CanBeModified(row) == row.status = "active"

CanActivate(row) == row.status \in {"trialing", "past_due", "paused"}
Activate(row) == [row EXCEPT !.status = "active"]

CanMarkPastDue(row) == row.status = "active"
MarkPastDue(row) == [row EXCEPT !.status = "past_due"]

CanScheduleCancellation(row) == row.status \in {"active", "trialing"}
ScheduleCancellation(row) == [row EXCEPT !.cancelAtEnd = TRUE]

\* Deviation: the status is spelled in another way.
CancelImmediatelySpelled(row) == [row EXCEPT !.status = "cancelled", !.ended = TRUE]

CancelImmediately(row) == [row EXCEPT !.status = "canceled", !.ended = TRUE]

\* Deviation: the end is moved before the start is taken from it.
ExtendPeriodSwapped(row, newEnd) == [row EXCEPT !.start = newEnd, !.end = newEnd]

ExtendPeriod(row, newEnd) == [row EXCEPT !.start = row.end, !.end = newEnd]

ChangePlan(row, plan) == [row EXCEPT !.plan = plan]
=============================================================================

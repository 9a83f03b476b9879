--------------------------------- MODULE Outbox ---------------------------------
(***************************************************************************)
(* The transactional outbox: OutboxPublisher inserts events, OutboxWorkers *)
(* (one per server instance) poll and dispatch them.  Dispatching an event *)
(* is a line in the log; what counts is what becomes of its row, and which *)
(* values of status the table accepts decides that.                        *)
(***************************************************************************)
EXTENDS Integers, FiniteSets

CONSTANTS
  Events,       \* events, numbers in the order of created_at
  Workers,
  BatchSize,    \* rows a poll takes
  MaxRetries,
  Delay,        \* ticks from an error to the retry, by the retries there were
  Statuses,     \* what events_status_check accepts
  MaxTime,      \* bound of the clock
  Aborts        \* TRUE: a worker may die or lose its context

VARIABLES
  rows,         \* event rows by event
  batch,        \* the copies each worker polled and has not begun
  task,         \* the copy each worker is processing, and what is next
  now,
  dispatched    \* history: events that were dispatched at least once

vars == <<rows, batch, task, now, dispatched>>

-----------------------------------------------------------------------------
EventStatus == {"pending", "delivered", "failed"}

\* due is next_retry_at, 0 for NULL.
NoRow == [status |-> "none", retries |-> 0, due |-> 0]
NewRow == [status |-> "pending", retries |-> 0, due |-> 0]
NoTask == [stage |-> "none"]

Marked(row, status) == [status |-> status, retries |-> row.retries, due |-> row.due]
MarkDelivered(row) == Marked(row, "delivered")
MarkFailed(row) == Marked(row, "failed")
ScheduleRetry(row) ==
  [status |-> row.status, retries |-> row.retries + 1, due |-> now + Delay[row.retries]]

Init ==
  /\ rows = [e \in Events |-> NoRow]
  /\ batch = [w \in Workers |-> {}]
  /\ task = [w \in Workers |-> NoTask]
  /\ now = 0
  /\ dispatched = {}

-----------------------------------------------------------------------------
\* Publish, in the transaction of the change the event tells of.
Publish(e) ==
  /\ rows[e] = NoRow
  /\ rows' = [rows EXCEPT ![e] = NewRow]
  /\ UNCHANGED <<batch, task, now, dispatched>>

\* A row is locked from an accepted UPDATE to the commit.
Locked == {task[w].event : w \in {v \in Workers : task[v].stage = "written"}}

\* status = 'pending' AND (next_retry_at IS NULL OR next_retry_at <= NOW()).
Due == {e \in Events : rows[e].status = "pending" /\ rows[e].due <= now}

\* ORDER BY created_at LIMIT BatchSize FOR UPDATE SKIP LOCKED; the locks of the
\* poll end with the statement.
Pending ==
  LET free == Due \ Locked
  IN  {[event |-> e, row |-> rows[e]] : e \in {x \in free : Cardinality({y \in free : y < x}) < BatchSize}}

Poll(w) ==
  /\ batch[w] = {}
  /\ task[w] = NoTask
  /\ Pending # {}
  /\ batch' = [batch EXCEPT ![w] = Pending]
  /\ UNCHANGED <<rows, task, now, dispatched>>

\* An UPDATE of a locked row waits.
Update(e, row) == rows' = [rows EXCEPT ![e] = row]

\* The event is dispatched and its copy marked; the UPDATE is refused if the table
\* does not know the status, and the transaction ends in an error.
Dispatch(w, copy) ==
  LET row == MarkDelivered(copy.row)
  IN  /\ task[w] = NoTask
      /\ copy \in batch[w]
      /\ \A other \in batch[w] : copy.event <= other.event
      /\ copy.event \notin Locked
      /\ dispatched' = dispatched \cup {copy.event}
      /\ batch' = [batch EXCEPT ![w] = @ \ {copy}]
      /\ task' = [task EXCEPT ![w] = [event |-> copy.event, row |-> row,
                    stage |-> IF row.status \in Statuses THEN "written" ELSE "refused"]]
      /\ UNCHANGED <<rows, now>>

Commit(w) ==
  /\ task[w].stage = "written"
  /\ Update(task[w].event, task[w].row)
  /\ task' = [task EXCEPT ![w] = NoTask]
  /\ UNCHANGED <<batch, now, dispatched>>

\* After the error the copy is failed or scheduled again, and written in a
\* statement of its own.  The copy keeps the status MarkDelivered gave it, and
\* an error of the statement is ignored.
Retry(w) ==
  LET row == IF task[w].row.retries >= MaxRetries THEN MarkFailed(task[w].row)
             ELSE ScheduleRetry(task[w].row)
  IN  /\ task[w].stage = "refused"
      /\ task[w].event \notin Locked
      /\ IF row.status \in Statuses THEN Update(task[w].event, row) ELSE UNCHANGED rows
      /\ task' = [task EXCEPT ![w] = NoTask]
      /\ UNCHANGED <<batch, now, dispatched>>

\* The commit fails or the context ends: what was written is undone, and the
\* error path is taken.
Rollback(w) ==
  /\ Aborts
  /\ task[w].stage = "written"
  /\ task' = [task EXCEPT ![w].stage = "refused"]
  /\ UNCHANGED <<rows, batch, now, dispatched>>

\* The worker dies with its batch.
Die(w) ==
  /\ Aborts
  /\ batch[w] # {} \/ task[w] # NoTask
  /\ batch' = [batch EXCEPT ![w] = {}]
  /\ task' = [task EXCEPT ![w] = NoTask]
  /\ UNCHANGED <<rows, now, dispatched>>

Tick ==
  /\ now < MaxTime
  /\ now' = now + 1
  /\ UNCHANGED <<rows, batch, task, dispatched>>

Step(w) ==
  \/ Poll(w)
  \/ \E copy \in batch[w] : Dispatch(w, copy)
  \/ Commit(w)
  \/ Retry(w)

Next ==
  \/ \E e \in Events : Publish(e)
  \/ \E w \in Workers : Step(w) \/ Rollback(w) \/ Die(w)
  \/ Tick

\* A worker polls at every tick of its interval and goes through its batch.
Fairness == WF_vars(Tick) /\ \A w \in Workers : WF_vars(Step(w))

Spec == Init /\ [][Next]_vars /\ Fairness

-----------------------------------------------------------------------------
(* Properties *)

Row == [status : EventStatus, retries : 0 .. MaxRetries, due : Nat]

\* Rows and copies keep their types: no copy counts more than MaxRetries retries.
TypeOK ==
  /\ rows \in [Events -> {NoRow} \cup Row]
  /\ batch \in [Workers -> SUBSET [event : Events, row : Row]]
  /\ task \in [Workers -> {NoTask} \cup [event : Events, row : Row, stage : {"written", "refused"}]]
  /\ now \in 0 .. MaxTime
  /\ dispatched \subseteq Events

\* Every event that is published is dispatched in the end (README: "Transactional
\* outbox pattern for reliable event delivery").
EveryEventDispatched ==
  \A e \in Events : rows[e] # NoRow ~> e \in dispatched

\* A row is as Publish inserted it, however often its event was dispatched: the
\* workers' updates are refused, and the retry they schedule is forgotten.
RowsAsInserted == \A e \in Events : rows[e] \in {NoRow, NewRow}
=============================================================================

----------------------------- MODULE OutboxProofs -----------------------------
(***************************************************************************)
(* What the table's check constraint does to the outbox, for every number  *)
(* of events and workers, every batch size, back-off and number of         *)
(* retries: if it accepts neither of the statuses the worker writes, no    *)
(* row ever changes.                                                       *)
(***************************************************************************)
EXTENDS Outbox, TLAPS

(* events_status_check knows neither "delivered" nor "failed". *)
Refuses == "delivered" \notin Statuses /\ "failed" \notin Statuses

(* A copy in hand is marked as delivered and its update was refused. *)
TaskInv ==
  \A w \in Workers :
    task[w] # NoTask => task[w].stage = "refused" /\ task[w].row.status = "delivered"

IInv ==
  /\ rows \in [Events -> {NoRow, NewRow}]
  /\ task = [w \in Workers |-> task[w]]
  /\ TaskInv

(* A row that Retry writes is one the table refuses. *)
LEMMA RetryRefused ==
  ASSUME Refuses, NEW row, row.status = "delivered"
  PROVE  MarkFailed(row).status \notin Statuses /\ ScheduleRetry(row).status \notin Statuses
BY DEF Refuses, MarkFailed, Marked, ScheduleRetry

LEMMA InitIInv == Init => IInv
BY DEF Init, IInv, TaskInv

LEMMA StepIInv ==
  ASSUME Refuses, IInv, [Next]_vars
  PROVE  IInv'
<1> USE DEF IInv
<1>1. ASSUME UNCHANGED <<rows, task>>
      PROVE  IInv'
  BY <1>1 DEF TaskInv
<1>2. ASSUME NEW e \in Events, Publish(e)
      PROVE  IInv'
  BY <1>2 DEF Publish, TaskInv
<1>3. ASSUME NEW w \in Workers, task' = [task EXCEPT ![w] = NoTask], UNCHANGED rows
      PROVE  IInv'
  BY <1>3 DEF TaskInv
<1>4. ASSUME NEW w \in Workers, NEW copy, Dispatch(w, copy)
      PROVE  IInv'
  <2> DEFINE new == [event |-> copy.event, row |-> MarkDelivered(copy.row), stage |-> "refused"]
  <2>1. MarkDelivered(copy.row).status = "delivered"
    BY DEF MarkDelivered, Marked
  <2>2. task' = [task EXCEPT ![w] = new] /\ UNCHANGED rows
    BY <1>4, <2>1 DEF Dispatch, Refuses
  <2>3. new.stage = "refused" /\ new.row.status = "delivered"
    BY <2>1
  <2> HIDE DEF new
  <2>4. QED
    BY <2>2, <2>3 DEF TaskInv
<1>5. ASSUME NEW w \in Workers, Commit(w) \/ Rollback(w)
      PROVE  FALSE
  BY <1>5 DEF Commit, Rollback, TaskInv, NoTask
<1>6. ASSUME NEW w \in Workers, Retry(w)
      PROVE  IInv'
  <2>1. task[w].stage = "refused" /\ task[w].row.status = "delivered"
    BY <1>6 DEF Retry, TaskInv, NoTask
  <2>2. UNCHANGED rows /\ task' = [task EXCEPT ![w] = NoTask]
    BY <1>6, <2>1, RetryRefused DEF Retry
  <2>3. QED
    BY <1>3, <2>2
<1>7. ASSUME NEW w \in Workers, Die(w)
      PROVE  IInv'
  BY <1>3, <1>7 DEF Die
<1>8. ASSUME NEW w \in Workers, Poll(w)
      PROVE  IInv'
  BY <1>1, <1>8 DEF Poll
<1>9. CASE Tick
  BY <1>1, <1>9 DEF Tick
<1>10. CASE UNCHANGED vars
  BY <1>1, <1>10 DEF vars
<1>11. QED
  BY <1>2, <1>4, <1>5, <1>6, <1>7, <1>8, <1>9, <1>10 DEF Next, Step

(* With the table of the migration every row stays as Publish inserted it: no
   event is ever marked, counted or put off, and every poll finds it again. *)
THEOREM NothingIsRecorded ==
  ASSUME Refuses
  PROVE  Spec => []RowsAsInserted
<1>1. Init => IInv
  BY InitIInv
<1>2. IInv /\ [Next]_vars => IInv'
  BY StepIInv
<1>3. IInv => RowsAsInserted
  BY DEF IInv, RowsAsInserted
<1>4. QED
  BY <1>1, <1>2, <1>3, PTL DEF Spec
=============================================================================

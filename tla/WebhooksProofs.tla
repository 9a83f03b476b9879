--------------------------- MODULE WebhooksProofs ---------------------------
(***************************************************************************)
(* Theorems about Webhooks for every number of deliveries, endpoints and   *)
(* workers, every batch size, retry schedule and number of crashes.        *)
(*                                                                         *)
(* What a row says is not inductive: a worker may overwrite it with a copy *)
(* it took long ago.  IInv says of every copy what it says of the rows.    *)
(***************************************************************************)
EXTENDS Webhooks, TLAPS

(* A row, committed or copied, agrees with the answers given so far. *)
Explained(d, row) ==
  /\ row.attempts <= answers[d]["error"]
  /\ row.status = "delivered" => answers[d]["ok"] > 0
  /\ row.status = "failed" => answers[d]["refused"] > 0 \/ answers[d]["error"] >= Allowed
  /\ row.status = "skipped" => row.endpoint \in paused

(* A copy belongs to a committed row and has its endpoint. *)
Copied(d, row) ==
  /\ rows[d] # NoRow
  /\ rows[d].endpoint = row.endpoint
  /\ Explained(d, row)

RowsInv ==
  \A d \in Deliveries :
    rows[d] # NoRow => endpoints[rows[d].endpoint].exists /\ Explained(d, rows[d])

BatchInv ==
  \A w \in Workers : \A t \in batch[w] :
    Copied(t.delivery, t.row) /\ t.row.status = "pending" /\ t.row.next <= now

TaskInv ==
  \A w \in Workers :
    task[w] # NoTask =>
      /\ Copied(task[w].delivery, task[w].row)
      /\ task[w].step = "send" => task[w].row.status = "pending" /\ task[w].row.next <= now

(* An inactive endpoint was paused. *)
PausedInv ==
  \A e \in Endpoints : endpoints[e].exists /\ ~endpoints[e].active => e \in paused

IInv == TypeOK /\ RowsInv /\ BatchInv /\ TaskInv /\ PausedInv

Task == [step : {"send", "write"}, delivery : Deliveries, row : Row]
Copy == [delivery : Deliveries, row : Row]
Gone == {NoEndpoint, DeletedEndpoint}

-----------------------------------------------------------------------------
(* Rows and answers *)

(* A retry is a row of the same endpoint that counts one attempt more. *)
LEMMA RetryRow ==
  ASSUME NEW row \in Row, NEW delay \in Nat, now \in Nat
  PROVE  /\ ScheduleRetry(row, delay) \in Row
         /\ ScheduleRetry(row, delay).endpoint = row.endpoint
         /\ ScheduleRetry(row, delay).status = row.status
         /\ ScheduleRetry(row, delay).attempts = row.attempts + 1
<1>1. row.attempts + 1 \in Nat /\ now + delay \in Nat
  BY DEF Row
<1>2. QED
  BY <1>1 DEF ScheduleRetry, Row

(* Whatever the answer, the worker makes a row of it. *)
LEMMA AnsweredType ==
  ASSUME NEW row \in Row, NEW a \in Answer, now \in Nat
  PROVE  Answered(row, a) \in Row
<1>1. row.attempts \in Nat /\ row.attempts + 1 \in Nat
  BY DEF Row
<1>2. MarkDelivered(row) \in Row /\ MarkFailed(row) \in Row
  BY DEF MarkDelivered, MarkFailed, Row
<1>3. GetRetryDelay(row.attempts + 1) \in Nat
  BY <1>1, WebhooksAssumption DEF GetRetryDelay
<1>4. ScheduleRetry(row, GetRetryDelay(row.attempts + 1)) \in Row
  BY <1>3, RetryRow
<1>5. HandleDeliveryError(row) \in Row
  BY <1>2, <1>4 DEF HandleDeliveryError
<1>6. QED
  BY <1>2, <1>5 DEF Answered, Answer

(* What the worker makes of an answer is a row of the same endpoint, and the
   answer explains it. *)
LEMMA AnsweredRow ==
  ASSUME NEW row \in Row, NEW a \in Answer, now \in Nat,
         NEW errors \in Nat, row.attempts <= errors, row.status = "pending"
  PROVE  /\ Answered(row, a) \in Row
         /\ Answered(row, a).endpoint = row.endpoint
         /\ a = "ok" => Answered(row, a).status = "delivered"
         /\ a = "refused" => Answered(row, a).status = "failed"
         /\ a # "error" => Answered(row, a).attempts = row.attempts
         /\ a = "error" =>
              /\ Answered(row, a).status \in {"pending", "failed"}
              /\ Answered(row, a).status = "failed" => errors + 1 >= Allowed
              /\ Answered(row, a).attempts <= errors + 1
<1> USE WebhooksAssumption
<1>1. CASE a = "ok"
  BY <1>1 DEF Answered, MarkDelivered, Row
<1>2. CASE a = "refused"
  BY <1>2 DEF Answered, MarkFailed, Row
<1>3. CASE a = "error"
  <2> DEFINE delay == GetRetryDelay(row.attempts + 1)
  <2>1. Answered(row, a) = HandleDeliveryError(row)
    BY <1>3 DEF Answered
  <2>2. row.attempts \in Nat /\ row.next \in Nat /\ Len(Delays) \in Nat
    BY DEF Row
  <2>3. delay \in Nat
    BY <2>2 DEF GetRetryDelay
  <2>4. CASE row.attempts >= MaxRetries \/ delay = 0
    <3>1. Answered(row, a) = MarkFailed(row)
      BY <2>1, <2>4 DEF HandleDeliveryError
    <3>2. row.attempts >= MaxRetries \/ row.attempts >= Len(Delays)
      BY <2>2, <2>4 DEF GetRetryDelay
    <3>3. errors + 1 >= Allowed
      BY <2>2, <3>2 DEF Allowed
    <3>4. QED
      BY <1>3, <2>2, <3>1, <3>3 DEF MarkFailed, Row
  <2>5. CASE ~(row.attempts >= MaxRetries \/ delay = 0)
    <3>1. Answered(row, a) = ScheduleRetry(row, delay)
      BY <2>1, <2>5 DEF HandleDeliveryError
    <3>2. /\ ScheduleRetry(row, delay) \in Row
          /\ ScheduleRetry(row, delay).endpoint = row.endpoint
          /\ ScheduleRetry(row, delay).status = "pending"
          /\ ScheduleRetry(row, delay).attempts = row.attempts + 1
      BY <2>3, RetryRow
    <3>3. QED
      BY <1>3, <2>2, <3>1, <3>2
  <2>6. QED
    BY <2>4, <2>5
<1>4. QED
  BY <1>1, <1>2, <1>3 DEF Answer

(* More answers and more pauses explain what fewer did. *)
LEMMA ExplainedStays ==
  ASSUME NEW d \in Deliveries, NEW row \in Row, Explained(d, row),
         answers \in [Deliveries -> [Answer -> Nat]],
         answers' \in [Deliveries -> [Answer -> Nat]],
         \A a \in Answer : answers[d][a] <= answers'[d][a],
         paused \subseteq paused'
  PROVE  Explained(d, row)'
<1>1. /\ answers[d]["ok"] \in Nat /\ answers'[d]["ok"] \in Nat
      /\ answers[d]["refused"] \in Nat /\ answers'[d]["refused"] \in Nat
      /\ answers[d]["error"] \in Nat /\ answers'[d]["error"] \in Nat
  BY DEF Answer
<1>2. /\ answers[d]["ok"] <= answers'[d]["ok"]
      /\ answers[d]["refused"] <= answers'[d]["refused"]
      /\ answers[d]["error"] <= answers'[d]["error"]
  BY DEF Answer
<1>3. row.attempts \in Nat /\ Allowed \in Nat
  BY WebhooksAssumption DEF Row, Allowed
<1>4. QED
  BY <1>1, <1>2, <1>3 DEF Explained, Allowed

(* A copy stays one as long as its delivery keeps its endpoint. *)
LEMMA CopiedStays ==
  ASSUME NEW d \in Deliveries, NEW row \in Row, Copied(d, row),
         answers \in [Deliveries -> [Answer -> Nat]],
         answers' \in [Deliveries -> [Answer -> Nat]],
         \A a \in Answer : answers[d][a] <= answers'[d][a],
         paused \subseteq paused',
         rows'[d] # NoRow, rows'[d].endpoint = rows[d].endpoint
  PROVE  Copied(d, row)'
<1>1. Explained(d, row)'
  BY ExplainedStays DEF Copied
<1>2. QED
  BY <1>1 DEF Copied

(* Every table and every copy says the same after a step that neither answers
   nor touches the deliveries, and pauses no endpoint without noting it. *)
LEMMA DeliveriesUntouched ==
  ASSUME IInv, UNCHANGED <<rows, answers>>,
         now \in Nat, now' \in Nat, now <= now',
         paused \subseteq paused',
         \A d \in Deliveries :
           rows[d] # NoRow => endpoints'[rows[d].endpoint].exists,
         TypeOK'
  PROVE  /\ RowsInv'
         /\ UNCHANGED batch => BatchInv'
         /\ UNCHANGED task => TaskInv'
<1> USE DEF IInv
<1>1. /\ answers \in [Deliveries -> [Answer -> Nat]]
      /\ answers' \in [Deliveries -> [Answer -> Nat]]
      /\ \A d \in Deliveries, a \in Answer : answers[d][a] <= answers'[d][a]
  BY DEF TypeOK
<1>2. RowsInv'
  <2> SUFFICES ASSUME NEW d \in Deliveries, rows[d] # NoRow
               PROVE  Explained(d, rows[d])'
    BY DEF RowsInv
  <2>1. rows[d] \in Row /\ Explained(d, rows[d])
    BY DEF TypeOK, RowsInv
  <2>2. \A row \in Row : Explained(d, row) => Explained(d, row)'
    BY <1>1, ExplainedStays
  <2>3. QED
    BY <2>1, <2>2 DEF Explained
<1>3. \A d \in Deliveries, row \in Row : Copied(d, row) => Copied(d, row)'
  BY <1>1, CopiedStays DEF Copied
<1>4. ASSUME UNCHANGED batch PROVE BatchInv'
  <2> SUFFICES ASSUME NEW w \in Workers, NEW t \in batch[w]
               PROVE  Copied(t.delivery, t.row)' /\ t.row.status = "pending" /\ t.row.next <= now'
    BY <1>4 DEF BatchInv
  <2>1. t.delivery \in Deliveries /\ t.row \in Row /\ t.row.next \in Nat
    BY DEF TypeOK, Row
  <2>2. Copied(t.delivery, t.row) /\ t.row.status = "pending" /\ t.row.next <= now
    BY DEF BatchInv
  <2>3. QED
    BY <1>3, <2>1, <2>2
<1>5. ASSUME UNCHANGED task PROVE TaskInv'
  <2> SUFFICES ASSUME NEW w \in Workers, task[w] # NoTask
               PROVE  /\ Copied(task[w].delivery, task[w].row)'
                      /\ task[w].step = "send" =>
                           task[w].row.status = "pending" /\ task[w].row.next <= now'
    BY <1>5 DEF TaskInv
  <2>1. /\ task[w].delivery \in Deliveries
        /\ task[w].row \in Row
        /\ task[w].row.next \in Nat
    BY DEF TypeOK, Row
  <2>2. /\ Copied(task[w].delivery, task[w].row)
        /\ task[w].step = "send" => task[w].row.status = "pending" /\ task[w].row.next <= now
    BY DEF TaskInv
  <2>3. Copied(task[w].delivery, task[w].row)'
    BY <1>3, <1>5, <2>1, <2>2 DEF Copied, Explained
  <2>4. QED
    BY <2>1, <2>2, <2>3
<1>6. QED
  BY <1>2, <1>4, <1>5

-----------------------------------------------------------------------------
(* Types *)

LEMMA InitTypes == Init => TypeOK
  BY DEF Init, TypeOK, Answer, NoEndpoint, NoRow, NoEdit, NoTask

(* Each step keeps the types. *)
LEMMA StepTypes == TypeOK /\ [Next]_vars => TypeOK'
<1> SUFFICES ASSUME TypeOK, [Next]_vars
             PROVE  TypeOK'
  OBVIOUS
<1> USE DEF TypeOK, tables, history
<1>1. ASSUME NEW e \in Endpoints, NEW usable \in BOOLEAN, CreateEndpoint(e, usable)
      PROVE  TypeOK'
  BY <1>1 DEF CreateEndpoint, Endpoint
<1>2. ASSUME NEW d \in Deliveries, NEW e \in Endpoints, Enqueue(d, e)
      PROVE  TypeOK'
  BY <1>2 DEF Enqueue, Row
<1>3. ASSUME NEW u \in Editors, NEW e \in Endpoints, NEW changed \in Endpoint,
             UpdateRead(u, e, changed)
      PROVE  TypeOK'
  BY <1>3 DEF UpdateRead
<1>4. ASSUME NEW u \in Editors, UpdateWrite(u)
      PROVE  TypeOK'
  <2>1. edits[u].endpoint \in Endpoints /\ edits[u].row \in Endpoint
    BY <1>4 DEF UpdateWrite, NoEdit
  <2>2. edits' \in [Editors -> [step : {"read"}, endpoint : Endpoints, row : Endpoint]
                               \cup {NoEdit, [step |-> "done"]}]
    BY <1>4 DEF UpdateWrite
  <2>3. /\ endpoints' \in [Endpoints -> Endpoint \cup {NoEndpoint, DeletedEndpoint}]
        /\ paused' \subseteq Endpoints
    BY <1>4, <2>1 DEF UpdateWrite
  <2>4. QED
    BY <1>4, <2>2, <2>3 DEF UpdateWrite
<1>5. ASSUME NEW e \in Endpoints, DeleteEndpoint(e)
      PROVE  TypeOK'
  BY <1>5 DEF DeleteEndpoint
<1>6. ASSUME NEW w \in Workers, Poll(w)
      PROVE  TypeOK'
  <2>1. \A d \in Pending : [delivery |-> d, row |-> rows[d]] \in [delivery : Deliveries, row : Row]
    BY DEF Pending, Due, NoRow
  <2>2. PICK taken \in SUBSET Pending :
          batch' = [batch EXCEPT ![w] = {[delivery |-> d, row |-> rows[d]] : d \in taken}]
    BY <1>6 DEF Poll
  <2>3. {[delivery |-> d, row |-> rows[d]] : d \in taken} \subseteq [delivery : Deliveries, row : Row]
    BY <2>1
  <2>4. batch' \in [Workers -> SUBSET [delivery : Deliveries, row : Row]]
    BY <2>2, <2>3
  <2>5. QED
    BY <1>6, <2>4 DEF Poll
<1>7. ASSUME NEW w \in Workers, Take(w)
      PROVE  TypeOK'
  <2>1. PICK t \in batch[w] :
          /\ batch' = [batch EXCEPT ![w] = @ \ {t}]
          /\ \/ task' = [task EXCEPT ![w] = NoTask]
             \/ task' = [task EXCEPT ![w] = Holding("send", t.delivery, t.row)]
             \/ task' = [task EXCEPT ![w] = Holding("write", t.delivery, Skip(t.row))]
    BY <1>7 DEF Take
  <2>2. t.delivery \in Deliveries /\ t.row \in Row /\ Skip(t.row) \in Row
    BY DEF Skip, Row
  <2>3. batch' \in [Workers -> SUBSET [delivery : Deliveries, row : Row]]
    BY <2>1
  <2>4. task' \in [Workers -> Task \cup {NoTask}]
    BY <2>1, <2>2 DEF Task, Holding
  <2>5. QED
    BY <1>7, <2>3, <2>4 DEF Take, Task
<1>8. ASSUME NEW w \in Workers, Send(w)
      PROVE  TypeOK'
  <2>1. task[w] \in Task
    BY <1>8 DEF Send, NoTask, Task
  <2>2. PICK a \in Answer :
          /\ answers' = [answers EXCEPT ![task[w].delivery][a] = @ + 1]
          /\ task' = [task EXCEPT ![w] =
                        Holding("write", task[w].delivery, Answered(task[w].row, a))]
    BY <1>8 DEF Send
  <2>3. answers' \in [Deliveries -> [Answer -> Nat]]
    BY <2>1, <2>2 DEF Task
  <2>4. Answered(task[w].row, a) \in Row
    BY <2>1, AnsweredType DEF Task
  <2>5. task' \in [Workers -> Task \cup {NoTask}]
    BY <2>1, <2>2, <2>4 DEF Task, Holding
  <2>6. QED
    BY <1>8, <2>3, <2>5 DEF Send, Task
<1>9. ASSUME NEW w \in Workers, Write(w)
      PROVE  TypeOK'
  <2>1. task[w] \in Task
    BY <1>9 DEF Write, NoTask, Task
  <2>2. QED
    BY <1>9, <2>1 DEF Write, Task
<1>10. ASSUME NEW w \in Workers, Abort(w)
       PROVE  TypeOK'
  <2>1. PICK kept \in {{}, batch[w]} : batch' = [batch EXCEPT ![w] = kept]
    BY <1>10 DEF Abort
  <2>2. batch' \in [Workers -> SUBSET [delivery : Deliveries, row : Row]]
    BY <2>1
  <2>3. QED
    BY <1>10, <2>2 DEF Abort
<1>11. CASE Tick
  BY <1>11 DEF Tick
<1>12. CASE UNCHANGED vars
  BY <1>12 DEF vars
<1>13. QED
  BY <1>1, <1>2, <1>3, <1>4, <1>5, <1>6, <1>7, <1>8, <1>9, <1>10, <1>11, <1>12
     DEF Next, Work, Rest

-----------------------------------------------------------------------------
(* The invariant *)

LEMMA InitIInv == Init => IInv
<1> SUFFICES ASSUME Init
             PROVE  IInv
  OBVIOUS
<1>1. TypeOK
  BY InitTypes
<1>2. RowsInv /\ BatchInv /\ TaskInv /\ PausedInv
  BY DEF Init, RowsInv, BatchInv, TaskInv, PausedInv, NoEndpoint
<1>3. QED
  BY <1>1, <1>2 DEF IInv

(* The operations on endpoints do not touch the deliveries. *)
LEMMA EndpointSteps ==
  ASSUME IInv, TypeOK', NEW e \in Endpoints,
         \/ \E usable \in BOOLEAN : CreateEndpoint(e, usable)
         \/ \E u \in Editors, changed \in Endpoint : UpdateRead(u, e, changed)
         \/ \E u \in Editors : UpdateWrite(u)
         \/ DeleteEndpoint(e)
  PROVE  IInv'
<1> USE DEF IInv
<1> DEFINE Referred == \A d \in Deliveries :
                         rows[d] # NoRow => endpoints'[rows[d].endpoint].exists
<1>0. \A d \in Deliveries :
        rows[d] # NoRow => /\ endpoints[rows[d].endpoint].exists
                           /\ rows[d].endpoint \in Endpoints
  BY DEF RowsInv, TypeOK, Row
<1>1. /\ now \in Nat /\ now' = now
      /\ UNCHANGED <<rows, batch, task, answers>>
  BY DEF TypeOK, CreateEndpoint, UpdateRead, UpdateWrite, DeleteEndpoint, tables, history
<1>2. ASSUME NEW usable \in BOOLEAN, CreateEndpoint(e, usable)
      PROVE  PausedInv' /\ Referred /\ paused \subseteq paused'
  <2>1. endpoints' = [endpoints EXCEPT ![e] = [exists |-> TRUE, active |-> TRUE, usable |-> usable]]
    BY <1>2 DEF CreateEndpoint
  <2>2. endpoints \in [Endpoints -> Endpoint \cup {NoEndpoint, DeletedEndpoint}] /\ paused' = paused
    BY <1>2 DEF TypeOK, CreateEndpoint, history
  <2>3. PausedInv'
    BY <2>1, <2>2 DEF PausedInv
  <2>4. Referred
    BY <1>0, <2>1, <2>2
  <2>5. QED
    BY <2>2, <2>3, <2>4
<1>3. ASSUME NEW u \in Editors, NEW changed \in Endpoint, UpdateRead(u, e, changed)
      PROVE  PausedInv' /\ Referred /\ paused \subseteq paused'
  <2>1. endpoints' = endpoints /\ paused' = paused
    BY <1>3 DEF UpdateRead, tables, history
  <2>2. QED
    BY <2>1 DEF PausedInv, RowsInv
<1>4. ASSUME NEW u \in Editors, UpdateWrite(u)
      PROVE  PausedInv' /\ Referred /\ paused \subseteq paused'
  <2> DEFINE f == edits[u].endpoint
  <2>1. f \in Endpoints /\ edits[u].row \in Endpoint
    BY <1>4 DEF UpdateWrite, TypeOK, NoEdit
  <2>2. endpoints \in [Endpoints -> Endpoint \cup {NoEndpoint, DeletedEndpoint}]
    BY DEF TypeOK
  <2>3. CASE endpoints[f].exists
    <3>1. /\ endpoints' = [endpoints EXCEPT ![f] = edits[u].row]
          /\ paused' = IF edits[u].row.active THEN paused ELSE paused \cup {f}
      BY <1>4, <2>3 DEF UpdateWrite
    <3>2. edits[u].row.exists
      BY <2>1 DEF Endpoint
    <3>3. PausedInv'
      BY <2>1, <2>2, <3>1 DEF PausedInv
    <3>4. Referred
      BY <1>0, <2>1, <2>2, <3>1, <3>2
    <3>5. QED
      BY <3>1, <3>3, <3>4
  <2>4. CASE ~endpoints[f].exists
    <3>1. endpoints' = endpoints /\ paused' = paused
      BY <1>4, <2>4 DEF UpdateWrite
    <3>2. QED
      BY <3>1 DEF PausedInv, RowsInv
  <2>5. QED
    BY <2>3, <2>4
<1>5. ASSUME DeleteEndpoint(e)
      PROVE  PausedInv' /\ Referred /\ paused \subseteq paused'
  <2>1. /\ endpoints' = [endpoints EXCEPT ![e] = DeletedEndpoint]
        /\ \A d \in Deliveries : rows[d] # NoRow => rows[d].endpoint # e
    BY <1>5 DEF DeleteEndpoint
  <2>2. endpoints \in [Endpoints -> Endpoint \cup {NoEndpoint, DeletedEndpoint}] /\ paused' = paused
    BY <1>5 DEF TypeOK, DeleteEndpoint, history
  <2>3. PausedInv'
    BY <2>1, <2>2 DEF PausedInv, DeletedEndpoint
  <2>4. Referred
    BY <1>0, <2>1, <2>2
  <2>5. QED
    BY <2>2, <2>3, <2>4
<1>6. PausedInv' /\ Referred /\ paused \subseteq paused'
  BY <1>2, <1>3, <1>4, <1>5
<1>7. RowsInv' /\ BatchInv' /\ TaskInv'
  <2>1. now' \in Nat /\ now <= now'
    BY <1>1
  <2>2. QED
    BY <1>1, <1>6, <2>1, DeliveriesUntouched
<1>8. QED
  BY <1>6, <1>7

(* Enqueue: no worker holds a copy of a row that did not exist. *)
LEMMA EnqueueStep ==
  ASSUME IInv, TypeOK', NEW d \in Deliveries, NEW e \in Endpoints, Enqueue(d, e)
  PROVE  IInv'
<1> USE DEF IInv
<1> DEFINE new == [status |-> "pending", endpoint |-> e, attempts |-> 0,
                   next |-> 0, created |-> now]
<1>1. /\ rows[d] = NoRow /\ endpoints[e].exists
      /\ rows' = [rows EXCEPT ![d] = new]
      /\ UNCHANGED <<now, endpoints, batch, task, answers, paused>>
  BY DEF Enqueue, history
<1>2. /\ rows \in [Deliveries -> Row \cup {NoRow}]
      /\ answers \in [Deliveries -> [Answer -> Nat]]
  BY DEF TypeOK
<1>3. \A x \in Deliveries, row \in Row : Copied(x, row) => Copied(x, row)'
  BY <1>1, <1>2 DEF Copied, Explained
<1>4. RowsInv'
  <2> SUFFICES ASSUME NEW x \in Deliveries, rows'[x] # NoRow
               PROVE  endpoints[rows'[x].endpoint].exists /\ Explained(x, rows[x])'
    BY <1>1 DEF RowsInv
  <2>1. CASE x = d
    <3>1. rows'[x] = new /\ answers[x]["error"] \in Nat
      BY <1>1, <1>2, <2>1 DEF Answer
    <3>2. QED
      BY <1>1, <3>1 DEF Explained
  <2>2. CASE x # d
    <3>1. rows'[x] = rows[x]
      BY <1>1, <1>2, <2>2
    <3>2. QED
      BY <1>1, <3>1 DEF RowsInv, Explained
  <2>3. QED
    BY <2>1, <2>2
<1>5. BatchInv'
  BY <1>1, <1>3 DEF BatchInv, TypeOK
<1>6. TaskInv'
  <2> SUFFICES ASSUME NEW w \in Workers, task[w] # NoTask
               PROVE  /\ Copied(task[w].delivery, task[w].row)'
                      /\ task[w].step = "send" =>
                           task[w].row.status = "pending" /\ task[w].row.next <= now'
    BY <1>1 DEF TaskInv
  <2>1. task[w].delivery \in Deliveries /\ task[w].row \in Row
    BY DEF TypeOK
  <2>2. QED
    BY <1>1, <1>3, <2>1 DEF TaskInv, Copied, Explained
<1>7. PausedInv'
  BY <1>1 DEF PausedInv
<1>8. QED
  BY <1>4, <1>5, <1>6, <1>7

(* Poll: a copy of a row agrees with the row. *)
LEMMA PollStep ==
  ASSUME IInv, TypeOK', NEW w \in Workers, Poll(w)
  PROVE  IInv'
<1> USE DEF IInv
<1>1. UNCHANGED <<now, endpoints, rows, task, answers, paused>>
  BY DEF Poll, tables, history
<1>2. RowsInv' /\ TaskInv' /\ PausedInv'
  <2>1. now \in Nat /\ now <= now' /\ now' \in Nat
    BY <1>1 DEF TypeOK
  <2>2. QED
    BY <1>1, <2>1, DeliveriesUntouched DEF RowsInv, PausedInv
<1>3. PICK taken \in SUBSET Pending :
        batch' = [batch EXCEPT ![w] = {[delivery |-> d, row |-> rows[d]] : d \in taken}]
  BY DEF Poll
<1>4. \A d \in Pending : /\ Copied(d, rows[d])
                         /\ rows[d].status = "pending" /\ rows[d].next <= now
  BY DEF Pending, Due, RowsInv, Copied, NoRow
<1>5. BatchInv'
  <2> SUFFICES ASSUME NEW v \in Workers, NEW t \in batch'[v]
               PROVE  Copied(t.delivery, t.row)' /\ t.row.status = "pending" /\ t.row.next <= now
    BY <1>1 DEF BatchInv
  <2>1. Copied(t.delivery, t.row) /\ t.row.status = "pending" /\ t.row.next <= now
    <3>1. CASE v = w
      <4>1. PICK d \in taken : t = [delivery |-> d, row |-> rows[d]]
        BY <1>3, <3>1 DEF TypeOK
      <4>2. t.delivery = d /\ t.row = rows[d]
        BY <4>1
      <4>3. QED
        BY <1>4, <4>2
    <3>2. CASE v # w
      BY <1>3, <3>2 DEF TypeOK, BatchInv
    <3>3. QED
      BY <3>1, <3>2
  <2>2. QED
    BY <1>1, <2>1 DEF Copied, Explained
<1>6. QED
  BY <1>2, <1>5

(* Take: the endpoint of a copy exists, and if it is inactive it was paused. *)
LEMMA TakeStep ==
  ASSUME IInv, TypeOK', NEW w \in Workers, Take(w)
  PROVE  IInv'
<1> USE DEF IInv
<1>1. UNCHANGED <<now, endpoints, rows, answers, paused>>
  BY DEF Take, tables, history
<1>2. RowsInv' /\ PausedInv'
  <2>1. now \in Nat /\ now <= now' /\ now' \in Nat
    BY <1>1 DEF TypeOK
  <2>2. QED
    BY <1>1, <2>1, DeliveriesUntouched DEF RowsInv, PausedInv
<1>3. PICK t \in batch[w] :
        /\ batch' = [batch EXCEPT ![w] = @ \ {t}]
        /\ task' = [task EXCEPT ![w] =
                      IF ~endpoints[t.row.endpoint].active
                      THEN Holding("write", t.delivery, Skip(t.row))
                      ELSE IF endpoints[t.row.endpoint].usable
                      THEN Holding("send", t.delivery, t.row)
                      ELSE NoTask]
  BY DEF Take
<1>4. /\ t.delivery \in Deliveries /\ t.row \in Row
      /\ Copied(t.delivery, t.row) /\ t.row.status = "pending" /\ t.row.next <= now
  BY DEF TypeOK, BatchInv
<1>5. BatchInv'
  BY <1>1, <1>3 DEF BatchInv, TypeOK, Copied, Explained
<1>6. ASSUME ~endpoints[t.row.endpoint].active
      PROVE  Copied(t.delivery, Skip(t.row))
  <2>1. t.row.endpoint \in Endpoints /\ endpoints[t.row.endpoint].exists
    BY <1>4 DEF Copied, RowsInv, Row
  <2>2. t.row.endpoint \in paused
    BY <1>6, <2>1 DEF PausedInv
  <2>3. /\ Skip(t.row).status = "skipped"
        /\ Skip(t.row).endpoint = t.row.endpoint
        /\ Skip(t.row).attempts = t.row.attempts
    BY <1>4 DEF Skip, Row
  <2>4. QED
    BY <1>4, <2>2, <2>3 DEF Copied, Explained
<1>7. TaskInv'
  <2> SUFFICES ASSUME NEW v \in Workers, task'[v] # NoTask
               PROVE  /\ Copied(task[v].delivery, task[v].row)'
                      /\ task'[v].step = "send" =>
                           task'[v].row.status = "pending" /\ task'[v].row.next <= now
    BY <1>1 DEF TaskInv
  <2>1. CASE v # w
    <3>1. task'[v] = task[v]
      BY <1>3, <2>1 DEF TypeOK
    <3>2. QED
      BY <1>1, <3>1 DEF TaskInv, Copied, Explained
  <2>2. CASE v = w /\ ~endpoints[t.row.endpoint].active
    <3>1. /\ task'[v].step = "write"
          /\ task'[v].delivery = t.delivery
          /\ task'[v].row = Skip(t.row)
      BY <1>3, <2>2 DEF TypeOK, Holding
    <3>2. QED
      BY <1>1, <1>6, <2>2, <3>1 DEF Copied, Explained
  <2>3. CASE v = w /\ endpoints[t.row.endpoint].active
    <3>1. /\ task'[v].delivery = t.delivery
          /\ task'[v].row = t.row
      BY <1>3, <2>3 DEF TypeOK, Holding
    <3>2. QED
      BY <1>1, <1>4, <2>3, <3>1 DEF Copied, Explained
  <2>4. QED
    BY <2>1, <2>2, <2>3
<1>8. QED
  BY <1>2, <1>5, <1>7

(* Send: the answer is counted before the row says anything about it. *)
LEMMA SendStep ==
  ASSUME IInv, TypeOK', NEW w \in Workers, Send(w)
  PROVE  IInv'
<1> USE DEF IInv
<1> DEFINE d == task[w].delivery
           row == task[w].row
<1>1. /\ task[w].step = "send" /\ task[w] # NoTask
      /\ UNCHANGED <<now, endpoints, rows, batch, paused>>
  BY DEF Send, tables, NoTask
<1>2. /\ d \in Deliveries /\ row \in Row
      /\ Copied(d, row) /\ row.status = "pending"
      /\ answers \in [Deliveries -> [Answer -> Nat]]
      /\ answers' \in [Deliveries -> [Answer -> Nat]]
      /\ now \in Nat
  BY <1>1 DEF TypeOK, TaskInv
<1>3. PICK a \in Answer :
        /\ answers' = [answers EXCEPT ![d][a] = @ + 1]
        /\ task' = [task EXCEPT ![w] = Holding("write", d, Answered(row, a))]
  BY DEF Send
<1>4. \A x \in Deliveries, b \in Answer : answers[x][b] <= answers'[x][b]
  BY <1>2, <1>3
<1>5. \A x \in Deliveries, r \in Row : Copied(x, r) => Copied(x, r)'
  BY <1>1, <1>2, <1>4, CopiedStays DEF Copied
<1>6. RowsInv'
  <2> SUFFICES ASSUME NEW x \in Deliveries, rows[x] # NoRow
               PROVE  Explained(x, rows[x])'
    BY <1>1 DEF RowsInv
  <2>1. \A r \in Row : Explained(x, r) => Explained(x, r)'
    BY <1>1, <1>2, <1>4, ExplainedStays
  <2>2. rows[x] \in Row /\ Explained(x, rows[x])
    BY DEF TypeOK, RowsInv
  <2>3. QED
    BY <1>1, <2>1, <2>2 DEF Explained
<1>7. BatchInv'
  BY <1>1, <1>5 DEF BatchInv, TypeOK
<1>8. PausedInv'
  BY <1>1 DEF PausedInv
<1>9. TaskInv'
  <2>1. ASSUME NEW v \in Workers, v # w, task'[v] # NoTask
        PROVE  /\ Copied(task[v].delivery, task[v].row)'
               /\ task'[v].step = "send" =>
                    task'[v].row.status = "pending" /\ task'[v].row.next <= now
    <3>1. task'[v] = task[v]
      BY <1>3, <2>1 DEF TypeOK
    <3>2. task[v].delivery \in Deliveries /\ task[v].row \in Row
      BY <2>1, <3>1 DEF TypeOK
    <3>3. QED
      BY <1>5, <2>1, <3>1, <3>2 DEF TaskInv, Copied, Explained
  <2>2. /\ Copied(task[w].delivery, task[w].row)'
        /\ task'[w].step = "write"
    <3> DEFINE new == Answered(row, a)
    <3>1. /\ task'[w].step = "write"
          /\ task'[w].delivery = d
          /\ task'[w].row = new
      BY <1>3 DEF TypeOK, Holding
    <3>2. /\ answers[d]["error"] \in Nat /\ row.attempts <= answers[d]["error"]
          /\ a = "error" => answers'[d]["error"] = answers[d]["error"] + 1
          /\ a # "error" => answers'[d]["error"] = answers[d]["error"]
          /\ a = "ok" => answers'[d]["ok"] > 0
          /\ a = "refused" => answers'[d]["refused"] > 0
      BY <1>2, <1>3 DEF Answer, Copied, Explained
    <3>3. /\ new.endpoint = row.endpoint
          /\ a = "ok" => new.status = "delivered"
          /\ a = "refused" => new.status = "failed"
          /\ a # "error" => new.attempts = row.attempts
          /\ a = "error" =>
               /\ new.status \in {"pending", "failed"}
               /\ new.status = "failed" => answers[d]["error"] + 1 >= Allowed
               /\ new.attempts <= answers[d]["error"] + 1
      BY <1>2, <3>2, AnsweredRow
    <3>4. /\ new.attempts <= answers'[d]["error"]
          /\ new.status = "delivered" => answers'[d]["ok"] > 0
          /\ new.status = "failed" => answers'[d]["refused"] > 0 \/ answers'[d]["error"] >= Allowed
          /\ new.status # "skipped"
      BY <3>2, <3>3 DEF Answer
    <3>5. rows[d] # NoRow /\ rows[d].endpoint = row.endpoint
      BY <1>2 DEF Copied
    <3>6. QED
      BY <1>1, <3>1, <3>3, <3>4, <3>5 DEF Copied, Explained, Allowed
  <2>3. QED
    BY <1>1, <2>1, <2>2 DEF TaskInv
<1>10. QED
  BY <1>6, <1>7, <1>8, <1>9

(* Write: the row becomes the copy, of the same endpoint, so the other copies
   of the delivery stay copies. *)
LEMMA WriteStep ==
  ASSUME IInv, TypeOK', NEW w \in Workers, Write(w)
  PROVE  IInv'
<1> USE DEF IInv
<1> DEFINE d == task[w].delivery
           row == task[w].row
<1>1. /\ task[w] # NoTask
      /\ rows' = [rows EXCEPT ![d] = row]
      /\ task' = [task EXCEPT ![w] = NoTask]
      /\ UNCHANGED <<now, endpoints, batch, answers, paused>>
  BY DEF Write, history, NoTask
<1>2. /\ d \in Deliveries /\ row \in Row /\ Copied(d, row)
      /\ rows \in [Deliveries -> Row \cup {NoRow}]
  BY <1>1 DEF TypeOK, TaskInv
<1>3. row # NoRow /\ rows[d] # NoRow /\ rows[d].endpoint = row.endpoint
  BY <1>2 DEF Copied, Row, NoRow
<1>4. \A x \in Deliveries, r \in Row : Copied(x, r) => Copied(x, r)'
  BY <1>1, <1>2, <1>3 DEF Copied, Explained
<1>5. RowsInv'
  <2> SUFFICES ASSUME NEW x \in Deliveries, rows'[x] # NoRow
               PROVE  endpoints[rows'[x].endpoint].exists /\ Explained(x, rows[x])'
    BY <1>1 DEF RowsInv
  <2>1. CASE x = d
    <3>1. rows'[x] = row
      BY <1>1, <1>2, <2>1
    <3>2. endpoints[row.endpoint].exists
      BY <1>2, <1>3 DEF RowsInv
    <3>3. QED
      BY <1>1, <1>2, <2>1, <3>1, <3>2 DEF Copied, Explained
  <2>2. CASE x # d
    <3>1. rows'[x] = rows[x]
      BY <1>1, <1>2, <2>2
    <3>2. QED
      BY <1>1, <3>1 DEF RowsInv, Explained
  <2>3. QED
    BY <2>1, <2>2
<1>6. BatchInv'
  BY <1>1, <1>4 DEF BatchInv, TypeOK
<1>7. TaskInv'
  <2> SUFFICES ASSUME NEW v \in Workers, task'[v] # NoTask
               PROVE  /\ Copied(task[v].delivery, task[v].row)'
                      /\ task'[v].step = "send" =>
                           task'[v].row.status = "pending" /\ task'[v].row.next <= now
    BY <1>1 DEF TaskInv
  <2>1. task'[v] = task[v]
    BY <1>1 DEF TypeOK
  <2>2. task[v].delivery \in Deliveries /\ task[v].row \in Row
    BY <2>1 DEF TypeOK
  <2>3. QED
    BY <1>4, <2>1, <2>2 DEF TaskInv, Copied, Explained
<1>8. PausedInv'
  BY <1>1 DEF PausedInv
<1>9. QED
  BY <1>5, <1>6, <1>7, <1>8

(* Abort: a worker drops what it holds. *)
LEMMA AbortStep ==
  ASSUME IInv, TypeOK', NEW w \in Workers, Abort(w)
  PROVE  IInv'
<1> USE DEF IInv
<1>1. UNCHANGED <<now, endpoints, rows, answers, paused>>
  BY DEF Abort, tables, history
<1>2. RowsInv' /\ PausedInv'
  <2>1. now \in Nat /\ now <= now' /\ now' \in Nat
    BY <1>1 DEF TypeOK
  <2>2. QED
    BY <1>1, <2>1, DeliveriesUntouched DEF RowsInv, PausedInv
<1>3. BatchInv'
  <2>1. \A v \in Workers : batch'[v] \subseteq batch[v]
    BY DEF Abort, TypeOK
  <2>2. QED
    BY <1>1, <2>1 DEF BatchInv, Copied, Explained
<1>4. TaskInv'
  <2>1. \A v \in Workers : task'[v] = NoTask \/ task'[v] = task[v]
    BY DEF Abort, TypeOK
  <2>2. QED
    BY <1>1, <2>1 DEF TaskInv, Copied, Explained
<1>5. QED
  BY <1>2, <1>3, <1>4

(* IInv is inductive. *)
LEMMA StepIInv == IInv /\ [Next]_vars => IInv'
<1> SUFFICES ASSUME IInv, [Next]_vars
             PROVE  IInv'
  OBVIOUS
<1>1. TypeOK'
  BY StepTypes DEF IInv
<1>2. ASSUME UNCHANGED <<endpoints, rows, batch, task, answers, paused>>, now' \in {now, now + 1}
      PROVE  IInv'
  <2>1. now \in Nat /\ now' \in Nat /\ now <= now'
    BY <1>2 DEF IInv, TypeOK
  <2>2. RowsInv' /\ BatchInv' /\ TaskInv'
    BY <1>1, <1>2, <2>1, DeliveriesUntouched DEF IInv, RowsInv
  <2>3. PausedInv'
    BY <1>2 DEF IInv, PausedInv
  <2>4. QED
    BY <1>1, <2>2, <2>3 DEF IInv
<1>3. CASE Tick
  BY <1>2, <1>3 DEF Tick, tables, history
<1>4. CASE UNCHANGED vars
  BY <1>2, <1>4 DEF vars, tables, history
<1>5. ASSUME NEW w \in Workers, Work(w) \/ Abort(w)
      PROVE  IInv'
  BY <1>1, <1>5, PollStep, TakeStep, SendStep, WriteStep, AbortStep DEF Work
<1>6. ASSUME NEW d \in Deliveries, NEW e \in Endpoints, Enqueue(d, e)
      PROVE  IInv'
  BY <1>1, <1>6, EnqueueStep
<1>7. ASSUME NEW e \in Endpoints,
             \/ \E usable \in BOOLEAN : CreateEndpoint(e, usable)
             \/ \E u \in Editors, changed \in Endpoint : UpdateRead(u, e, changed)
             \/ DeleteEndpoint(e)
      PROVE  IInv'
  BY <1>1, <1>7, EndpointSteps
<1>8. ASSUME NEW u \in Editors, UpdateWrite(u)
      PROVE  IInv'
  <2>1. edits[u].endpoint \in Endpoints
    BY <1>8 DEF UpdateWrite, NoEdit, IInv, TypeOK
  <2>2. QED
    BY <1>1, <1>8, <2>1, EndpointSteps
<1>9. QED
  BY <1>3, <1>4, <1>5, <1>6, <1>7, <1>8 DEF Next, Rest

(* Every reachable state satisfies the invariant. *)
THEOREM Invariance == Spec => []IInv
<1>1. Init => IInv
  BY InitIInv
<1>2. IInv /\ [Next]_vars => IInv'
  BY StepIInv
<1>3. QED
  BY <1>1, <1>2, PTL DEF Spec

(* Rows, copies and edits always have their types. *)
THEOREM TypeCorrect == Spec => []TypeOK
<1>1. IInv => TypeOK
  BY DEF IInv
<1>2. QED
  BY <1>1, Invariance, PTL

(* However many workers process a delivery, however often they die: it never
   counts more attempts than there were failed requests. *)
THEOREM AttemptsHonest == Spec => []AttemptsAreErrors
<1>1. IInv => AttemptsAreErrors
  BY DEF IInv, RowsInv, Explained, AttemptsAreErrors
<1>2. QED
  BY <1>1, Invariance, PTL

(* A delivery is delivered, failed or skipped only for the reason the status
   stands for, although a stale copy may have been written last. *)
THEOREM SettledHonest == Spec => []SettledIsExplained
<1>1. IInv => SettledIsExplained
  BY DEF IInv, RowsInv, Explained, SettledIsExplained, NoRow
<1>2. QED
  BY <1>1, Invariance, PTL

(* No request is sent before its retry time. *)
THEOREM BackoffRespected == Spec => []BackoffKept
<1>1. IInv => BackoffKept
  BY DEF IInv, TaskInv, BackoffKept, NoTask
<1>2. QED
  BY <1>1, Invariance, PTL

-----------------------------------------------------------------------------
(* Delivery, the abstract specification *)

(* A row, committed or copied, has attempts left; and if it was given up without
   a refusal, it had none left but the last, which failed. *)
Within(d, row) ==
  /\ row.attempts < Allowed
  /\ row.status = "failed" =>
       \/ answers[d]["refused"] > 0
       \/ row.attempts = Allowed - 1 /\ answers[d]["error"] >= Allowed

WithinInv ==
  /\ \A d \in Deliveries : rows[d] # NoRow => Within(d, rows[d])
  /\ \A w \in Workers : \A t \in batch[w] : Within(t.delivery, t.row)
  /\ \A w \in Workers : task[w] # NoTask => Within(task[w].delivery, task[w].row)

LEMMA AllowedNumber == Allowed \in Nat \ {0} /\ Allowed - 1 <= MaxRetries /\ Allowed - 1 <= Len(Delays)
<1>1. MaxRetries \in Nat /\ Len(Delays) \in Nat
  BY WebhooksAssumption
<1>2. QED
  BY <1>1 DEF Allowed

(* What an answer makes of a row that is pending. *)
LEMMA AnsweredWithin ==
  ASSUME NEW row \in Row, NEW a \in Answer, now \in Nat, NEW errors \in Nat,
         row.attempts <= errors, row.status = "pending", row.attempts < Allowed
  PROVE  /\ Answered(row, a) \in Row
         /\ Answered(row, a).attempts < Allowed
         /\ \/ /\ a = "ok" /\ Answered(row, a).status = "delivered"
               /\ Answered(row, a).attempts = row.attempts
            \/ /\ a = "refused" /\ Answered(row, a).status = "failed"
               /\ Answered(row, a).attempts = row.attempts
            \/ /\ a = "error" /\ Answered(row, a).status = "failed"
               /\ Answered(row, a).attempts = row.attempts
               /\ row.attempts = Allowed - 1 /\ errors + 1 >= Allowed
            \/ /\ a = "error" /\ Answered(row, a).status = "pending"
               /\ Answered(row, a).attempts = row.attempts + 1
<1> USE WebhooksAssumption
<1>1. /\ row.attempts \in Nat /\ Len(Delays) \in Nat /\ Allowed \in Nat
      /\ Allowed = 1 + IF MaxRetries < Len(Delays) THEN MaxRetries ELSE Len(Delays)
  BY DEF Row, Allowed
<1>2. CASE a = "ok"
  BY <1>2 DEF Answered, MarkDelivered, Row
<1>3. CASE a = "refused"
  BY <1>3 DEF Answered, MarkFailed, Row
<1>4. CASE a = "error"
  <2> DEFINE delay == GetRetryDelay(row.attempts + 1)
  <2>1. Answered(row, a) = HandleDeliveryError(row)
    BY <1>4 DEF Answered
  <2>2. delay \in Nat
    BY <1>1 DEF GetRetryDelay
  <2>3. CASE row.attempts >= MaxRetries \/ delay = 0
    <3>1. Answered(row, a) = MarkFailed(row)
      BY <2>1, <2>3 DEF HandleDeliveryError
    <3>2. row.attempts >= MaxRetries \/ row.attempts >= Len(Delays)
      BY <1>1, <2>3 DEF GetRetryDelay
    <3>3. row.attempts = Allowed - 1 /\ errors + 1 >= Allowed
      BY <1>1, <3>2
    <3>4. QED
      BY <1>4, <3>1, <3>3 DEF MarkFailed, Row
  <2>4. CASE ~(row.attempts >= MaxRetries \/ delay = 0)
    <3>1. Answered(row, a) = ScheduleRetry(row, delay)
      BY <2>1, <2>4 DEF HandleDeliveryError
    <3>2. /\ ScheduleRetry(row, delay) \in Row
          /\ ScheduleRetry(row, delay).status = "pending"
          /\ ScheduleRetry(row, delay).attempts = row.attempts + 1
      BY <2>2, RetryRow
    <3>3. row.attempts + 1 <= Len(Delays) /\ row.attempts < MaxRetries
      BY <1>1, <2>4 DEF GetRetryDelay
    <3>4. row.attempts + 1 < Allowed
      BY <1>1, <3>3
    <3>5. QED
      BY <1>4, <3>1, <3>2, <3>4
  <2>5. QED
    BY <2>3, <2>4
<1>5. QED
  BY <1>2, <1>3, <1>4 DEF Answer

(* Answers are only added. *)
LEMMA AnswersGrow ==
  ASSUME IInv, [Next]_vars
  PROVE  /\ answers \in [Deliveries -> [Answer -> Nat]]
         /\ answers' \in [Deliveries -> [Answer -> Nat]]
         /\ \A d \in Deliveries, a \in Answer : answers[d][a] <= answers'[d][a]
<1>1. answers \in [Deliveries -> [Answer -> Nat]] /\ answers' \in [Deliveries -> [Answer -> Nat]]
  BY StepTypes DEF IInv, TypeOK
<1>2. ASSUME NEW w \in Workers, Send(w)
      PROVE  \A d \in Deliveries, a \in Answer : answers[d][a] <= answers'[d][a]
  <2>1. PICK a \in Answer : answers' = [answers EXCEPT ![task[w].delivery][a] = @ + 1]
    BY <1>2 DEF Send
  <2>2. QED
    BY <1>1, <2>1
<1>3. CASE UNCHANGED answers
  BY <1>1, <1>3
<1>4. (\E w \in Workers : Send(w)) \/ UNCHANGED answers
  BY DEF Next, Rest, vars, history, CreateEndpoint, Enqueue, UpdateRead, UpdateWrite,
     DeleteEndpoint, Work, Poll, Take, Write, Abort, Tick
<1>5. QED
  BY <1>1, <1>2, <1>3, <1>4

LEMMA WithinStays ==
  ASSUME NEW d \in Deliveries, NEW row \in Row, Within(d, row),
         answers \in [Deliveries -> [Answer -> Nat]],
         answers' \in [Deliveries -> [Answer -> Nat]],
         \A a \in Answer : answers[d][a] <= answers'[d][a]
  PROVE  Within(d, row)'
<1>1. /\ answers[d]["refused"] \in Nat /\ answers'[d]["refused"] \in Nat
      /\ answers[d]["error"] \in Nat /\ answers'[d]["error"] \in Nat
      /\ answers[d]["refused"] <= answers'[d]["refused"]
      /\ answers[d]["error"] <= answers'[d]["error"]
  BY DEF Answer
<1>2. row.attempts \in Nat /\ Allowed \in Nat
  BY AllowedNumber DEF Row
<1>3. QED
  BY <1>1, <1>2 DEF Within, Allowed

(* The kinds of a step: a worker's, a new delivery, or one that concerns neither
   deliveries nor workers. *)
LEMMA MailKinds ==
  ASSUME [Next]_vars
  PROVE  \/ \E w \in Workers : Poll(w) \/ Take(w) \/ Send(w) \/ Write(w) \/ Abort(w)
         \/ \E d \in Deliveries, e \in Endpoints : Enqueue(d, e)
         \/ UNCHANGED <<rows, batch, task, answers>>
BY DEF Next, Rest, vars, tables, history, CreateEndpoint, UpdateRead, UpdateWrite,
   DeleteEndpoint, Work, Tick

LEMMA WithinStep ==
  ASSUME IInv, WithinInv, [Next]_vars
  PROVE  WithinInv'
<1>0. TypeOK /\ now \in Nat /\ TaskInv
  BY DEF IInv, TypeOK
<1>1. ASSUME NEW d \in Deliveries, NEW row \in Row, Within(d, row)
      PROVE  Within(d, row)'
  BY <1>1, AnswersGrow, WithinStays
<1>2. \A d \in Deliveries : rows[d] # NoRow => rows[d] \in Row /\ Within(d, rows[d])
  BY <1>0 DEF TypeOK, WithinInv
<1>3. \A w \in Workers : \A t \in batch[w] :
        t.delivery \in Deliveries /\ t.row \in Row /\ Within(t.delivery, t.row)
  BY <1>0 DEF TypeOK, WithinInv
<1>4. \A w \in Workers :
        task[w] # NoTask => /\ task[w].delivery \in Deliveries /\ task[w].row \in Row
                            /\ Within(task[w].delivery, task[w].row)
  BY <1>0 DEF TypeOK, WithinInv
<1> DEFINE RowsKept ==
             \A d \in Deliveries : rows'[d] # NoRow =>
               /\ rows'[d] \in Row
               /\ Within(d, rows'[d]) \/ \E row \in Row : rows'[d] = row /\ Within(d, row)'
           BatchKept ==
             \A w \in Workers : \A t \in batch'[w] :
               t.delivery \in Deliveries /\ t.row \in Row /\ Within(t.delivery, t.row)
           TaskKept ==
             \A w \in Workers : task'[w] # NoTask =>
               \E d \in Deliveries, row \in Row :
                 task'[w].delivery = d /\ task'[w].row = row /\ Within(d, row)'
<1>5. SUFFICES RowsKept /\ BatchKept /\ TaskKept
  <2>1. ASSUME NEW d \in Deliveries, NEW row \in Row, rows'[d] = row, Within(d, row)'
        PROVE  Within(d, rows[d])'
    BY <2>1 DEF Within
  <2>2. ASSUME NEW w \in Workers, NEW d \in Deliveries, NEW row \in Row,
               task'[w].delivery = d, task'[w].row = row, Within(d, row)'
        PROVE  Within(task[w].delivery, task[w].row)'
    BY <2>2 DEF Within
  <2>3. ASSUME NEW d \in Deliveries, rows'[d] \in Row, Within(d, rows'[d])
        PROVE  Within(d, rows[d])'
    <3>1. PICK row \in Row : row = rows'[d]
      BY <2>3
    <3>2. QED
      BY <1>1, <2>1, <2>3, <3>1
  <2>4. QED
    BY <1>1, <2>1, <2>2, <2>3 DEF WithinInv
<1>6. ASSUME NEW w \in Workers, task'[w] = task[w], task[w] # NoTask
      PROVE  \E d \in Deliveries, row \in Row :
               task'[w].delivery = d /\ task'[w].row = row /\ Within(d, row)'
  BY <1>1, <1>4, <1>6
<1>7. CASE UNCHANGED <<rows, batch, task, answers>>
  BY <1>2, <1>3, <1>6, <1>7
<1>8. ASSUME NEW d \in Deliveries, NEW e \in Endpoints, Enqueue(d, e)
      PROVE  RowsKept /\ BatchKept /\ TaskKept
  <2> DEFINE new == [status |-> "pending", endpoint |-> e, attempts |-> 0, next |-> 0, created |-> now]
  <2>1. rows' = [rows EXCEPT ![d] = new] /\ UNCHANGED <<batch, task, answers>>
    BY <1>8 DEF Enqueue, history
  <2>2. new \in Row /\ Within(d, new)
    BY <1>0, AllowedNumber DEF Row, Within
  <2> HIDE DEF new
  <2>3. \A f \in Deliveries : rows'[f] # NoRow => rows'[f] \in Row /\ Within(f, rows'[f])
    BY <1>0, <1>2, <2>1, <2>2 DEF TypeOK
  <2>4. QED
    BY <1>3, <1>5, <1>6, <2>1, <2>3
<1>9. ASSUME NEW w \in Workers, Poll(w)
      PROVE  RowsKept /\ BatchKept /\ TaskKept
  <2>1. PICK taken \in SUBSET Pending :
          batch' = [batch EXCEPT ![w] = {[delivery |-> d, row |-> rows[d]] : d \in taken}]
    BY <1>9 DEF Poll
  <2>2. \A d \in taken : d \in Deliveries /\ rows[d] # NoRow
    BY DEF Pending, Due, NoRow
  <2>3. \A v \in Workers : \A t \in batch'[v] :
          t.delivery \in Deliveries /\ t.row \in Row /\ Within(t.delivery, t.row)
    BY <1>0, <1>2, <1>3, <2>1, <2>2 DEF TypeOK
  <2>4. UNCHANGED <<rows, task, answers>>
    BY <1>9 DEF Poll, tables, history
  <2>5. QED
    BY <1>2, <1>5, <1>6, <2>3, <2>4
<1>10. ASSUME NEW w \in Workers, Take(w)
       PROVE  RowsKept /\ BatchKept /\ TaskKept
  <2>1. PICK t \in batch[w] :
          /\ batch' = [batch EXCEPT ![w] = @ \ {t}]
          /\ task' = [task EXCEPT ![w] =
                        IF ~endpoints[t.row.endpoint].active THEN Holding("write", t.delivery, Skip(t.row))
                        ELSE IF endpoints[t.row.endpoint].usable THEN Holding("send", t.delivery, t.row)
                        ELSE NoTask]
    BY <1>10 DEF Take
  <2>2. UNCHANGED <<rows, answers>>
    BY <1>10 DEF Take, tables, history
  <2>3. Skip(t.row) \in Row /\ Within(t.delivery, Skip(t.row))
    BY <1>3 DEF Skip, Row, Within
  <2>4. \A v \in Workers : task'[v] # task[v] =>
          \/ task'[v] = NoTask
          \/ task'[v].delivery = t.delivery /\ task'[v].row \in {t.row, Skip(t.row)}
    BY <1>0, <2>1 DEF TypeOK, Holding
  <2>5. \A row \in {t.row, Skip(t.row)} : row \in Row /\ Within(t.delivery, row)'
    BY <1>1, <1>3, <2>3
  <2>6. \A v \in Workers : batch'[v] \subseteq batch[v]
    BY <1>0, <2>1 DEF TypeOK
  <2>7. QED
    BY <1>2, <1>3, <1>5, <1>6, <2>2, <2>4, <2>5, <2>6
<1>11. ASSUME NEW w \in Workers, Send(w)
       PROVE  RowsKept /\ BatchKept /\ TaskKept
  <2>1. PICK d, row : d = task[w].delivery /\ row = task[w].row
    OBVIOUS
  <2>2. PICK a \in Answer :
          /\ answers' = [answers EXCEPT ![d][a] = @ + 1]
          /\ task' = [task EXCEPT ![w] = Holding("write", d, Answered(row, a))]
    BY <1>11, <2>1 DEF Send
  <2>3. UNCHANGED <<rows, batch>> /\ task[w] # NoTask /\ task[w].step = "send"
    BY <1>11 DEF Send, tables, NoTask
  <2>4. d \in Deliveries /\ row \in Row /\ Within(d, row) /\ row.status = "pending"
    BY <1>0, <1>4, <2>1, <2>3 DEF TaskInv
  <2>5. row.attempts <= answers[d]["error"]
    BY <1>0, <2>1, <2>3 DEF TaskInv, Copied, Explained
  <2>6. /\ answers[d]["error"] \in Nat /\ answers[d]["refused"] \in Nat
        /\ answers'[d][a] = answers[d][a] + 1
    BY <1>0, <2>2, <2>4 DEF TypeOK, Answer
  <2>7. PICK after : after = Answered(row, a)
    OBVIOUS
  <2>8. after \in Row /\ Within(d, after)'
    <3>1. row.attempts < Allowed
      BY <2>4 DEF Within
    <3>2. /\ after \in Row /\ after.attempts < Allowed
          /\ \/ after.status = "delivered"
             \/ after.status = "failed" /\ a = "refused"
             \/ /\ after.status = "failed" /\ a = "error" /\ after.attempts = row.attempts
                /\ row.attempts = Allowed - 1 /\ answers[d]["error"] + 1 >= Allowed
             \/ after.status = "pending"
      BY <1>0, <2>4, <2>5, <2>6, <2>7, <3>1, AnsweredWithin
    <3>3. QED
      BY <2>6, <3>2 DEF Within, Allowed
  <2>9. task'[w].delivery = d /\ task'[w].row = after /\ \A v \in Workers \ {w} : task'[v] = task[v]
    BY <1>0, <2>2, <2>7 DEF TypeOK, Holding
  <2>10. QED
    BY <1>2, <1>3, <1>5, <1>6, <2>3, <2>4, <2>8, <2>9
<1>12. ASSUME NEW w \in Workers, Write(w)
       PROVE  RowsKept /\ BatchKept /\ TaskKept
  <2>1. /\ task[w] # NoTask
        /\ rows' = [rows EXCEPT ![task[w].delivery] = task[w].row]
        /\ task' = [task EXCEPT ![w] = NoTask]
        /\ UNCHANGED <<batch, answers>>
    BY <1>12 DEF Write, history, NoTask
  <2>2. \A d \in Deliveries : rows'[d] # NoRow => rows'[d] \in Row /\ Within(d, rows'[d])
    BY <1>0, <1>2, <1>4, <2>1 DEF TypeOK
  <2>3. \A v \in Workers : task'[v] \in {NoTask, task[v]}
    BY <1>0, <2>1 DEF TypeOK
  <2>4. QED
    BY <1>3, <1>5, <1>6, <2>1, <2>2, <2>3
<1>13. ASSUME NEW w \in Workers, Abort(w)
       PROVE  RowsKept /\ BatchKept /\ TaskKept
  <2>1. UNCHANGED <<rows, answers>>
    BY <1>13 DEF Abort, tables, history
  <2>2. \A v \in Workers : task'[v] \in {NoTask, task[v]} /\ batch'[v] \subseteq batch[v]
    BY <1>0, <1>13 DEF Abort, TypeOK
  <2>3. QED
    BY <1>2, <1>3, <1>5, <1>6, <2>1, <2>2
<1>14. QED
  BY <1>7, <1>8, <1>9, <1>10, <1>11, <1>12, <1>13, MailKinds

(* The record of a row. *)
RecordOf(row) == [status |-> row.status, attempts |-> row.attempts]

LEMMA RecordedRow ==
  ASSUME TypeOK, NEW d \in Deliveries
  PROVE  /\ rows[d] = NoRow => Recorded[d] = Mail!Unknown
         /\ rows[d] # NoRow => /\ Recorded[d] = RecordOf(rows[d])
                               /\ Recorded[d] # Mail!Unknown
<1>1. rows[d] # NoRow => rows[d] \in Row
  BY DEF TypeOK
<1>2. \A row \in Row : RecordOf(row).status # "none"
  BY DEF RecordOf, Row
<1>3. QED
  BY <1>1, <1>2 DEF Recorded, RecordOf, Mail!Unknown

(* A row that is written is a record that is written. *)
LEMMA RecordedWrite ==
  ASSUME TypeOK, NEW d \in Deliveries, NEW row \in Row, rows' = [rows EXCEPT ![d] = row]
  PROVE  Recorded' = [Recorded EXCEPT ![d] = RecordOf(row)]
<1>1. row # NoRow
  BY DEF Row, NoRow
<1>2. rows'[d] = row /\ \A f \in Deliveries \ {d} : rows'[f] = rows[f]
  BY DEF TypeOK
<1>3. QED
  BY <1>1, <1>2 DEF Recorded, RecordOf

(* A copy that is written is warranted by the answers. *)
LEMMA CopyWarranted ==
  ASSUME TypeOK, NEW d \in Deliveries, NEW row \in Row, Explained(d, row), Within(d, row)
  PROVE  RecordOf(row) \in Mail!Record /\ Mail!Warranted(d, RecordOf(row))
<1>1. row.attempts \in Nat /\ Allowed \in Nat /\ row.attempts <= Allowed - 1
  BY AllowedNumber DEF Row, Within
<1>2. RecordOf(row).attempts \in 0 .. Allowed - 1
  BY <1>1 DEF RecordOf
<1>3. RecordOf(row).status \in {"pending", "delivered", "failed", "skipped"}
  BY DEF RecordOf, Row
<1>4. RecordOf(row) \in Mail!Record
  BY <1>2, <1>3 DEF RecordOf, Mail!Record
<1>5. QED
  BY <1>4 DEF RecordOf, Mail!Warranted, Explained, Within

(* What the steps that write no copy are to the abstract delivery, however many
   workers there are. *)
LEMMA MailQuiet ==
  ASSUME IInv
  PROVE  /\ \A w \in Workers : Poll(w) \/ Take(w) \/ Abort(w) => UNCHANGED Mail!mailVars
         /\ \A d \in Deliveries, e \in Endpoints : Enqueue(d, e) => Mail!Accept(d)
<1>0. TypeOK /\ now \in Nat
  BY DEF IInv, TypeOK
<1>1. ASSUME NEW w \in Workers, Poll(w) \/ Take(w) \/ Abort(w)
      PROVE  UNCHANGED Mail!mailVars
  <2>1. UNCHANGED <<rows, answers>>
    BY <1>1 DEF Poll, Take, Abort, tables, history
  <2>2. QED
    BY <2>1 DEF Mail!mailVars, Recorded
<1>2. ASSUME NEW d \in Deliveries, NEW e \in Endpoints, Enqueue(d, e)
      PROVE  Mail!Accept(d)
  <2>1. PICK new : new = [status |-> "pending", endpoint |-> e, attempts |-> 0,
                          next |-> 0, created |-> now]
    OBVIOUS
  <2>2. new \in Row /\ RecordOf(new) = [status |-> "pending", attempts |-> 0]
    BY <1>0, <2>1 DEF Row, RecordOf
  <2>3. rows[d] = NoRow /\ rows' = [rows EXCEPT ![d] = new] /\ UNCHANGED answers
    BY <1>2, <2>1 DEF Enqueue, history
  <2>4. Recorded' = [Recorded EXCEPT ![d] = RecordOf(new)]
    BY <1>0, <2>2, <2>3, RecordedWrite
  <2>5. QED
    BY <1>0, <2>2, <2>3, <2>4, RecordedRow DEF Mail!Accept, Mail!Write
<1>3. QED
  BY <1>1, <1>2

(* What a worker has in hand is of a known delivery and may be recorded. *)
LEMMA HeldIsWarranted ==
  ASSUME IInv, WithinInv, NEW w \in Workers, task[w] # NoTask
  PROVE  /\ task[w].delivery \in Deliveries /\ task[w].row \in Row
         /\ rows[task[w].delivery] # NoRow
         /\ Recorded[task[w].delivery] # Mail!Unknown
         /\ RecordOf(task[w].row) \in Mail!Record
         /\ Mail!Warranted(task[w].delivery, RecordOf(task[w].row))
<1>0. TypeOK /\ TaskInv
  BY DEF IInv
<1>1. PICK d, row : d = task[w].delivery /\ row = task[w].row
  OBVIOUS
<1>2. d \in Deliveries /\ row \in Row
  BY <1>0, <1>1 DEF TypeOK
<1>3. rows[d] # NoRow /\ Explained(d, row) /\ Within(d, row)
  BY <1>0, <1>1 DEF TaskInv, Copied, WithinInv
<1>4. QED
  BY <1>0, <1>1, <1>2, <1>3, RecordedRow, CopyWarranted

(* A request that is sent is one answer more; the records stay. *)
LEMMA SentIsAnswered ==
  ASSUME IInv, NEW w \in Workers, Send(w)
  PROVE  /\ task[w].step = "send" /\ task[w] # NoTask
         /\ UNCHANGED Recorded
         /\ \E o \in Mail!Outcome : answers' = [answers EXCEPT ![task[w].delivery][o] = @ + 1]
<1>1. task[w].step = "send" /\ task[w] # NoTask /\ UNCHANGED rows
  BY DEF Send, NoTask, tables
<1>2. \E a \in Answer : answers' = [answers EXCEPT ![task[w].delivery][a] = @ + 1]
  BY DEF Send
<1>3. QED
  BY <1>1, <1>2 DEF Recorded, Mail!Outcome, Answer

(* A copy that is written back is a record that is written. *)
LEMMA CopyIsRecorded ==
  ASSUME IInv, NEW w \in Workers, Write(w)
  PROVE  /\ task[w].step = "write" /\ task[w] # NoTask
         /\ Mail!Write(task[w].delivery, RecordOf(task[w].row))
<1>0. TypeOK
  BY DEF IInv
<1>1. PICK d, row : d = task[w].delivery /\ row = task[w].row
  OBVIOUS
<1>2. task[w].step = "write" /\ task[w] # NoTask
  BY DEF Write, NoTask
<1>3. rows' = [rows EXCEPT ![d] = row] /\ UNCHANGED answers
  BY <1>1 DEF Write, history
<1>4. d \in Deliveries /\ row \in Row
  BY <1>0, <1>1, <1>2 DEF TypeOK
<1>5. Recorded' = [Recorded EXCEPT ![d] = RecordOf(row)]
  BY <1>0, <1>3, <1>4, RecordedWrite
<1>6. QED
  BY <1>1, <1>2, <1>3, <1>5 DEF Mail!Write

LEMMA InitMail == Init => WithinInv /\ Mail!Init
<1> SUFFICES ASSUME Init PROVE WithinInv /\ Mail!Init
  OBVIOUS
<1>1. Recorded = [d \in Deliveries |-> [status |-> "none", attempts |-> 0]]
  BY DEF Init, Recorded
<1>2. answers = [d \in Deliveries |-> [o \in {"ok", "refused", "error"} |-> 0]]
  BY DEF Init, Answer
<1>3. QED
  BY <1>1, <1>2 DEF Init, WithinInv, Mail!Init, Mail!Unknown, Mail!Outcome

-----------------------------------------------------------------------------
(* One worker *)

(* What a row that is pending may become: settled, or one more failure counted. *)
Follows(row, old) ==
  \/ row.status # "pending" /\ row.attempts = old.attempts
  \/ row.status = "pending" /\ row.attempts = old.attempts + 1

(* The copies of the one worker are the rows; what it is about to write follows
   the row; and it has one copy of each delivery. *)
OneWorkerInv ==
  \A w \in Workers :
    /\ \A t \in batch[w] : t.row = rows[t.delivery]
    /\ task[w] # NoTask => \A t \in batch[w] : t.delivery # task[w].delivery
    /\ task[w].step = "send" => task[w].row = rows[task[w].delivery]
    /\ task[w].step = "write" =>
         /\ rows[task[w].delivery].status = "pending"
         /\ Follows(task[w].row, rows[task[w].delivery])

LEMMA OneWorkerStep ==
  ASSUME \A v, w \in Workers : v = w, IInv, WithinInv, OneWorkerInv, [Next]_vars
  PROVE  OneWorkerInv'
<1>0. TypeOK /\ now \in Nat /\ TaskInv /\ BatchInv
  BY DEF IInv, TypeOK
<1>1. CASE UNCHANGED <<rows, batch, task, answers>>
  BY <1>1 DEF OneWorkerInv
<1>2. ASSUME NEW d \in Deliveries, NEW e \in Endpoints, Enqueue(d, e)
      PROVE  OneWorkerInv'
  <2>1. rows[d] = NoRow /\ UNCHANGED <<batch, task>> /\ \A f \in Deliveries \ {d} : rows'[f] = rows[f]
    BY <1>0, <1>2 DEF Enqueue, TypeOK
  <2>2. \A w \in Workers : \A t \in batch[w] : t.delivery \in Deliveries /\ t.delivery # d
    BY <1>0, <2>1 DEF TypeOK, BatchInv, Copied
  <2>3. \A w \in Workers : task[w] # NoTask => task[w].delivery \in Deliveries /\ task[w].delivery # d
    BY <1>0, <2>1 DEF TypeOK, TaskInv, Copied
  <2>4. NoTask.step \notin {"send", "write"}
    BY DEF NoTask
  <2>5. QED
    BY <2>1, <2>2, <2>3, <2>4 DEF OneWorkerInv
<1>3. ASSUME NEW w \in Workers, Poll(w)
      PROVE  OneWorkerInv'
  <2>1. PICK taken \in SUBSET Pending :
          batch' = [batch EXCEPT ![w] = {[delivery |-> d, row |-> rows[d]] : d \in taken}]
    BY <1>3 DEF Poll
  <2>2. UNCHANGED <<rows, task>> /\ task[w] = NoTask
    BY <1>3 DEF Poll, tables
  <2>3. \A t \in batch'[w] : t.row = rows[t.delivery]
    BY <1>0, <2>1 DEF TypeOK
  <2>4. QED
    BY <2>2, <2>3 DEF OneWorkerInv, NoTask
<1>4. ASSUME NEW w \in Workers, Take(w)
      PROVE  OneWorkerInv'
  <2>1. PICK t \in batch[w] :
          /\ batch' = [batch EXCEPT ![w] = @ \ {t}]
          /\ task' = [task EXCEPT ![w] =
                        IF ~endpoints[t.row.endpoint].active THEN Holding("write", t.delivery, Skip(t.row))
                        ELSE IF endpoints[t.row.endpoint].usable THEN Holding("send", t.delivery, t.row)
                        ELSE NoTask]
    BY <1>4 DEF Take
  <2>2. UNCHANGED rows
    BY <1>4 DEF Take, tables
  <2>3. t.row \in Row /\ t.row = rows[t.delivery] /\ t.row.status = "pending"
    BY <1>0 DEF TypeOK, OneWorkerInv, BatchInv
  <2>4. batch'[w] = batch[w] \ {t}
    BY <1>0, <2>1 DEF TypeOK
  <2>5. \A o \in batch'[w] : o.row = rows[o.delivery] /\ o.delivery # t.delivery
    <3> SUFFICES ASSUME NEW o \in batch'[w]
                 PROVE  o.row = rows[o.delivery] /\ o.delivery # t.delivery
      OBVIOUS
    <3>1. o \in batch[w] /\ o # t /\ o.row = rows[o.delivery]
      BY <2>4 DEF OneWorkerInv
    <3>2. /\ o = [delivery |-> o.delivery, row |-> o.row]
          /\ t = [delivery |-> t.delivery, row |-> t.row]
      BY <1>0, <3>1 DEF TypeOK
    <3>3. QED
      BY <2>3, <3>1, <3>2
  <2>6. /\ Skip(t.row).status = "skipped" /\ Skip(t.row).attempts = t.row.attempts
    BY <2>3 DEF Skip, Row
  <2>7. \/ task'[w] = NoTask
        \/ /\ task'[w].step = "write" /\ task'[w].delivery = t.delivery
           /\ task'[w].row = Skip(t.row)
        \/ /\ task'[w].step = "send" /\ task'[w].delivery = t.delivery
           /\ task'[w].row = t.row
    BY <1>0, <2>1 DEF TypeOK, Holding
  <2>8. Follows(Skip(t.row), rows[t.delivery])
    BY <2>3, <2>6 DEF Follows
  <2>9. QED
    BY <2>2, <2>3, <2>5, <2>7, <2>8 DEF OneWorkerInv, NoTask, Follows
<1>5. ASSUME NEW w \in Workers, Send(w)
      PROVE  OneWorkerInv'
  <2>1. PICK d, row : d = task[w].delivery /\ row = task[w].row
    OBVIOUS
  <2>2. PICK a \in Answer :
          task' = [task EXCEPT ![w] = Holding("write", d, Answered(row, a))]
    BY <1>5, <2>1 DEF Send
  <2>3. UNCHANGED <<rows, batch>> /\ task[w] # NoTask /\ task[w].step = "send"
    BY <1>5 DEF Send, tables, NoTask
  <2>4. d \in Deliveries /\ row \in Row /\ row = rows[d] /\ row.status = "pending"
    BY <1>0, <2>1, <2>3 DEF TypeOK, TaskInv, OneWorkerInv
  <2>5. row.attempts <= answers[d]["error"] /\ row.attempts < Allowed /\ answers[d]["error"] \in Nat
    BY <1>0, <2>1, <2>3, <2>4 DEF TaskInv, Copied, Explained, WithinInv, Within, TypeOK, Answer
  <2>6. PICK after : after = Answered(row, a)
    OBVIOUS
  <2>7. Follows(after, rows[d])
    <3>1. \/ after.status \in {"delivered", "failed"} /\ after.attempts = row.attempts
          \/ after.status = "pending" /\ after.attempts = row.attempts + 1
      BY <1>0, <2>4, <2>5, <2>6, AnsweredWithin
    <3>2. QED
      BY <2>4, <3>1 DEF Follows
  <2>8. /\ task'[w].step = "write" /\ task'[w].delivery = d /\ task'[w].row = after
        /\ task'[w] # NoTask
    BY <1>0, <2>2, <2>6 DEF TypeOK, Holding, NoTask
  <2>9. \A t \in batch[w] : t.row = rows[t.delivery] /\ t.delivery # d
    BY <2>1, <2>3 DEF OneWorkerInv
  <2>10. QED
    BY <2>3, <2>4, <2>7, <2>8, <2>9 DEF OneWorkerInv, Follows
<1>6. ASSUME NEW w \in Workers, Write(w)
      PROVE  OneWorkerInv'
  <2>1. PICK d, row : d = task[w].delivery /\ row = task[w].row
    OBVIOUS
  <2>2. /\ task[w] # NoTask
        /\ rows' = [rows EXCEPT ![d] = row]
        /\ task' = [task EXCEPT ![w] = NoTask]
        /\ UNCHANGED batch
    BY <1>6, <2>1 DEF Write, NoTask
  <2>3. \A t \in batch[w] : t.delivery \in Deliveries /\ t.delivery # d /\ t.row = rows[t.delivery]
    BY <1>0, <2>1, <2>2 DEF OneWorkerInv, TypeOK
  <2>4. \A t \in batch'[w] : t.row = rows'[t.delivery]
    BY <1>0, <2>2, <2>3 DEF TypeOK
  <2>5. task'[w] = NoTask
    BY <1>0, <2>2 DEF TypeOK
  <2>6. QED
    BY <2>4, <2>5 DEF OneWorkerInv, NoTask
<1>7. ASSUME NEW w \in Workers, Abort(w)
      PROVE  OneWorkerInv'
  <2>1. UNCHANGED rows
    BY <1>7 DEF Abort, tables
  <2>2. task'[w] = NoTask /\ batch'[w] \subseteq batch[w]
    BY <1>0, <1>7 DEF Abort, TypeOK
  <2>3. QED
    BY <2>1, <2>2 DEF OneWorkerInv, NoTask
<1>8. QED
  BY <1>1, <1>2, <1>3, <1>4, <1>5, <1>6, <1>7, MailKinds

(* Several workers: a send is a request, a write overwrites a record. *)
LEMMA RelapsingStep ==
  ASSUME Several, IInv, WithinInv, [Next]_vars
  PROVE  [Mail!Next]_(Mail!mailVars)
<1>1. ASSUME NEW w \in Workers, Send(w)
      PROVE  \E d \in Deliveries : Mail!Request(d)
  <2>1. task[w].delivery \in Deliveries /\ Recorded[task[w].delivery] # Mail!Unknown
    BY <1>1, SentIsAnswered, HeldIsWarranted
  <2>2. QED
    BY <1>1, <2>1, SentIsAnswered DEF Mail!Request
<1>2. ASSUME NEW w \in Workers, Write(w)
      PROVE  \E d \in Deliveries : Mail!Overwrite(d)
  BY <1>2, CopyIsRecorded, HeldIsWarranted DEF Mail!Overwrite
<1>3. CASE UNCHANGED <<rows, batch, task, answers>>
  BY <1>3 DEF Mail!mailVars, Recorded
<1>4. QED
  BY <1>1, <1>2, <1>3, MailQuiet, MailKinds DEF Mail!Next

(* One worker: a send is the request of a pending delivery, a write settles it or
   counts one more failure. *)
LEMMA StrictStep ==
  ASSUME IInv, WithinInv, OneWorkerInv, [Next]_vars
  PROVE  [Mail!Next]_(Mail!mailVars)
<1>0. TypeOK
  BY DEF IInv
<1>1. ASSUME NEW w \in Workers, Send(w)
      PROVE  \E d \in Deliveries : Mail!Request(d)
  <2>1. PICK d : d = task[w].delivery
    OBVIOUS
  <2>2. task[w].step = "send" /\ task[w] # NoTask
    BY <1>1, SentIsAnswered
  <2>3. d \in Deliveries /\ rows[d] # NoRow
    BY <2>1, <2>2, HeldIsWarranted
  <2>4. rows[d].status = "pending"
    BY <2>1, <2>2 DEF IInv, TaskInv, OneWorkerInv
  <2>5. Recorded[d] = RecordOf(rows[d])
    BY <1>0, <2>3, RecordedRow
  <2>6. Mail!IsPending(d)
    BY <2>4, <2>5 DEF RecordOf, Mail!IsPending
  <2>7. QED
    BY <1>1, <2>1, <2>3, <2>6, SentIsAnswered DEF Mail!Request
<1>2. ASSUME NEW w \in Workers, Write(w)
      PROVE  \E d \in Deliveries : Mail!Retry(d) \/ Mail!Settle(d)
  <2>1. PICK d, row : d = task[w].delivery /\ row = task[w].row
    OBVIOUS
  <2>2. task[w].step = "write" /\ task[w] # NoTask /\ Mail!Write(d, RecordOf(row))
    BY <1>2, <2>1, CopyIsRecorded
  <2>3. /\ d \in Deliveries /\ row \in Row /\ rows[d] # NoRow
        /\ RecordOf(row) \in Mail!Record /\ Mail!Warranted(d, RecordOf(row))
    BY <2>1, <2>2, HeldIsWarranted
  <2>4. rows[d].status = "pending" /\ Follows(row, rows[d])
    BY <2>1, <2>2 DEF OneWorkerInv
  <2>5. Recorded[d] = RecordOf(rows[d])
    BY <1>0, <2>3, RecordedRow
  <2>6. Mail!IsPending(d) /\ Recorded[d].attempts = rows[d].attempts
    BY <2>4, <2>5 DEF RecordOf, Mail!IsPending
  <2>7. RecordOf(row).status = row.status /\ RecordOf(row).attempts = row.attempts
    BY DEF RecordOf
  <2>8. CASE row.status # "pending" /\ row.attempts = rows[d].attempts
    BY <2>2, <2>3, <2>6, <2>7, <2>8 DEF Mail!Settle
  <2>9. CASE row.status = "pending" /\ row.attempts = rows[d].attempts + 1
    <3>1. RecordOf(row) = [status |-> "pending", attempts |-> Recorded[d].attempts + 1]
      BY <2>6, <2>9 DEF RecordOf
    <3>2. QED
      BY <2>2, <2>3, <2>6, <3>1 DEF Mail!Retry
  <2>10. QED
    BY <2>3, <2>4, <2>8, <2>9 DEF Follows
<1>3. CASE UNCHANGED <<rows, batch, task, answers>>
  BY <1>3 DEF Mail!mailVars, Recorded
<1>4. QED
  BY <1>1, <1>2, <1>3, MailQuiet, MailKinds DEF Mail!Next

QueueInv == Several \/ OneWorkerInv

(* Webhooks implements Delivery.  However workers overwrite each other's rows and
   die between a request and its record, the table's record is one that the answers
   warrant, and only known deliveries are requested.  If there is one worker, what
   is settled stays settled and is not requested again, and each attempt that is
   counted follows a failure. *)
THEOREM MailRefined == Spec => MailKept
<1>1. Init => WithinInv /\ QueueInv /\ Mail!Init
  <2>1. Init => OneWorkerInv
    BY DEF Init, OneWorkerInv, NoTask
  <2>2. QED
    BY <2>1, InitMail DEF QueueInv
<1>2. IInv /\ WithinInv /\ [Next]_vars => WithinInv'
  BY WithinStep
<1>3. IInv /\ WithinInv /\ QueueInv /\ [Next]_vars => QueueInv'
  BY OneWorkerStep DEF QueueInv, Several
<1>4. IInv /\ WithinInv /\ QueueInv /\ [Next]_vars => [Mail!Next]_(Mail!mailVars)
  BY RelapsingStep, StrictStep DEF QueueInv
<1>5. QED
  BY <1>1, <1>2, <1>3, <1>4, Invariance, PTL DEF Spec, MailKept, Mail!Spec
=============================================================================

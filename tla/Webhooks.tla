------------------------------ MODULE Webhooks ------------------------------
(***************************************************************************)
(* Webhook delivery: the webhook.Service operations on endpoints and       *)
(* deliveries and the WebhookDeliveryWorker of every server instance, over *)
(* one PostgreSQL database (READ COMMITTED).                               *)
(*                                                                         *)
(* A worker polls copies of the pending rows that are due and goes through *)
(* them: it reads the endpoint, sends the event and writes the whole row   *)
(* back.  A worker can die in between, and another one can hold a copy of  *)
(* the same row.  What the endpoint answered is history the program does   *)
(* not keep.                                                               *)
(***************************************************************************)
EXTENDS Naturals, Sequences, FiniteSets, FiniteSetsExt

CONSTANTS
  Deliveries,    \* delivery rows that may be enqueued
  Endpoints,
  Workers,       \* delivery workers, one per server instance
  Editors,       \* UpdateEndpoint calls; each runs at most once
  BatchSize,     \* rows a worker takes per poll
  MaxRetries,    \* attempts after which a failing delivery is given up
  Delays,        \* GetRetryDelay: the delay before each retry
  MaxAborts,     \* bound: how often workers die or fail on a row
  MaxTime        \* bound: last tick of the clock

ASSUME WebhooksAssumption ==
  /\ BatchSize \in Nat \ {0}
  /\ MaxRetries \in Nat
  /\ Delays \in Seq(Nat \ {0})
  /\ MaxAborts \in Nat /\ MaxTime \in Nat

VARIABLES
  now,         \* the clock
  endpoints,   \* endpoint rows
  rows,        \* delivery rows
  edits,       \* what each UpdateEndpoint call will write
  batch,       \* the copies each worker still has to process
  task,        \* the copy each worker is processing
  answers,     \* history: how often the endpoint gave each answer
  paused,      \* history: endpoints that were inactive at some time
  aborts       \* how often a worker died or failed

tables == <<endpoints, rows>>
history == <<answers, paused>>
vars == <<now, tables, edits, batch, task, history, aborts>>

-----------------------------------------------------------------------------
NoRow == [status |-> "none"]
NoEndpoint == [exists |-> FALSE, deleted |-> FALSE]
DeletedEndpoint == [exists |-> FALSE, deleted |-> TRUE]
NoEdit == [step |-> "idle"]
NoTask == [step |-> "idle"]

\* usable: http.NewRequest accepts the URL; the table only checks its scheme.
Endpoint == [exists : {TRUE}, active : BOOLEAN, usable : BOOLEAN]

Answer == {"ok", "refused", "error"}

Init ==
  /\ now = 0
  /\ endpoints = [e \in Endpoints |-> NoEndpoint]
  /\ rows = [d \in Deliveries |-> NoRow]
  /\ edits = [u \in Editors |-> NoEdit]
  /\ batch = [w \in Workers |-> {}]
  /\ task = [w \in Workers |-> NoTask]
  /\ answers = [d \in Deliveries |-> [a \in Answer |-> 0]]
  /\ paused = {}
  /\ aborts = 0

-----------------------------------------------------------------------------
(* WebhookDelivery *)

MarkDelivered(row) == [row EXCEPT !.status = "delivered"]
MarkFailed(row) == [row EXCEPT !.status = "failed"]
\* Deviation: a spelling the table's check refuses.
SkipSpelled(row) == [row EXCEPT !.status = "skip"]

Skip(row) == [row EXCEPT !.status = "skipped"]

ScheduleRetry(row, delay) == [row EXCEPT !.attempts = @ + 1, !.next = now + delay]

GetRetryDelay(n) == IF n \in DOMAIN Delays THEN Delays[n] ELSE 0

\* Deviation: the last retry is not made.
HandleDeliveryErrorEarly(row) ==
  IF row.attempts + 1 >= MaxRetries
  THEN MarkFailed(row)
  ELSE ScheduleRetry(row, GetRetryDelay(row.attempts + 1))

\* Network failures, 3xx and 5xx answers.
HandleDeliveryError(row) ==
  LET delay == GetRetryDelay(row.attempts + 1)
  IN  IF row.attempts >= MaxRetries \/ delay = 0
      THEN MarkFailed(row)
      ELSE ScheduleRetry(row, delay)

\* Deviation: a 4xx answer is retried like a 5xx.
AnsweredRetry(row, answer) ==
  IF answer = "ok" THEN MarkDelivered(row) ELSE HandleDeliveryError(row)

Answered(row, answer) ==
  CASE answer = "ok"      -> MarkDelivered(row)
    [] answer = "refused" -> MarkFailed(row)
    [] answer = "error"   -> HandleDeliveryError(row)

-----------------------------------------------------------------------------
(* webhook.Service *)

\* CreateEndpoint: the new row is active.
CreateEndpoint(e, usable) ==
  /\ endpoints[e] = NoEndpoint
  /\ endpoints' = [endpoints EXCEPT ![e] = [exists |-> TRUE, active |-> TRUE, usable |-> usable]]
  /\ UNCHANGED <<now, rows, edits, batch, task, history, aborts>>

\* EnqueueDelivery; the foreign key needs the endpoint.
Enqueue(d, e) ==
  /\ rows[d] = NoRow
  /\ endpoints[e].exists
  /\ rows' = [rows EXCEPT ![d] = [status |-> "pending", endpoint |-> e, attempts |-> 0,
                                  next |-> 0, created |-> now]]
  /\ UNCHANGED <<now, endpoints, edits, batch, task, history, aborts>>

\* UpdateEndpoint loads the row and changes the fields it was given, any of them ...
UpdateRead(u, e, changed) ==
  /\ edits[u] = NoEdit
  /\ endpoints[e].exists
  /\ edits' = [edits EXCEPT ![u] = [step |-> "read", endpoint |-> e, row |-> changed]]
  /\ UNCHANGED <<now, tables, batch, task, history, aborts>>

\* ... and writes every column back, unless the row is gone.
UpdateWrite(u) ==
  LET e == edits[u].endpoint
  IN  /\ edits[u].step = "read"
      /\ edits' = [edits EXCEPT ![u] = [step |-> "done"]]
      /\ IF endpoints[e].exists
         THEN /\ endpoints' = [endpoints EXCEPT ![e] = edits[u].row]
              /\ paused' = IF edits[u].row.active THEN paused ELSE paused \cup {e}
         ELSE UNCHANGED <<endpoints, paused>>
      /\ UNCHANGED <<now, rows, batch, task, answers, aborts>>

\* DeleteEndpoint: the foreign key refuses it while a delivery refers to the row.
DeleteEndpoint(e) ==
  /\ endpoints[e].exists
  /\ \A d \in Deliveries : rows[d] # NoRow => rows[d].endpoint # e
  /\ endpoints' = [endpoints EXCEPT ![e] = DeletedEndpoint]
  /\ UNCHANGED <<now, rows, edits, batch, task, history, aborts>>

-----------------------------------------------------------------------------
(* WebhookDeliveryWorker *)

Due(d) == rows[d].status = "pending" /\ rows[d].next <= now
\* Deviation: the retry time is not looked at.
PendingEarly == {d \in Deliveries : rows[d].status = "pending"}

Pending == {d \in Deliveries : Due(d)}

\* Deviation: the youngest rows are taken first.
PollYoungest(w) ==
  /\ batch[w] = {} /\ task[w] = NoTask
  /\ Pending # {}
  /\ \E taken \in SUBSET Pending :
       /\ Cardinality(taken) = Min({BatchSize, Cardinality(Pending)})
       /\ \A d \in taken, o \in Pending \ taken : rows[d].created >= rows[o].created
       /\ batch' = [batch EXCEPT ![w] = {[delivery |-> d, row |-> rows[d]] : d \in taken}]
  /\ UNCHANGED <<now, tables, edits, task, history, aborts>>

\* GetPending: the oldest rows first, at most a batch.  The row locks of FOR
\* UPDATE SKIP LOCKED end with the statement.
Poll(w) ==
  /\ batch[w] = {} /\ task[w] = NoTask
  /\ Pending # {}
  /\ \E taken \in SUBSET Pending :
       /\ Cardinality(taken) = Min({BatchSize, Cardinality(Pending)})
       /\ \A d \in taken, o \in Pending \ taken : rows[d].created <= rows[o].created
       /\ batch' = [batch EXCEPT ![w] = {[delivery |-> d, row |-> rows[d]] : d \in taken}]
  /\ UNCHANGED <<now, tables, edits, task, history, aborts>>

\* The copy a worker is processing, and what it does with it next.
Holding(step, d, row) == [step |-> step, delivery |-> d, row |-> row]

\* The oldest copy is next.  The endpoint is read: a paused one is skipped, for
\* one whose URL no request can be built the row is left as it is.
Take(w) ==
  /\ task[w] = NoTask
  /\ \E t \in batch[w] :
       LET e == endpoints[t.row.endpoint]
       IN  /\ \A o \in batch[w] : t.row.created <= o.row.created
           /\ batch' = [batch EXCEPT ![w] = @ \ {t}]
           /\ task' = [task EXCEPT ![w] =
                         IF ~e.active THEN Holding("write", t.delivery, Skip(t.row))
                         ELSE IF e.usable THEN Holding("send", t.delivery, t.row)
                         ELSE NoTask]
  /\ UNCHANGED <<now, tables, edits, history, aborts>>

\* The request goes out and its answer is turned into the row to write.
Send(w) ==
  LET d == task[w].delivery
  IN  /\ task[w].step = "send"
      /\ \E a \in Answer :
           /\ answers' = [answers EXCEPT ![d][a] = @ + 1]
           /\ task' = [task EXCEPT ![w] = Holding("write", d, Answered(task[w].row, a))]
      /\ UNCHANGED <<now, tables, edits, batch, paused, aborts>>

\* UPDATE webhook_deliveries ... WHERE id: every column from the copy.
Write(w) ==
  /\ task[w].step = "write"
  /\ rows' = [rows EXCEPT ![task[w].delivery] = task[w].row]
  /\ task' = [task EXCEPT ![w] = NoTask]
  /\ UNCHANGED <<now, endpoints, edits, batch, history, aborts>>

\* A worker dies, or a lookup or a write fails: the row it is processing keeps
\* its last committed state, and a dying worker loses its batch as well.
Abort(w) ==
  /\ aborts < MaxAborts
  /\ aborts' = aborts + 1
  /\ batch[w] # {} \/ task[w] # NoTask
  /\ task' = [task EXCEPT ![w] = NoTask]
  /\ \E kept \in {{}, batch[w]} : batch' = [batch EXCEPT ![w] = kept]
  /\ UNCHANGED <<now, tables, edits, history>>

-----------------------------------------------------------------------------
Tick ==
  /\ now < MaxTime
  /\ now' = now + 1
  /\ UNCHANGED <<tables, edits, batch, task, history, aborts>>

Work(w) == Poll(w) \/ Take(w) \/ Send(w) \/ Write(w)

\* The clock has reached its bound and nothing is due.
Rest == now = MaxTime /\ Pending = {} /\ UNCHANGED vars

Next ==
  \/ \E e \in Endpoints, usable \in BOOLEAN : CreateEndpoint(e, usable)
  \/ \E d \in Deliveries, e \in Endpoints : Enqueue(d, e)
  \/ \E u \in Editors, e \in Endpoints, changed \in Endpoint : UpdateRead(u, e, changed)
  \/ \E u \in Editors : UpdateWrite(u)
  \/ \E e \in Endpoints : DeleteEndpoint(e)
  \/ \E w \in Workers : Work(w) \/ Abort(w)
  \/ Tick
  \/ Rest

\* Every worker polls once a second for ever and works through what it took, a
\* call that began keeps running, and time passes.
Fairness ==
  /\ \A w \in Workers : WF_vars(Work(w))
  /\ \A u \in Editors : WF_vars(UpdateWrite(u))
  /\ WF_vars(Tick)

Spec == Init /\ [][Next]_vars /\ Fairness

-----------------------------------------------------------------------------
(* Properties *)

Row == [status : {"pending", "delivered", "failed", "skipped"}, endpoint : Endpoints,
        attempts : Nat, next : Nat, created : Nat]

TypeOK ==
  /\ now \in Nat
  /\ endpoints \in [Endpoints -> Endpoint \cup {NoEndpoint, DeletedEndpoint}]
  /\ rows \in [Deliveries -> Row \cup {NoRow}]
  /\ edits \in [Editors -> [step : {"read"}, endpoint : Endpoints, row : Endpoint]
                           \cup {NoEdit, [step |-> "done"]}]
  /\ batch \in [Workers -> SUBSET [delivery : Deliveries, row : Row]]
  /\ task \in [Workers -> [step : {"send", "write"}, delivery : Deliveries, row : Row]
                          \cup {NoTask}]
  /\ answers \in [Deliveries -> [Answer -> Nat]]
  /\ paused \subseteq Endpoints
  /\ aborts \in Nat

\* However many workers write stale copies over each other, a row never counts
\* more attempts than there were failed requests: no retry is used up for nothing.
AttemptsAreErrors ==
  \A d \in Deliveries : rows[d] # NoRow => rows[d].attempts <= answers[d]["error"]

\* The requests a delivery may fail before it is given up.
Allowed == 1 + IF MaxRetries < Len(Delays) THEN MaxRetries ELSE Len(Delays)

\* A delivery that left the queue did so for a reason: it was accepted; or it was
\* refused, or every retry was used up; or its endpoint was paused.
SettledIsExplained ==
  \A d \in Deliveries :
    /\ rows[d].status = "delivered" => answers[d]["ok"] > 0
    /\ rows[d].status = "failed" => answers[d]["refused"] > 0 \/ answers[d]["error"] >= Allowed
    /\ rows[d].status = "skipped" => rows[d].endpoint \in paused

\* No request is sent before the retry time of the copy it is sent for.
BackoffKept ==
  \A w \in Workers : task[w].step = "send" => task[w].row.next <= now

\* A batch full of due rows no younger than d whose endpoint is active but has a
\* URL no request can be built for: nothing is ever written of them.
Starved(d) ==
  Cardinality({o \in Deliveries :
                 /\ Due(o) /\ rows[o].created <= rows[d].created
                 /\ endpoints[rows[o].endpoint].active /\ ~endpoints[rows[o].endpoint].usable})
    >= BatchSize

\* A delivery that is due and whose endpoint can be reached is not left lying: it
\* is attempted, retried later or settled, whatever the other workers do, unless
\* deliveries that nothing is ever written of fill every batch before it.
DueIsAttempted ==
  LET Waiting(d) == Due(d) /\ endpoints[rows[d].endpoint].usable
  IN  \A d \in Deliveries : Waiting(d) ~> ~Waiting(d) \/ Starved(d)

\* What a reader of the table knows of each delivery.
Recorded ==
  [d \in Deliveries |->
     IF rows[d] = NoRow THEN [status |-> "none", attempts |-> 0]
     ELSE [status |-> rows[d].status, attempts |-> rows[d].attempts]]

\* Two workers may hold copies of one row, and the older may be written last.
Several == \E v, w \in Workers : v # w

\* The table and the endpoints, without workers and copies, are the abstract
\* delivery, whose records fall back only if there are several workers.
Mail == INSTANCE Delivery WITH records <- Recorded, Relapse <- Several

\* Whatever stale copies are written, a record is at most out of date: it never
\* claims an answer that was not given or gives up with attempts left.  With one
\* worker a settled delivery is settled for good and not requested again, every
\* retry follows a failure of its own, and a crash only repeats requests.
MailKept == Mail!Spec
=============================================================================

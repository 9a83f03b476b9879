------------------------------ MODULE Delivery ------------------------------
(***************************************************************************)
(* What webhook delivery promises, with workers, copies, endpoints and the *)
(* clock abstracted away: a delivery is accepted, requested any number of  *)
(* times, and its record follows what the requests were answered.          *)
(*                                                                         *)
(* Relapse tells whether a record may be replaced by an older one, and     *)
(* requests go on after a delivery is settled.  Delivery as it is meant    *)
(* has Relapse = FALSE: a settled delivery is settled for good.            *)
(***************************************************************************)
EXTENDS Integers

CONSTANTS
  Deliveries,
  Allowed,      \* failing requests after which a delivery is given up
  Relapse

VARIABLES
  records,      \* what is recorded of each delivery
  answers       \* how often its requests were given each answer

mailVars == <<records, answers>>

Outcome == {"ok", "refused", "error"}
Unknown == [status |-> "none", attempts |-> 0]
Record ==
  [status : {"pending", "delivered", "failed", "skipped"}, attempts : 0 .. Allowed - 1]

Init ==
  /\ records = [d \in Deliveries |-> Unknown]
  /\ answers = [d \in Deliveries |-> [o \in Outcome |-> 0]]

IsPending(d) == records[d].status = "pending"

\* A record never says more than the answers: no attempt is counted that did not
\* fail, and a delivery is given up when it was refused or all attempts failed.
Warranted(d, r) ==
  /\ r.attempts <= answers[d]["error"]
  /\ r.status = "delivered" => answers[d]["ok"] > 0
  /\ r.status = "failed" =>
       \/ answers[d]["refused"] > 0
       \/ r.attempts = Allowed - 1 /\ answers[d]["error"] >= Allowed

Write(d, r) == records' = [records EXCEPT ![d] = r] /\ UNCHANGED answers

Accept(d) ==
  /\ records[d] = Unknown
  /\ Write(d, [status |-> "pending", attempts |-> 0])

\* A request goes out; what it is answered is recorded later, or never.
Request(d) ==
  /\ IsPending(d) \/ (Relapse /\ records[d] # Unknown)
  /\ \E o \in Outcome : answers' = [answers EXCEPT ![d][o] = @ + 1]
  /\ UNCHANGED records

\* One more attempt failed, and another will be made.
Retry(d) ==
  /\ IsPending(d)
  /\ \E r \in Record :
       /\ r = [status |-> "pending", attempts |-> records[d].attempts + 1]
       /\ Warranted(d, r)
       /\ Write(d, r)

\* Delivered, given up, or skipped for an endpoint that is paused.
Settle(d) ==
  /\ IsPending(d)
  /\ \E r \in Record :
       /\ r.status # "pending" /\ r.attempts = records[d].attempts
       /\ Warranted(d, r)
       /\ Write(d, r)

\* An older record is written over a later one.
Overwrite(d) ==
  /\ Relapse
  /\ records[d] # Unknown
  /\ \E r \in Record : Warranted(d, r) /\ Write(d, r)

Next ==
  \E d \in Deliveries : Accept(d) \/ Request(d) \/ Retry(d) \/ Settle(d) \/ Overwrite(d)

Spec == Init /\ [][Next]_mailVars
=============================================================================

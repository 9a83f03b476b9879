-------------------------------- MODULE MCOutbox --------------------------------
(* Small instances of Outbox, with the statuses of the table and the back-off of  *)
(* the worker (1 << retries).                                                     *)
EXTENDS Outbox

MCStatuses == {"pending", "processing", "published", "dead_letter"}
MCDelay == [n \in 0 .. MaxRetries |-> 2 ^ n]
=============================================================================

----------------------------- MODULE MCWebhooks -----------------------------
(* Small instances of Webhooks. *)
EXTENDS Webhooks, TLC

CONSTANTS d1, d2, e1, e2, w1, w2, u1

\* One retry, one tick later.
MCDelays == <<1>>

\* A second delay, which is never used if one retry is the maximum.
MCMoreDelays == <<1, 1>>
=============================================================================

------------------------------ MODULE Idempotency ------------------------------
(***************************************************************************)
(* The idempotency middleware around the handlers: requests with and       *)
(* without an Idempotency-Key, the entries they leave in Redis, and the    *)
(* context of two seconds under which every command to Redis is sent.      *)
(*                                                                         *)
(* A request is one HTTP request to any server instance; a client that     *)
(* repeats itself sends another one.  What a handler does is abstract: it  *)
(* takes effect and succeeds, refuses (4xx) or fails (5xx) without effect. *)
(***************************************************************************)
EXTENDS Integers

CONSTANTS
  Requests,   \* HTTP requests, numbered in the order they arrive
  Keys,       \* values of the Idempotency-Key header
  Bodies,     \* method, path and body
  Faults      \* bound: commands that may fail or be delayed while the context is alive

ASSUME RequestsAssumption == Requests \subseteq Nat
ASSUME FaultsAssumption == Faults \in Nat
ASSUME BodiesAssumption == Bodies # {}

VARIABLES
  cache,     \* the entry of each cache key
  transit,   \* commands given up by their sender that Redis has yet to execute
  pc,        \* where each request is
  req,       \* its header and its body, if it goes through the middleware
  late,      \* requests whose two seconds are over, or whose client has gone
  answer,    \* what each request was answered
  source,    \* history: the request whose handler gave the answer
  applied,   \* history: requests whose handler took effect
  met,       \* history: the copies under way when a request began, and where they were
  gone,      \* history: cache keys of which a command failed or an entry expired
  faults     \* commands that may still fail

vars == <<cache, transit, pc, req, late, answer, source, applied, met, gone, faults>>

-----------------------------------------------------------------------------
CacheKeys == Keys \X Bodies

\* Deviation: the body is not part of the cache key.
CacheKeyOfHeader(q) == <<q.key, CHOOSE b \in Bodies : TRUE>>

\* idempotency:<key>:<hash of method, path and body>
CacheKey(q) == <<q.key, q.body>>

NoEntry == [status |-> "none"]
NoRequest == [key |-> "none"]

\* An entry lives 24 hours from its last SET; `by' is history.
Processing(r) == [status |-> "processing", by |-> r]

Completed(r) == [status |-> "completed", answer |-> answer[r], by |-> r]

Ended == {"done", "dead"}
Stages == {"missed", "marked", "ran", "stored"}
Busy == {r \in Requests : pc[r] \in Stages}

Init ==
  /\ cache = [k \in CacheKeys |-> NoEntry]
  /\ transit = {}
  /\ pc = [r \in Requests |-> "idle"]
  /\ req = [r \in Requests |-> NoRequest]
  /\ late = {}
  /\ answer = [r \in Requests |-> "none"]
  /\ source = [r \in Requests |-> r]
  /\ applied = {}
  /\ met = [r \in Requests |-> {}]
  /\ gone = {}
  /\ faults = Faults

Goto(r, l) ==
  /\ pc' = [pc EXCEPT ![r] = l]
  /\ late' = IF l \in Ended THEN late \ {r} ELSE late

\* A command fails once the context has ended, and may fail before.
Unreached(r, k) ==
  /\ gone' = gone \cup {k}
  /\ faults' = IF r \in late THEN faults ELSE faults - 1
  /\ faults' >= 0

\* Redis executes SET or DEL, does not hear of it, or executes it only after the
\* sender has given up: an error is ignored.
Set(r, entry) ==
  LET k == CacheKey(req[r])
  IN  \/ /\ r \notin late
         /\ cache' = [cache EXCEPT ![k] = entry]
         /\ UNCHANGED <<transit, gone, faults>>
      \/ /\ Unreached(r, k)
         /\ UNCHANGED transit \/ (r \notin late /\ transit' = transit \cup {<<k, entry>>})
         /\ UNCHANGED cache

Arrives(r) == pc[r] = "idle" /\ \A s \in Requests : s < r => pc[s] # "idle"

-----------------------------------------------------------------------------
Results == {"success", "refusal", "error"}

\* Another method or no header: the handler runs, and Redis is not asked.
Bypass(r, result) ==
  /\ Arrives(r)
  /\ pc' = [pc EXCEPT ![r] = "done"]
  /\ answer' = [answer EXCEPT ![r] = result]
  /\ applied' = IF result = "success" THEN applied \cup {r} ELSE applied
  /\ UNCHANGED <<cache, transit, req, late, source, met, gone, faults>>

\* A body that cannot be read is refused; neither Redis nor the handler hears of it.
Unreadable(r) ==
  /\ Arrives(r)
  /\ pc' = [pc EXCEPT ![r] = "done"]
  /\ answer' = [answer EXCEPT ![r] = "refusal"]
  /\ UNCHANGED <<cache, transit, req, late, source, applied, met, gone, faults>>

\* A request begins: its context starts just before GET is sent.
Begin(r, q) ==
  /\ Arrives(r)
  /\ req' = [req EXCEPT ![r] = q]
  /\ met' = [met EXCEPT ![r] = {<<s, pc[s]>> : s \in {t \in Busy : req[t] = q}}]

\* GET finds an entry: 409 while it is being processed, else the stored answer.
LookupHit(r, q) ==
  LET entry == cache[CacheKey(q)]
  IN  /\ Begin(r, q)
      /\ entry # NoEntry
      /\ answer' = [answer EXCEPT ![r] =
                      IF entry.status = "processing" THEN "conflict" ELSE entry.answer]
      /\ source' = [source EXCEPT ![r] = entry.by]
      /\ Goto(r, "done")
      /\ UNCHANGED <<cache, transit, applied, gone, faults>>

\* Deviation: only a completed entry counts as one.
LookupMissUnlessCompleted(r, q) ==
  /\ Begin(r, q)
  /\ cache[CacheKey(q)].status # "completed"
  /\ Goto(r, "missed")
  /\ UNCHANGED <<cache, transit, answer, source, applied, gone, faults>>

\* GET finds nothing, or fails, which counts as finding nothing: the client may
\* have gone by then.
LookupMiss(r, q) ==
  /\ Begin(r, q)
  /\ pc' = [pc EXCEPT ![r] = "missed"]
  /\ \/ cache[CacheKey(q)] = NoEntry /\ UNCHANGED <<late, gone, faults>>
     \/ Unreached(r, CacheKey(q)) /\ UNCHANGED late
     \/ late' = late \cup {r} /\ gone' = gone \cup {CacheKey(q)} /\ UNCHANGED faults
  /\ UNCHANGED <<cache, transit, answer, source, applied>>

\* The key is marked whatever is there by now.
Mark(r) ==
  /\ pc[r] = "missed"
  /\ Set(r, Processing(r))
  /\ Goto(r, "marked")
  /\ UNCHANGED <<req, answer, source, applied, met>>

\* The handler answers; a success has taken effect.
Handle(r, result) ==
  /\ pc[r] = "marked"
  /\ answer' = [answer EXCEPT ![r] = result]
  /\ applied' = IF result = "success" THEN applied \cup {r} ELSE applied
  /\ Goto(r, "ran")
  /\ UNCHANGED <<cache, transit, req, source, met, gone, faults>>

\* A handler that panics leaves the middleware; the Recoverer outside answers 500.
Panic(r) ==
  /\ pc[r] = "marked"
  /\ answer' = [answer EXCEPT ![r] = "error"]
  /\ Goto(r, "dead")
  /\ UNCHANGED <<cache, transit, req, source, applied, met, gone, faults>>

\* The recorded answer is stored, whatever it is.
Store(r) ==
  /\ pc[r] = "ran"
  /\ Set(r, Completed(r))
  /\ Goto(r, IF answer[r] = "error" THEN "stored" ELSE "done")
  /\ UNCHANGED <<req, answer, source, applied, met>>

\* Deviation: the answer of a failed request is kept.
DeleteNothing(r) ==
  /\ pc[r] = "stored"
  /\ Goto(r, "done")
  /\ UNCHANGED <<cache, transit, req, answer, source, applied, met, gone, faults>>

\* The answer of a failed request is removed again, or what is there by now.
Delete(r) ==
  /\ pc[r] = "stored"
  /\ Set(r, NoEntry)
  /\ Goto(r, "done")
  /\ UNCHANGED <<req, answer, source, applied, met>>

-----------------------------------------------------------------------------
\* Two seconds pass, or the client goes away.
Expire(r) ==
  /\ r \in Busy \ late
  /\ late' = late \cup {r}
  /\ UNCHANGED <<cache, transit, pc, req, answer, source, applied, met, gone, faults>>

\* Redis executes a command of which nobody waits for the answer any more.
Overdue(k, entry) ==
  /\ <<k, entry>> \in transit
  /\ cache' = [cache EXCEPT ![k] = entry]
  /\ transit' = transit \ {<<k, entry>>}
  /\ UNCHANGED <<pc, req, late, answer, source, applied, met, gone, faults>>

\* The instance dies, before or after its last command.
Die(r) ==
  /\ r \in Busy
  /\ Goto(r, "dead")
  /\ UNCHANGED <<cache, transit, req, answer, source, applied, met, gone, faults>>

\* The time to live ends, long after every request and command under way.
Evict(k) ==
  /\ cache[k] # NoEntry
  /\ \A r \in Busy : CacheKey(req[r]) # k
  /\ \A c \in transit : c[1] # k
  /\ cache' = [cache EXCEPT ![k] = NoEntry]
  /\ gone' = gone \cup {k}
  /\ UNCHANGED <<transit, pc, req, late, answer, source, applied, met, faults>>

Start(r) == \E q \in [key : Keys, body : Bodies] : LookupHit(r, q) \/ LookupMiss(r, q)

Step(r) ==
  \/ Mark(r)
  \/ \E result \in Results : Handle(r, result)
  \/ Store(r)
  \/ Delete(r)

Rest == (\A r \in Requests : pc[r] \in Ended) /\ UNCHANGED vars

Next ==
  \/ \E r \in Requests :
       \/ \E result \in Results : Bypass(r, result)
       \/ Unreadable(r) \/ Start(r) \/ Step(r) \/ Panic(r) \/ Expire(r) \/ Die(r)
  \/ \E c \in transit : Overdue(c[1], c[2])
  \/ \E k \in CacheKeys : Evict(k)
  \/ Rest

Spec == Init /\ [][Next]_vars

-----------------------------------------------------------------------------
(* Properties *)

Request == [key : Keys, body : Bodies]
Entry ==
  [status : {"processing"}, by : Requests]
  \cup [status : {"completed"}, answer : Results, by : Requests]

\* The variables keep their types: an entry names the request that wrote it.
TypeOK ==
  /\ cache \in [CacheKeys -> {NoEntry} \cup Entry]
  /\ transit \subseteq CacheKeys \X ({NoEntry} \cup Entry)
  /\ pc \in [Requests -> {"idle"} \cup Stages \cup Ended]
  /\ req \in [Requests -> {NoRequest} \cup Request]
  /\ late \subseteq Requests
  /\ answer \in [Requests -> Results \cup {"none", "conflict"}]
  /\ source \in [Requests -> Requests]
  /\ applied \subseteq Requests
  /\ met \in [Requests -> SUBSET (Requests \X Stages)]
  /\ gone \subseteq CacheKeys
  /\ faults \in 0 .. Faults

Met(q) == {m[1] : m \in met[q]}
Overlapped(r, q) == r \in Met(q) \/ q \in Met(r)

\* One asked Redis after the other did and before the other had marked the key.
Raced(r, q) == <<r, "missed">> \in met[q] \/ <<q, "missed">> \in met[r]

Copies(r) == {q \in Requests \ {r} : req[q] = req[r] /\ req[r] # NoRequest}

\* A command about the request failed or was delayed, or its entry expired.
Lost(r) == CacheKey(req[r]) \in gone

\* Of the copies of a request at most one takes effect, unless both asked before
\* either had marked the key, a copy that failed was under way with one of them (it removes the
\* stored answer), or Redis missed a command, heard of it
\* late, or the entry's 24 hours passed.
AppliedOnce ==
  \A r \in applied : \A q \in applied \cap Copies(r) :
    \/ Lost(r)
    \/ Raced(r, q)
    \/ \E f \in Copies(r) : answer[f] = "error" /\ (Overlapped(f, r) \/ Overlapped(f, q))

\* An answer that was not computed for a request is that of a copy of it, which
\* took effect if the answer says so.
ReplayIsGenuine ==
  \A r \in Requests :
    source[r] # r => /\ source[r] \in Copies(r)
                     /\ answer[r] # "conflict" => answer[r] = answer[source[r]]
                     /\ answer[r] = "success" => source[r] \in applied

\* "Request already in progress" and the answer of a failed request are given to
\* another request only if it was under way together with that copy, if the copy
\* died, or if Redis missed a command.
RetriesGetThrough ==
  \A r \in Requests :
    source[r] # r /\ answer[r] \in {"conflict", "error"} =>
      \/ Lost(r)
      \/ Overlapped(r, source[r])
      \/ pc[source[r]] = "dead"
=============================================================================

--------------------------- MODULE IdempotencyProofs ---------------------------
(***************************************************************************)
(* Theorems about Idempotency for every number of requests, keys, bodies   *)
(* and lost commands.                                                      *)
(*                                                                         *)
(* Why copies of a request take effect once: a copy that marked the key    *)
(* leaves an entry, so a later one finds nothing only after a deletion.    *)
(* The first deletion since that mark is by a copy that had begun before   *)
(* it and was still under way.                                             *)
(***************************************************************************)
EXTENDS Idempotency, TLAPS

(* A request without a cache key is nobody's copy. *)
Kept(r) == r \in applied /\ req[r] # NoRequest
Live(r) == pc[r] \in Stages \/ Kept(r)
Past(r) == pc[r] \in Stages \ {"missed"} \/ Kept(r)
Final == {"stored", "done", "dead"}

(* A copy that failed was under way with r. *)
Shielded(r) == \E g \in Copies(r) : answer[g] = "error" /\ Overlapped(g, r)

IdleInv ==
  \A r \in Requests :
    pc[r] = "idle" => /\ req[r] = NoRequest
                      /\ answer[r] = "none"
                      /\ source[r] = r
                      /\ r \notin applied

LiveInv ==
  \A r \in Requests :
    /\ Live(r) => req[r] \in Request /\ source[r] = r
    /\ r \in applied => answer[r] = "success"
    /\ pc[r] \in {"missed", "marked"} => r \notin applied /\ answer[r] = "none"
    /\ pc[r] \in {"ran", "stored"} =>
         answer[r] \in Results /\ (answer[r] = "success" => r \in applied)
    /\ pc[r] = "stored" => answer[r] = "error"

(* An entry is of the request it names. *)
EntryOf(k, e, s) ==
  /\ req[s] \in Request
  /\ CacheKey(req[s]) = k
  /\ pc[s] \notin {"idle", "missed"}
  /\ e.status = "completed" =>
       /\ pc[s] \in Final
       /\ answer[s] = e.answer
       /\ e.answer = "success" => s \in applied
  /\ e.status = "processing" \/ e.answer = "error" =>
       k \in gone \/ pc[s] \in Stages \/ pc[s] = "dead"

EntryInv == \A k \in CacheKeys : cache[k] # NoEntry => EntryOf(k, cache[k], cache[k].by)

(* A command that Redis executes late is of a key that is lost. *)
TransitInv ==
  \A c \in transit :
    /\ c[1] \in gone
    /\ c[2] # NoEntry => EntryOf(c[1], c[2], c[2].by)

(* An answer that was found is of the request that gave it. *)
FoundFrom(r, s) ==
  /\ pc[r] = "done"
  /\ s \in Copies(r)
  /\ pc[s] \notin {"idle", "missed"}
  /\ answer[r] # "conflict" =>
       /\ pc[s] \in Final
       /\ answer[r] = answer[s]
       /\ answer[r] = "success" => s \in applied
  /\ answer[r] \in {"conflict", "error"} =>
       Lost(r) \/ Overlapped(r, s) \/ pc[s] = "dead"

SourceInv == \A r \in Requests : source[r] # r => FoundFrom(r, source[r])

(* A copy that marked its key left an entry, unless a deletion is explained. *)
ShieldInv ==
  \A r \in Requests :
    Past(r) => Lost(r) \/ cache[CacheKey(req[r])] # NoEntry \/ Shielded(r)

(* Who is under way when a deletion comes. *)
BusyInv ==
  \A f \in Requests : \A r \in Copies(f) :
    pc[f] \in Stages /\ Live(r) => Lost(r) \/ Overlapped(f, r) \/ Shielded(r)

PairInv ==
  \A r \in Requests : \A q \in Copies(r) :
    Live(r) /\ Live(q) => Lost(r) \/ Raced(r, q) \/ Shielded(r) \/ Shielded(q)

IInv ==
  /\ TypeOK /\ IdleInv /\ LiveInv /\ EntryInv /\ SourceInv
  /\ ShieldInv /\ BusyInv /\ PairInv /\ TransitInv

-----------------------------------------------------------------------------
(* Requests and their keys *)

(* A request that was made is not the absence of one. *)
LEMMA RequestIsOne == NoRequest \notin Request
BY DEF NoRequest, Request

(* The cache key tells requests apart by header and body. *)
LEMMA KeyInjective ==
  ASSUME NEW p \in Request, NEW q \in Request, CacheKey(p) = CacheKey(q)
  PROVE  p = q
BY DEF Request, CacheKey

LEMMA KeyType == ASSUME NEW q \in Request PROVE CacheKey(q) \in CacheKeys
BY DEF Request, CacheKey, CacheKeys

(* Copies have one cache key. *)
LEMMA CopiesShareKey ==
  ASSUME NEW r \in Requests, NEW q \in Copies(r)
  PROVE  /\ r \in Copies(q) /\ q \in Requests /\ q # r
         /\ req[q] = req[r]
         /\ Lost(q) <=> Lost(r)
         /\ Overlapped(r, q) <=> Overlapped(q, r)
         /\ Raced(r, q) <=> Raced(q, r)
         /\ Raced(r, q) => Overlapped(r, q)
<1>1. r \in Copies(q) /\ q \in Requests /\ q # r /\ req[q] = req[r]
  BY DEF Copies
<1>2. Raced(r, q) => Overlapped(r, q)
  BY DEF Raced, Overlapped, Met
<1>3. QED
  BY <1>1, <1>2 DEF Lost, Overlapped, Raced

-----------------------------------------------------------------------------
(* Types *)

LEMMA InitTypes == Init => TypeOK
<1>1. \A k \in CacheKeys : NoEntry \in {NoEntry} \cup Entry
  OBVIOUS
<1>2. QED
  BY <1>1, FaultsAssumption DEF Init, TypeOK

(* Goto keeps the types of what it changes. *)
LEMMA GotoTypes ==
  ASSUME TypeOK, NEW r \in Requests, NEW l \in Stages \cup Ended, Goto(r, l)
  PROVE  /\ pc' \in [Requests -> {"idle"} \cup Stages \cup Ended]
         /\ late' \subseteq Requests
BY DEF TypeOK, Goto

(* So does a command to Redis. *)
LEMMA SetTypes ==
  ASSUME TypeOK, NEW r \in Requests, req[r] \in Request,
         NEW entry \in {NoEntry} \cup Entry, Set(r, entry)
  PROVE  /\ cache' \in [CacheKeys -> {NoEntry} \cup Entry]
         /\ transit' \subseteq CacheKeys \X ({NoEntry} \cup Entry)
         /\ gone' \subseteq CacheKeys
         /\ faults' \in 0 .. Faults
<1>1. CacheKey(req[r]) \in CacheKeys
  BY KeyType
<1>2. faults \in Int /\ faults <= Faults /\ Faults \in Nat
  BY FaultsAssumption DEF TypeOK
<1>3. CASE /\ Unreached(r, CacheKey(req[r])) /\ UNCHANGED cache
           /\ transit' \in {transit, transit \cup {<<CacheKey(req[r]), entry>>}}
  BY <1>1, <1>2, <1>3 DEF TypeOK, Unreached
<1>4. CASE /\ cache' = [cache EXCEPT ![CacheKey(req[r])] = entry]
           /\ UNCHANGED <<transit, gone, faults>>
  BY <1>1, <1>4 DEF TypeOK
<1>5. QED
  BY <1>3, <1>4 DEF Set

(* A request that begins is typed, and remembers who was under way. *)
LEMMA BeginTypes ==
  ASSUME TypeOK, NEW r \in Requests, NEW q \in Request, Begin(r, q)
  PROVE  /\ req' \in [Requests -> {NoRequest} \cup Request]
         /\ met' \in [Requests -> SUBSET (Requests \X Stages)]
<1>1. {<<s, pc[s]>> : s \in {t \in Busy : req[t] = q}} \in SUBSET (Requests \X Stages)
  BY DEF Busy
<1>2. QED
  BY <1>1 DEF TypeOK, Begin

LEMMA StartTypes ==
  ASSUME IInv, NEW r \in Requests, NEW q \in Request, LookupHit(r, q) \/ LookupMiss(r, q)
  PROVE  TypeOK'
<1> USE DEF IInv
<1>1. CacheKey(q) \in CacheKeys
  BY KeyType
<1>2. req' \in [Requests -> {NoRequest} \cup Request] /\ met' \in [Requests -> SUBSET (Requests \X Stages)]
  BY BeginTypes DEF LookupHit, LookupMiss
<1>3. CASE LookupHit(r, q)
  <2> DEFINE entry == cache[CacheKey(q)]
  <2>1. entry \in Entry
    BY <1>1, <1>3 DEF LookupHit, TypeOK
  <2>2. entry.by \in Requests /\ (entry.status # "processing" => entry.answer \in Results)
    BY <2>1 DEF Entry
  <2>3. answer' \in [Requests -> Results \cup {"none", "conflict"}] /\ source' \in [Requests -> Requests]
    BY <1>3, <2>2 DEF LookupHit, TypeOK
  <2>4. pc' \in [Requests -> {"idle"} \cup Stages \cup Ended] /\ late' \subseteq Requests
    BY <1>3, GotoTypes DEF LookupHit, Ended
  <2>5. QED
    BY <1>2, <1>3, <2>3, <2>4 DEF LookupHit, TypeOK
<1>4. CASE LookupMiss(r, q)
  <2>1. pc' \in [Requests -> {"idle"} \cup Stages \cup Ended] /\ late' \subseteq Requests
    BY <1>4 DEF LookupMiss, TypeOK, Stages
  <2>2. gone' \subseteq CacheKeys /\ faults' \in 0 .. Faults
    BY <1>1, <1>4, FaultsAssumption DEF LookupMiss, Unreached, TypeOK
  <2>3. QED
    BY <1>2, <1>4, <2>1, <2>2 DEF LookupMiss, TypeOK
<1>5. QED
  BY <1>3, <1>4

LEMMA BypassTypes ==
  ASSUME TypeOK, NEW r \in Requests,
         (\E result \in Results : Bypass(r, result)) \/ Unreadable(r)
  PROVE  TypeOK'
BY DEF Bypass, Unreadable, TypeOK, Ended, Results

LEMMA StepTypes ==
  ASSUME IInv, NEW r \in Requests, Step(r) \/ Panic(r) \/ Die(r)
  PROVE  TypeOK'
<1> USE DEF IInv
<1>1. ASSUME pc[r] \in Stages
      PROVE  req[r] \in Request
  BY <1>1 DEF LiveInv, Live
<1>2. CASE Mark(r)
  <2>1. Processing(r) \in Entry
    BY DEF Processing, Entry
  <2>2. /\ cache' \in [CacheKeys -> {NoEntry} \cup Entry]
        /\ transit' \subseteq CacheKeys \X ({NoEntry} \cup Entry)
        /\ gone' \subseteq CacheKeys /\ faults' \in 0 .. Faults
    BY <1>1, <1>2, <2>1, SetTypes DEF Mark, Stages
  <2>3. pc' \in [Requests -> {"idle"} \cup Stages \cup Ended] /\ late' \subseteq Requests
    BY <1>2, GotoTypes DEF Mark, Stages
  <2>4. QED
    BY <1>2, <2>2, <2>3 DEF Mark, TypeOK
<1>3. ASSUME NEW result \in Results, Handle(r, result)
      PROVE  TypeOK'
  <2>1. pc' \in [Requests -> {"idle"} \cup Stages \cup Ended] /\ late' \subseteq Requests
    BY <1>3, GotoTypes DEF Handle, Stages
  <2>2. QED
    BY <1>3, <2>1 DEF Handle, TypeOK
<1>4. CASE Store(r)
  <2>1. Completed(r) \in Entry
    BY <1>4 DEF Store, LiveInv, Completed, Entry
  <2>2. /\ cache' \in [CacheKeys -> {NoEntry} \cup Entry]
        /\ transit' \subseteq CacheKeys \X ({NoEntry} \cup Entry)
        /\ gone' \subseteq CacheKeys /\ faults' \in 0 .. Faults
    BY <1>1, <1>4, <2>1, SetTypes DEF Store, Stages
  <2>3. pc' \in [Requests -> {"idle"} \cup Stages \cup Ended] /\ late' \subseteq Requests
    BY <1>4, GotoTypes DEF Store, Stages, Ended
  <2>4. QED
    BY <1>4, <2>2, <2>3 DEF Store, TypeOK
<1>5. CASE Delete(r)
  <2>1. /\ cache' \in [CacheKeys -> {NoEntry} \cup Entry]
        /\ transit' \subseteq CacheKeys \X ({NoEntry} \cup Entry)
        /\ gone' \subseteq CacheKeys /\ faults' \in 0 .. Faults
    BY <1>1, <1>5, SetTypes DEF Delete, Stages
  <2>2. pc' \in [Requests -> {"idle"} \cup Stages \cup Ended] /\ late' \subseteq Requests
    BY <1>5, GotoTypes DEF Delete, Ended
  <2>3. QED
    BY <1>5, <2>1, <2>2 DEF Delete, TypeOK
<1>6. CASE Panic(r) \/ Die(r)
  <2>1. pc' \in [Requests -> {"idle"} \cup Stages \cup Ended] /\ late' \subseteq Requests
    BY <1>6, GotoTypes DEF Panic, Die, Ended
  <2>2. QED
    BY <1>6, <2>1 DEF Panic, Die, TypeOK, Results
<1>7. QED
  BY <1>2, <1>3, <1>4, <1>5, <1>6 DEF Step

-----------------------------------------------------------------------------
(* What a step leaves alone *)

(* A copy that failed stays one: a step changes neither the requests that have
   begun, nor who was under way then, nor an error. *)
LEMMA ShieldedStays ==
  ASSUME IdleInv, NEW r \in Requests, pc[r] # "idle", req[r] # NoRequest, Shielded(r),
         \A x \in Requests :
           pc[x] # "idle" => /\ req'[x] = req[x]
                             /\ met'[x] = met[x]
                             /\ answer[x] = "error" => answer'[x] = "error"
  PROVE  Shielded(r)'
<1>1. PICK g \in Copies(r) : answer[g] = "error" /\ Overlapped(g, r)
  BY DEF Shielded
<1>2. g \in Requests /\ g # r /\ req[g] = req[r]
  BY <1>1 DEF Copies
<1>3. pc[g] # "idle"
  BY <1>2 DEF IdleInv
<1>4. g \in Copies(r)' /\ answer'[g] = "error"
  BY <1>1, <1>2, <1>3 DEF Copies
<1>5. Overlapped(g, r)'
  BY <1>1, <1>2, <1>3 DEF Overlapped, Met
<1>6. QED
  BY <1>4, <1>5 DEF Shielded

(* A request that is under way takes a step: it is no more alive than before, so
   nothing new has to be explained but the cache. *)
LEMMA RunningStep ==
  ASSUME IInv, TypeOK', NEW r \in Requests, pc[r] \in Stages,
         UNCHANGED <<req, source, met>>, gone \subseteq gone',
         applied \subseteq applied', applied' \subseteq applied \cup {r},
         pc'[r] \notin {"idle", "missed"},
         pc[r] = "stored" => pc'[r] \in Final /\ answer'[r] = answer[r],
         \A x \in Requests \ {r} : pc'[x] = pc[x] /\ answer'[x] = answer[x],
         answer[r] = "error" => answer'[r] = "error"
  PROVE  /\ IdleInv' /\ SourceInv' /\ BusyInv' /\ PairInv'
         /\ \A x \in Requests : Live(x)' => Live(x)
         /\ \A x \in Requests : Live(x) /\ Shielded(x) => Shielded(x)'
         /\ \A x \in Requests : Lost(x) => Lost(x)'
<1> USE DEF IInv
<1>1. IdleInv'
  BY DEF IdleInv
<1>2. \A x \in Requests : Live(x)' => Live(x)
  BY DEF Live, Kept
<1>3. \A x \in Requests : Lost(x) => Lost(x)'
  BY DEF Lost
<1>4. ASSUME NEW x \in Requests, Live(x), Shielded(x)
      PROVE  Shielded(x)'
  <2>1. pc[x] # "idle" /\ req[x] # NoRequest
    BY <1>4, RequestIsOne DEF LiveInv, Live, IdleInv, Stages, Kept
  <2>2. QED
    BY <1>4, <2>1, ShieldedStays
<1>5. \A x \in Requests : Copies(x)' = Copies(x)
  BY DEF Copies
<1>6. BusyInv'
  <2> SUFFICES ASSUME NEW f \in Requests, NEW x \in Copies(f), pc'[f] \in Stages, Live(x)'
               PROVE  Lost(x)' \/ Overlapped(f, x)' \/ Shielded(x)'
    BY <1>5 DEF BusyInv
  <2>1. x \in Requests /\ pc[f] \in Stages /\ Live(x)
    BY <1>2 DEF Copies
  <2>2. Lost(x) \/ Overlapped(f, x) \/ Shielded(x)
    BY <2>1 DEF BusyInv
  <2>3. Overlapped(f, x) => Overlapped(f, x)'
    BY DEF Overlapped, Met
  <2>4. QED
    BY <1>3, <1>4, <2>1, <2>2, <2>3
<1>7. PairInv'
  <2> SUFFICES ASSUME NEW x \in Requests, NEW y \in Copies(x), Live(x)', Live(y)'
               PROVE  Lost(x)' \/ Raced(x, y)' \/ Shielded(x)' \/ Shielded(y)'
    BY <1>5 DEF PairInv
  <2>1. y \in Requests /\ Live(x) /\ Live(y)
    BY <1>2 DEF Copies
  <2>2. Lost(x) \/ Raced(x, y) \/ Shielded(x) \/ Shielded(y)
    BY <2>1 DEF PairInv
  <2>3. Raced(x, y) => Raced(x, y)'
    BY DEF Raced
  <2>4. QED
    BY <1>3, <1>4, <2>1, <2>2, <2>3
<1>8. SourceInv'
  <2> SUFFICES ASSUME NEW x \in Requests, source[x] # x
               PROVE  FoundFrom(x, source[x])'
    BY DEF SourceInv
  <2> DEFINE s == source[x]
  <2>1. FoundFrom(x, s)
    BY DEF SourceInv
  <2>2. x # r /\ s \in Requests /\ s \in Copies(x)'
    BY <1>5, <2>1 DEF FoundFrom, Stages, Copies
  <2>3. Lost(x) \/ Overlapped(x, s) => Lost(x)' \/ Overlapped(x, s)'
    BY <1>3 DEF Overlapped, Met
  <2>4. CASE s # r
    BY <2>1, <2>2, <2>3, <2>4 DEF FoundFrom
  <2>5. CASE s = r
    BY <2>1, <2>2, <2>3, <2>5 DEF FoundFrom, Stages, Final
  <2>6. QED
    BY <2>4, <2>5
<1>9. QED
  BY <1>1, <1>2, <1>3, <1>4, <1>6, <1>7, <1>8

(* An entry stays true while the request it names does nothing. *)
LEMMA EntryStays ==
  ASSUME NEW k \in CacheKeys, NEW e, NEW s \in Requests, EntryOf(k, e, s),
         req'[s] = req[s], pc'[s] = pc[s], answer'[s] = answer[s],
         applied \subseteq applied', gone \subseteq gone'
  PROVE  EntryOf(k, e, s)'
BY DEF EntryOf

(* Commands in transit stay true while requests go on. *)
LEMMA TransitStays ==
  ASSUME TypeOK, TransitInv, gone \subseteq gone', applied \subseteq applied',
         \A x \in Requests :
           pc[x] \notin {"idle", "missed"} =>
             /\ req'[x] = req[x]
             /\ pc'[x] \notin {"idle", "missed"}
             /\ pc[x] \in Final => pc'[x] \in Final /\ answer'[x] = answer[x],
         \A c \in transit' \ transit :
           c[1] \in gone' /\ (c[2] # NoEntry => EntryOf(c[1], c[2], c[2].by)')
  PROVE  TransitInv'
<1> SUFFICES ASSUME NEW c \in transit', c \in transit
             PROVE  c[1] \in gone' /\ (c[2] # NoEntry => EntryOf(c[1], c[2], c[2].by)')
  BY DEF TransitInv
<1>1. c[1] \in gone
  BY DEF TransitInv
<1>2. ASSUME c[2] # NoEntry
      PROVE  EntryOf(c[1], c[2], c[2].by)'
  <2>1. PICK s \in Requests : s = c[2].by
    BY <1>2 DEF TypeOK, Entry
  <2>2. EntryOf(c[1], c[2], s)
    BY <1>2, <2>1 DEF TransitInv
  <2>3. EntryOf(c[1], c[2], s)'
    BY <1>1, <2>2 DEF EntryOf, CacheKey
  <2>4. QED
    BY <2>1, <2>3
<1>3. QED
  BY <1>1, <1>2

(* What a command leaves in Redis. *)
LEMMA SetCache ==
  ASSUME TypeOK, NEW r \in Requests, req[r] \in Request, NEW entry, Set(r, entry)
  PROVE  /\ gone \subseteq gone'
         /\ \A k \in CacheKeys \ {CacheKey(req[r])} : cache'[k] = cache[k]
         /\ \/ cache'[CacheKey(req[r])] = entry
            \/ CacheKey(req[r]) \in gone' /\ UNCHANGED cache
         /\ \A c \in transit' \ transit :
              c[1] = CacheKey(req[r]) /\ c[1] \in gone' /\ c[2] = entry
<1>1. CacheKey(req[r]) \in CacheKeys
  BY KeyType
<1>2. QED
  BY <1>1 DEF TypeOK, Set, Unreached

(* Past copies keep their entry or their explanation if the step deletes nothing. *)
LEMMA ShieldKept ==
  ASSUME IInv, NEW r \in Requests, UNCHANGED req,
         \A x \in Requests \ {r} : Past(x)' => Past(x),
         \A x \in Requests : Live(x) /\ Shielded(x) => Shielded(x)',
         \A x \in Requests : Lost(x) => Lost(x)',
         \A x \in Requests \ {r} :
           Past(x) /\ cache[CacheKey(req[x])] # NoEntry =>
             Lost(x)' \/ cache'[CacheKey(req[x])] # NoEntry \/ Shielded(x)',
         Past(r)' => Lost(r)' \/ cache'[CacheKey(req[r])] # NoEntry \/ Shielded(r)'
  PROVE  ShieldInv'
<1> SUFFICES ASSUME NEW x \in Requests, x # r, Past(x)'
             PROVE  Lost(x)' \/ cache'[CacheKey(req[x])] # NoEntry \/ Shielded(x)'
  BY DEF ShieldInv
<1>1. Past(x) /\ Live(x)
  BY DEF Past, Live, Kept
<1>2. Lost(x) \/ cache[CacheKey(req[x])] # NoEntry \/ Shielded(x)
  BY <1>1 DEF IInv, ShieldInv
<1>3. QED
  BY <1>1, <1>2

-----------------------------------------------------------------------------
(* The steps of a request that is under way *)

LEMMA MarkStep ==
  ASSUME IInv, TypeOK', NEW r \in Requests, Mark(r)
  PROVE  IInv'
<1> USE DEF IInv
<1> DEFINE K == CacheKey(req[r])
<1>1. /\ pc[r] = "missed" /\ pc' = [pc EXCEPT ![r] = "marked"]
      /\ UNCHANGED <<req, answer, source, applied, met>>
  BY DEF Mark, Goto
<1>2. req[r] \in Request /\ source[r] = r /\ r \notin applied /\ K \in CacheKeys
  BY <1>1, KeyType DEF LiveInv, Live, Stages, Kept
<1>3. /\ gone \subseteq gone'
      /\ \A k \in CacheKeys \ {K} : cache'[k] = cache[k]
      /\ cache'[K] = Processing(r) \/ (K \in gone' /\ UNCHANGED cache)
      /\ \A c \in transit' \ transit : c[1] = K /\ c[1] \in gone' /\ c[2] = Processing(r)
  BY <1>2, SetCache DEF Mark
<1>4. pc'[r] = "marked" /\ \A x \in Requests \ {r} : pc'[x] = pc[x]
  BY <1>1 DEF TypeOK
<1>5. /\ IdleInv' /\ SourceInv' /\ BusyInv' /\ PairInv'
      /\ \A x \in Requests : Live(x)' => Live(x)
      /\ \A x \in Requests : Live(x) /\ Shielded(x) => Shielded(x)'
      /\ \A x \in Requests : Lost(x) => Lost(x)'
  BY <1>1, <1>3, <1>4, RunningStep DEF Stages
<1>6. LiveInv'
  BY <1>1, <1>2, <1>4, <1>5 DEF LiveInv, Live, Kept
<1>7. EntryInv'
  <2> SUFFICES ASSUME NEW k \in CacheKeys, cache'[k] # NoEntry
               PROVE  EntryOf(k, cache[k], cache[k].by)'
    BY DEF EntryInv
  <2>1. CASE k = K /\ cache'[K] = Processing(r)
    BY <1>1, <1>2, <1>4, <2>1 DEF EntryOf, Processing, Stages
  <2>2. CASE cache'[k] = cache[k]
    <3>1. EntryOf(k, cache[k], cache[k].by) /\ cache[k].by \in Requests
      BY <2>2 DEF EntryInv, TypeOK, Entry
    <3>2. cache[k].by # r
      BY <1>1, <3>1 DEF EntryOf
    <3>3. QED
      BY <1>1, <1>3, <1>4, <2>2, <3>1, <3>2, EntryStays
  <2>3. QED
    BY <1>3, <2>1, <2>2
<1>8. ShieldInv'
  <2>1. NoEntry # Processing(r)
    BY DEF NoEntry, Processing
  <2>2. cache'[K] # NoEntry \/ Lost(r)'
    BY <1>1, <1>3, <2>1 DEF Lost
  <2>3. ASSUME NEW x \in Requests \ {r}, Past(x), cache[CacheKey(req[x])] # NoEntry
        PROVE  cache'[CacheKey(req[x])] # NoEntry
    <3>1. CacheKey(req[x]) \in CacheKeys
      BY <2>3, KeyType DEF Past, LiveInv, Live, Kept
    <3>2. QED
      BY <1>3, <2>1, <2>3, <3>1
  <2>4. \A x \in Requests \ {r} : Past(x)' => Past(x)
    BY <1>1, <1>4 DEF Past, Kept
  <2>5. QED
    BY <1>1, <1>5, <2>2, <2>3, <2>4, ShieldKept
<1>9. TransitInv'
  <2>1. PICK k, e : k = K /\ e = Processing(r)
    OBVIOUS
  <2>2. /\ k \in gone' => EntryOf(k, e, r)'
        /\ e.by = r
    BY <1>1, <1>2, <1>4, <2>1 DEF EntryOf, Processing, CacheKey
  <2>3. ASSUME NEW c \in transit' \ transit
        PROVE  c[1] \in gone' /\ EntryOf(c[1], c[2], c[2].by)'
    <3>1. c[1] = k /\ c[2] = e /\ c[1] \in gone'
      BY <1>3, <2>1
    <3>2. QED
      BY <2>2, <3>1
  <2>4. QED
    BY <1>1, <1>3, <1>4, <2>3, TransitStays DEF Final
<1>10. QED
  BY <1>5, <1>6, <1>7, <1>8, <1>9

(* The handler answers, or the request dies: Redis does not hear of it. *)
LEMMA QuietStep ==
  ASSUME IInv, TypeOK', NEW r \in Requests,
         (\E result \in Results : Handle(r, result)) \/ Panic(r) \/ Die(r)
  PROVE  IInv'
<1> USE DEF IInv
<1>1. /\ pc[r] \in Stages
      /\ UNCHANGED <<cache, transit, req, source, met, gone>>
      /\ applied \subseteq applied' /\ applied' \subseteq applied \cup {r}
      /\ \A x \in Requests \ {r} : pc'[x] = pc[x] /\ answer'[x] = answer[x]
  BY DEF Handle, Panic, Die, Goto, Busy, Stages, TypeOK
<1>2. \/ /\ pc[r] = "marked" /\ pc'[r] = "ran" /\ answer'[r] \in Results
         /\ answer'[r] = "success" <=> r \in applied'
      \/ pc[r] = "marked" /\ pc'[r] = "dead" /\ UNCHANGED applied
      \/ pc'[r] = "dead" /\ UNCHANGED <<applied, answer>>
  <2>1. ASSUME NEW result \in Results, Handle(r, result)
        PROVE  /\ pc[r] = "marked" /\ pc'[r] = "ran" /\ answer'[r] = result
               /\ answer'[r] = "success" <=> r \in applied'
    BY <2>1 DEF Handle, Goto, TypeOK, LiveInv
  <2>2. CASE Panic(r)
    BY <2>2 DEF Panic, Goto, TypeOK
  <2>3. CASE Die(r)
    BY <2>3 DEF Die, Goto, TypeOK
  <2>4. QED
    BY <2>1, <2>2, <2>3
<1>3. /\ req[r] \in Request /\ source[r] = r
      /\ pc[r] = "marked" => r \notin applied /\ answer[r] = "none"
      /\ r \in applied => answer[r] = "success"
  BY <1>1 DEF LiveInv, Live, Kept
<1>4. /\ pc'[r] \notin {"idle", "missed"}
      /\ pc[r] = "stored" => pc'[r] \in Final /\ answer'[r] = answer[r]
      /\ answer[r] = "error" => answer'[r] = "error"
  BY <1>2, <1>3 DEF Final
<1>5. /\ IdleInv' /\ SourceInv' /\ BusyInv' /\ PairInv'
      /\ \A x \in Requests : Live(x)' => Live(x)
      /\ \A x \in Requests : Live(x) /\ Shielded(x) => Shielded(x)'
      /\ \A x \in Requests : Lost(x) => Lost(x)'
  BY <1>1, <1>4, RunningStep
<1>6. LiveInv'
  <2> SUFFICES ASSUME NEW x \in Requests
               PROVE  /\ Live(x)' => req[x] \in Request /\ source[x] = x
                      /\ x \in applied' => answer'[x] = "success"
                      /\ pc'[x] \in {"missed", "marked"} => x \notin applied' /\ answer'[x] = "none"
                      /\ pc'[x] \in {"ran", "stored"} =>
                           answer'[x] \in Results /\ (answer'[x] = "success" => x \in applied')
                      /\ pc'[x] = "stored" => answer'[x] = "error"
    BY <1>1 DEF LiveInv
  <2>1. CASE x # r
    BY <1>1, <1>5, <2>1 DEF LiveInv
  <2>2. CASE x = r
    BY <1>2, <1>3, <2>2
  <2>3. QED
    BY <2>1, <2>2
<1>7. EntryInv'
  <2> SUFFICES ASSUME NEW k \in CacheKeys, cache[k] # NoEntry
               PROVE  EntryOf(k, cache[k], cache[k].by)'
    BY <1>1 DEF EntryInv
  <2>1. EntryOf(k, cache[k], cache[k].by) /\ cache[k].by \in Requests
    BY DEF EntryInv, TypeOK, Entry
  <2>2. CASE cache[k].by # r
    BY <1>1, <2>1, <2>2, EntryStays
  <2>3. CASE cache[k].by = r
    <3>1. cache[k].status \in {"processing", "completed"}
      BY DEF TypeOK, Entry
    <3>2. CASE pc[r] = "marked"
      BY <1>1, <1>2, <2>1, <2>3, <3>1, <3>2 DEF EntryOf, Final, Stages
    <3>3. CASE pc'[r] = "dead" /\ UNCHANGED <<applied, answer>>
      BY <1>1, <2>1, <2>3, <3>3 DEF EntryOf, Final
    <3>4. QED
      BY <1>2, <3>2, <3>3
  <2>4. QED
    BY <2>2, <2>3
<1>8. ShieldInv'
  <2>1. ASSUME NEW x \in Requests, Past(x)'
        PROVE  Past(x)
    BY <1>1, <1>2, <2>1 DEF Past, Stages, Kept
  <2>2. Past(r) => Lost(r) \/ cache[CacheKey(req[r])] # NoEntry \/ Shielded(r)
    BY DEF ShieldInv
  <2>3. Past(r)' => Lost(r)' \/ cache'[CacheKey(req[r])] # NoEntry \/ Shielded(r)'
    BY <1>1, <1>5, <2>1, <2>2 DEF Past, Live, Kept
  <2>4. QED
    BY <1>1, <1>5, <2>1, <2>3, ShieldKept
<1>9. TransitInv'
  <2>1. pc[r] \in Final => pc'[r] \in Final /\ answer'[r] = answer[r]
    BY <1>1, <1>2 DEF Final
  <2>2. QED
    BY <1>1, <1>4, <2>1, TransitStays
<1>10. QED
  BY <1>5, <1>6, <1>7, <1>8, <1>9

(* Store: the entry is the request's from now on. *)
LEMMA StoreStep ==
  ASSUME IInv, TypeOK', NEW r \in Requests, Store(r)
  PROVE  IInv'
<1> USE DEF IInv
<1> DEFINE K == CacheKey(req[r])
<1>1. /\ pc[r] = "ran"
      /\ pc'[r] = IF answer[r] = "error" THEN "stored" ELSE "done"
      /\ \A x \in Requests \ {r} : pc'[x] = pc[x]
      /\ UNCHANGED <<req, answer, source, applied, met>>
  BY DEF Store, Goto, TypeOK
<1>2. /\ req[r] \in Request /\ source[r] = r /\ K \in CacheKeys
      /\ answer[r] \in Results /\ (answer[r] = "success" => r \in applied)
  BY <1>1, KeyType DEF LiveInv, Live, Stages, Kept
<1>3. /\ gone \subseteq gone'
      /\ \A k \in CacheKeys \ {K} : cache'[k] = cache[k]
      /\ cache'[K] = Completed(r) \/ (K \in gone' /\ UNCHANGED cache)
      /\ \A c \in transit' \ transit : c[1] = K /\ c[1] \in gone' /\ c[2] = Completed(r)
  BY <1>2, SetCache DEF Store
<1>4. /\ IdleInv' /\ SourceInv' /\ BusyInv' /\ PairInv'
      /\ \A x \in Requests : Live(x)' => Live(x)
      /\ \A x \in Requests : Live(x) /\ Shielded(x) => Shielded(x)'
      /\ \A x \in Requests : Lost(x) => Lost(x)'
  BY <1>1, <1>3, RunningStep DEF Stages
<1>5. LiveInv'
  BY <1>1, <1>2, <1>4 DEF LiveInv
<1>6. EntryInv'
  <2> SUFFICES ASSUME NEW k \in CacheKeys, cache'[k] # NoEntry
               PROVE  EntryOf(k, cache[k], cache[k].by)'
    BY DEF EntryInv
  <2>1. CASE k = K /\ cache'[K] = Completed(r)
    BY <1>1, <1>2, <2>1 DEF EntryOf, Completed, Stages, Final
  <2>2. CASE cache'[k] = cache[k]
    <3>1. /\ EntryOf(k, cache[k], cache[k].by) /\ cache[k].by \in Requests
          /\ cache[k].status \in {"processing", "completed"}
      BY <2>2 DEF EntryInv, TypeOK, Entry
    <3>2. CASE cache[k].by # r
      BY <1>1, <1>3, <2>2, <3>1, <3>2, EntryStays
    <3>3. CASE cache[k].by = r /\ k \in gone'
      BY <1>1, <2>2, <3>1, <3>3 DEF EntryOf, Final
    <3>4. CASE cache[k].by = r /\ k = K /\ cache'[K] = Completed(r)
      BY <2>1, <3>4
    <3>5. QED
      BY <1>3, <3>1, <3>2, <3>3, <3>4 DEF EntryOf
  <2>3. QED
    BY <1>3, <2>1, <2>2
<1>7. ShieldInv'
  <2>1. NoEntry # Completed(r)
    BY DEF NoEntry, Completed
  <2>2. cache'[K] # NoEntry \/ Lost(r)'
    BY <1>1, <1>3, <2>1 DEF Lost
  <2>3. ASSUME NEW x \in Requests \ {r}, Past(x), cache[CacheKey(req[x])] # NoEntry
        PROVE  cache'[CacheKey(req[x])] # NoEntry
    <3>1. CacheKey(req[x]) \in CacheKeys
      BY <2>3, KeyType DEF Past, LiveInv, Live, Kept
    <3>2. QED
      BY <1>3, <2>1, <2>3, <3>1
  <2>4. \A x \in Requests \ {r} : Past(x)' => Past(x)
    BY <1>1 DEF Past, Kept
  <2>5. QED
    BY <1>1, <1>4, <2>2, <2>3, <2>4, ShieldKept
<1>8. TransitInv'
  <2>1. PICK k, e : k = K /\ e = Completed(r)
    OBVIOUS
  <2>2. /\ k \in gone' => EntryOf(k, e, r)'
        /\ e.by = r
    BY <1>1, <1>2, <2>1 DEF EntryOf, Completed, CacheKey, Final
  <2>3. ASSUME NEW c \in transit' \ transit
        PROVE  c[1] \in gone' /\ EntryOf(c[1], c[2], c[2].by)'
    <3>1. c[1] = k /\ c[2] = e /\ c[1] \in gone'
      BY <1>3, <2>1
    <3>2. QED
      BY <2>2, <3>1
  <2>4. QED
    BY <1>1, <1>3, <2>3, TransitStays DEF Final
<1>9. QED
  BY <1>4, <1>5, <1>6, <1>7, <1>8

(* Delete: who marked the key before and is not explained by another failure was
   under way with this request, which failed. *)
LEMMA DeleteStep ==
  ASSUME IInv, TypeOK', NEW r \in Requests, Delete(r)
  PROVE  IInv'
<1> USE DEF IInv
<1> DEFINE K == CacheKey(req[r])
<1>1. /\ pc[r] = "stored" /\ pc'[r] = "done"
      /\ \A x \in Requests \ {r} : pc'[x] = pc[x]
      /\ UNCHANGED <<req, answer, source, applied, met>>
  BY DEF Delete, Goto, TypeOK
<1>2. /\ req[r] \in Request /\ source[r] = r /\ K \in CacheKeys
      /\ answer[r] = "error" /\ r \notin applied
  BY <1>1, KeyType DEF LiveInv, Live, Stages, Kept
<1>3. /\ gone \subseteq gone'
      /\ \A k \in CacheKeys \ {K} : cache'[k] = cache[k]
      /\ cache'[K] = NoEntry \/ (K \in gone' /\ UNCHANGED cache)
      /\ \A c \in transit' \ transit : c[1] = K /\ c[1] \in gone' /\ c[2] = NoEntry
  BY <1>2, SetCache DEF Delete
<1>4. /\ IdleInv' /\ SourceInv' /\ BusyInv' /\ PairInv'
      /\ \A x \in Requests : Live(x)' => Live(x)
      /\ \A x \in Requests : Live(x) /\ Shielded(x) => Shielded(x)'
      /\ \A x \in Requests : Lost(x) => Lost(x)'
  BY <1>1, <1>3, RunningStep DEF Stages, Final
<1>5. LiveInv'
  BY <1>1, <1>2, <1>4 DEF LiveInv
<1>6. EntryInv'
  <2> SUFFICES ASSUME NEW k \in CacheKeys, cache'[k] # NoEntry
               PROVE  EntryOf(k, cache[k], cache[k].by)'
    BY DEF EntryInv
  <2>1. cache'[k] = cache[k] /\ (k = K => k \in gone')
    BY <1>3
  <2>2. /\ EntryOf(k, cache[k], cache[k].by) /\ cache[k].by \in Requests
        /\ cache[k].status \in {"processing", "completed"}
    BY <2>1 DEF EntryInv, TypeOK, Entry
  <2>3. CASE cache[k].by # r
    BY <1>1, <1>3, <2>1, <2>2, <2>3, EntryStays
  <2>4. CASE cache[k].by = r
    BY <1>1, <2>1, <2>2, <2>4 DEF EntryOf, Final
  <2>5. QED
    BY <2>3, <2>4
<1>7. ShieldInv'
  <2>1. ~Past(r)'
    BY <1>1, <1>2 DEF Past, Stages, Kept
  <2>2. ASSUME NEW x \in Requests \ {r}, Past(x), cache[CacheKey(req[x])] # NoEntry
        PROVE  Lost(x)' \/ cache'[CacheKey(req[x])] # NoEntry \/ Shielded(x)'
    <3>1. req[x] \in Request /\ Live(x) /\ CacheKey(req[x]) \in CacheKeys
      BY <2>2, KeyType DEF Past, LiveInv, Live, Kept
    <3>2. CASE CacheKey(req[x]) # K
      BY <1>3, <2>2, <3>1, <3>2
    <3>3. CASE CacheKey(req[x]) = K
      <4>1. x \in Copies(r) /\ r \in Copies(x)
        BY <1>2, <3>1, <3>3, KeyInjective, RequestIsOne DEF Copies
      <4>2. Lost(x) \/ Overlapped(r, x) \/ Shielded(x)
        BY <1>1, <3>1, <4>1 DEF BusyInv, Stages
      <4>3. Overlapped(r, x) => Shielded(x)
        BY <1>2, <4>1 DEF Shielded
      <4>4. QED
        BY <1>4, <3>1, <4>2, <4>3
    <3>4. QED
      BY <3>2, <3>3
  <2>3. \A x \in Requests \ {r} : Past(x)' => Past(x)
    BY <1>1 DEF Past, Kept
  <2>4. QED
    BY <1>1, <1>4, <2>1, <2>2, <2>3, ShieldKept
<1>8. TransitInv'
  BY <1>1, <1>3, TransitStays DEF Final
<1>9. QED
  BY <1>4, <1>5, <1>6, <1>7, <1>8

-----------------------------------------------------------------------------
(* Requests that arrive, and the time that passes *)

(* What has begun is untouched by a request that begins. *)
LEMMA BeginFrame ==
  ASSUME IInv, NEW r \in Requests, NEW q \in Request, Begin(r, q),
         gone \subseteq gone', UNCHANGED applied,
         \A x \in Requests \ {r} : pc'[x] = pc[x] /\ answer'[x] = answer[x]
  PROVE  /\ pc[r] = "idle" /\ Live(r) = FALSE /\ req'[r] = q
         /\ \A x \in Requests \ {r} : req'[x] = req[x] /\ met'[x] = met[x]
         /\ \A x \in Requests : pc[x] \in Stages /\ req[x] = q => <<x, pc[x]>> \in met'[r]
         /\ \A x \in Requests : Live(x) /\ Shielded(x) => Shielded(x)'
         /\ \A x \in Requests \ {r} :
              /\ Lost(x) => Lost(x)'
              /\ Live(x)' <=> Live(x)
              /\ Past(x)' <=> Past(x)
         /\ \A x, y \in Requests \ {r} :
              /\ y \in Copies(x)' <=> y \in Copies(x)
              /\ Overlapped(x, y)' <=> Overlapped(x, y)
              /\ Raced(x, y)' <=> Raced(x, y)
<1> USE DEF IInv
<1>1. /\ pc[r] = "idle" /\ answer[r] = "none" /\ r \notin applied
      /\ req' = [req EXCEPT ![r] = q]
      /\ met' = [met EXCEPT ![r] = {<<s, pc[s]>> : s \in {t \in Busy : req[t] = q}}]
  BY DEF Begin, Arrives, IdleInv
<1>2. Live(r) = FALSE
  BY <1>1 DEF Live, Stages, Kept
<1>3. req'[r] = q /\ \A x \in Requests \ {r} : req'[x] = req[x] /\ met'[x] = met[x]
  BY <1>1 DEF TypeOK
<1>4. met'[r] = {<<s, pc[s]>> : s \in {t \in Busy : req[t] = q}}
  BY <1>1 DEF TypeOK
<1>5. \A x \in Requests : pc[x] \in Stages /\ req[x] = q => <<x, pc[x]>> \in met'[r]
  BY <1>4 DEF Busy
<1>6. ASSUME NEW x \in Requests, Live(x), Shielded(x)
      PROVE  Shielded(x)'
  <2>1. pc[x] # "idle" /\ req[x] # NoRequest
    BY <1>6, RequestIsOne DEF LiveInv, Live, IdleInv, Stages, Kept
  <2>2. \A y \in Requests : pc[y] # "idle" => y # r
    BY <1>1
  <2>3. \A y \in Requests :
          pc[y] # "idle" => /\ req'[y] = req[y] /\ met'[y] = met[y]
                            /\ answer[y] = "error" => answer'[y] = "error"
    BY <1>3, <2>2
  <2>4. QED
    BY <1>6, <2>1, <2>3, ShieldedStays
<1>7. \A x \in Requests \ {r} :
        /\ Lost(x) => Lost(x)'
        /\ Live(x)' <=> Live(x)
        /\ Past(x)' <=> Past(x)
  BY <1>3 DEF Lost, Live, Past, Kept
<1>8. \A x, y \in Requests \ {r} :
        /\ y \in Copies(x)' <=> y \in Copies(x)
        /\ Overlapped(x, y)' <=> Overlapped(x, y)
        /\ Raced(x, y)' <=> Raced(x, y)
  BY <1>3 DEF Copies, Overlapped, Raced, Met
<1>9. QED
  BY <1>1, <1>2, <1>3, <1>5, <1>6, <1>7, <1>8

(* The requests that had begun: their entries and answers stay explained. *)
LEMMA BeginKeeps ==
  ASSUME IInv, TypeOK', NEW r \in Requests, NEW q \in Request, Begin(r, q),
         gone \subseteq gone', UNCHANGED <<cache, transit, applied>>,
         \A x \in Requests \ {r} :
           pc'[x] = pc[x] /\ answer'[x] = answer[x] /\ source'[x] = source[x]
  PROVE  /\ EntryInv' /\ TransitInv'
         /\ \A x \in Requests \ {r} : source[x] # x => FoundFrom(x, source[x])'
<1> USE DEF IInv
<1>1. /\ pc[r] = "idle"
      /\ \A x \in Requests \ {r} : req'[x] = req[x] /\ (Lost(x) => Lost(x)')
      /\ \A x, y \in Requests \ {r} :
           /\ y \in Copies(x)' <=> y \in Copies(x)
           /\ Overlapped(x, y)' <=> Overlapped(x, y)
  BY BeginFrame
<1>2. EntryInv'
  <2> SUFFICES ASSUME NEW k \in CacheKeys, cache[k] # NoEntry
               PROVE  EntryOf(k, cache[k], cache[k].by)'
    BY DEF EntryInv
  <2>1. EntryOf(k, cache[k], cache[k].by) /\ cache[k].by \in Requests
    BY DEF EntryInv, TypeOK, Entry
  <2>2. cache[k].by # r
    BY <1>1, <2>1 DEF EntryOf
  <2>3. QED
    BY <1>1, <2>1, <2>2, EntryStays
<1>3. ASSUME NEW x \in Requests \ {r}, NEW s \in Requests, FoundFrom(x, s)
      PROVE  FoundFrom(x, s)'
  <2>1. s # r
    BY <1>1, <1>3 DEF FoundFrom
  <2>2. QED
    BY <1>1, <1>3, <2>1 DEF FoundFrom
<1>4. ASSUME NEW x \in Requests \ {r}, source[x] # x
      PROVE  FoundFrom(x, source[x])'
  <2>1. FoundFrom(x, source[x]) /\ source[x] \in Requests
    BY <1>4 DEF SourceInv, TypeOK
  <2>2. source'[x] = source[x]
    OBVIOUS
  <2>3. QED
    BY <1>3, <2>1, <2>2 DEF FoundFrom
<1>5. TransitInv'
  <2>1. \A x \in Requests : pc[x] # "idle" => x # r
    BY <1>1
  <2>2. QED
    BY <1>1, <2>1, TransitStays
<1>6. QED
  BY <1>2, <1>4, <1>5

LEMMA HitStep ==
  ASSUME IInv, TypeOK', NEW r \in Requests, NEW q \in Request, LookupHit(r, q)
  PROVE  IInv'
<1> USE DEF IInv
<1> DEFINE K == CacheKey(q)
<1>0. PICK s : s = cache[K].by
  OBVIOUS
<1>1. /\ Begin(r, q) /\ cache[K] # NoEntry /\ K \in CacheKeys
      /\ pc'[r] = "done"
      /\ answer'[r] = IF cache[K].status = "processing" THEN "conflict" ELSE cache[K].answer
      /\ source'[r] = s
      /\ UNCHANGED <<cache, transit, applied, gone>>
      /\ \A x \in Requests \ {r} :
           pc'[x] = pc[x] /\ answer'[x] = answer[x] /\ source'[x] = source[x]
  BY <1>0, KeyType DEF LookupHit, Goto, TypeOK
<1>2. /\ pc[r] = "idle" /\ Live(r) = FALSE /\ req'[r] = q
      /\ \A x \in Requests \ {r} : req'[x] = req[x] /\ met'[x] = met[x]
      /\ \A x \in Requests : pc[x] \in Stages /\ req[x] = q => <<x, pc[x]>> \in met'[r]
      /\ \A x \in Requests : Live(x) /\ Shielded(x) => Shielded(x)'
      /\ \A x \in Requests \ {r} :
           /\ Lost(x) => Lost(x)'
           /\ Live(x)' <=> Live(x)
           /\ Past(x)' <=> Past(x)
      /\ \A x, y \in Requests \ {r} :
           /\ y \in Copies(x)' <=> y \in Copies(x)
           /\ Overlapped(x, y)' <=> Overlapped(x, y)
           /\ Raced(x, y)' <=> Raced(x, y)
  BY <1>1, BeginFrame
<1>3. EntryInv' /\ TransitInv' /\ \A x \in Requests \ {r} : source[x] # x => FoundFrom(x, source[x])'
  BY <1>1, BeginKeeps
<1>4. /\ EntryOf(K, cache[K], s) /\ s \in Requests /\ cache[K].status \in {"processing", "completed"}
      /\ cache[K].status = "completed" => cache[K].answer \in Results
  BY <1>0, <1>1 DEF EntryInv, TypeOK, Entry
<1>5. s # r /\ req[s] = q /\ s \in Copies(r)'
  <2>1. s # r
    BY <1>2, <1>4 DEF EntryOf
  <2>2. req[s] = q
    BY <1>4, KeyInjective DEF EntryOf
  <2>3. QED
    BY <1>2, <1>4, <2>1, <2>2, RequestIsOne DEF Copies
<1>6. ~Live(r)' /\ ~Past(r)' /\ r \notin applied
  BY <1>1, <1>2 DEF IdleInv, Live, Past, Stages, Kept
<1>7. IdleInv'
  BY <1>1, <1>2 DEF IdleInv
<1>8. LiveInv'
  BY <1>1, <1>2, <1>6 DEF LiveInv
<1>9. FoundFrom(r, s)'
  <2>1. pc[s] \notin {"idle", "missed"} /\ pc'[s] = pc[s] /\ answer'[s] = answer[s]
    BY <1>1, <1>4, <1>5 DEF EntryOf
  <2>2. answer'[r] # "conflict" =>
          /\ pc[s] \in Final
          /\ answer'[r] = answer[s]
          /\ answer'[r] = "success" => s \in applied
    BY <1>0, <1>1, <1>4 DEF EntryOf
  <2>3. ASSUME answer'[r] \in {"conflict", "error"}
        PROVE  Lost(r)' \/ Overlapped(r, s)' \/ pc[s] = "dead"
    <3>1. K \in gone \/ pc[s] \in Stages \/ pc[s] = "dead"
      BY <1>0, <1>1, <1>4, <2>3 DEF EntryOf, Results
    <3>2. K \in gone => Lost(r)'
      <4>1. CacheKey(req[r])' = K
        BY <1>2 DEF CacheKey
      <4>2. QED
        BY <1>1, <4>1 DEF Lost
    <3>3. pc[s] \in Stages => Overlapped(r, s)'
      <4>1. pc[s] \in Stages => <<s, pc[s]>> \in met'[r]
        BY <1>2, <1>4, <1>5
      <4>2. QED
        BY <4>1 DEF Overlapped, Met
    <3>4. QED
      BY <3>1, <3>2, <3>3
  <2>4. QED
    BY <1>1, <1>4, <1>5, <2>1, <2>2, <2>3 DEF FoundFrom
<1>10. SourceInv'
  <2>1. ASSUME NEW x \in Requests \ {r}, source'[x] # x
        PROVE  FoundFrom(x, source[x])'
    BY <1>1, <1>3, <2>1
  <2>2. FoundFrom(r, source[r])'
    BY <1>1, <1>9 DEF FoundFrom
  <2>3. QED
    BY <2>1, <2>2 DEF SourceInv
<1>11. ShieldInv'
  BY <1>1, <1>2, <1>6 DEF ShieldInv, Past, Live, Kept
<1>12. BusyInv'
  <2> SUFFICES ASSUME NEW f \in Requests, NEW x \in Requests, x \in Copies(f)', pc'[f] \in Stages, Live(x)'
               PROVE  Lost(x)' \/ Overlapped(f, x)' \/ Shielded(x)'
    BY DEF BusyInv, Copies
  <2>1. x # r /\ f # r
    BY <1>1, <1>6 DEF Stages
  <2>2. QED
    BY <1>1, <1>2, <2>1 DEF BusyInv
<1>13. PairInv'
  <2> SUFFICES ASSUME NEW x \in Requests, NEW y \in Requests, y \in Copies(x)', Live(x)', Live(y)'
               PROVE  Lost(x)' \/ Raced(x, y)' \/ Shielded(x)' \/ Shielded(y)'
    BY DEF PairInv, Copies
  <2>1. x # r /\ y # r
    BY <1>6
  <2>2. QED
    BY <1>2, <2>1 DEF PairInv
<1>14. QED
  BY <1>3, <1>7, <1>8, <1>10, <1>11, <1>12, <1>13
LEMMA MissStep ==
  ASSUME IInv, TypeOK', NEW r \in Requests, NEW q \in Request, LookupMiss(r, q)
  PROVE  IInv'
<1> USE DEF IInv
<1> DEFINE K == CacheKey(q)
<1>1. /\ Begin(r, q) /\ K \in CacheKeys
      /\ pc'[r] = "missed" /\ gone \subseteq gone'
      /\ cache[K] = NoEntry \/ K \in gone'
      /\ UNCHANGED <<cache, transit, applied, answer, source>>
      /\ \A x \in Requests \ {r} :
           pc'[x] = pc[x] /\ answer'[x] = answer[x] /\ source'[x] = source[x]
  BY KeyType DEF LookupMiss, Unreached, TypeOK
<1>2. /\ pc[r] = "idle" /\ Live(r) = FALSE /\ req'[r] = q
      /\ \A x \in Requests \ {r} : req'[x] = req[x] /\ met'[x] = met[x]
      /\ \A x \in Requests : pc[x] \in Stages /\ req[x] = q => <<x, pc[x]>> \in met'[r]
      /\ \A x \in Requests : Live(x) /\ Shielded(x) => Shielded(x)'
      /\ \A x \in Requests \ {r} :
           /\ Lost(x) => Lost(x)'
           /\ Live(x)' <=> Live(x)
           /\ Past(x)' <=> Past(x)
      /\ \A x, y \in Requests \ {r} :
           /\ y \in Copies(x)' <=> y \in Copies(x)
           /\ Overlapped(x, y)' <=> Overlapped(x, y)
           /\ Raced(x, y)' <=> Raced(x, y)
  BY <1>1, BeginFrame
<1>3. EntryInv' /\ TransitInv' /\ \A x \in Requests \ {r} : source[x] # x => FoundFrom(x, source[x])'
  BY <1>1, BeginKeeps
<1>4. answer[r] = "none" /\ source[r] = r /\ r \notin applied /\ ~Past(r)'
  BY <1>1, <1>2 DEF IdleInv, Past, Kept
<1>5. IdleInv'
  BY <1>1, <1>2 DEF IdleInv
<1>6. LiveInv'
  <2>1. ASSUME NEW x \in Requests, x # r, Live(x)'
        PROVE  req'[x] \in Request /\ source'[x] = x
    BY <1>1, <1>2, <2>1 DEF LiveInv
  <2>2. QED
    BY <1>1, <1>2, <1>4, <2>1 DEF LiveInv
<1>7. SourceInv'
  BY <1>1, <1>3, <1>4 DEF SourceInv
<1>8. ShieldInv'
  <2> SUFFICES ASSUME NEW x \in Requests, Past(x)'
               PROVE  Lost(x)' \/ cache[CacheKey(req'[x])] # NoEntry \/ Shielded(x)'
    BY <1>1 DEF ShieldInv, CacheKey
  <2>1. x # r /\ Past(x) /\ Live(x)
    BY <1>2, <1>4 DEF Past, Live, Kept
  <2>2. QED
    BY <1>2, <2>1 DEF ShieldInv
(* How a copy that is alive stands to the one that begins. *)
<1>9. ASSUME NEW x \in Requests, x # r, req[x] = q, Live(x)
      PROVE  Lost(x)' \/ <<x, "missed">> \in met'[r] \/ Shielded(x)'
  <2>1. CASE pc[x] = "missed"
    BY <1>2, <1>9, <2>1 DEF Stages
  <2>2. CASE pc[x] # "missed"
    <3>1. Past(x)
      BY <1>9, <2>2 DEF Past, Live, Kept
    <3>2. Lost(x) \/ cache[K] # NoEntry \/ Shielded(x)
      BY <1>9, <3>1 DEF ShieldInv
    <3>3. cache[K] # NoEntry => Lost(x)'
      <4>1. CacheKey(req[x])' = K
        BY <1>2, <1>9 DEF CacheKey
      <4>2. QED
        BY <1>1, <4>1 DEF Lost
    <3>4. QED
      BY <1>2, <1>9, <3>2, <3>3
  <2>3. QED
    BY <2>1, <2>2
<1>10. ASSUME NEW x \in Requests, x \in Copies(r)' \/ r \in Copies(x)'
       PROVE  /\ x # r /\ req[x] = q
              /\ Lost(r)' <=> Lost(x)'
              /\ Overlapped(r, x)' <=> Overlapped(x, r)'
              /\ Raced(r, x)' <=> Raced(x, r)'
              /\ <<x, "missed">> \in met'[r] => Raced(r, x)' /\ Raced(x, r)'
              /\ pc[x] \in Stages => Overlapped(r, x)' /\ Overlapped(x, r)'
  <2>1. x # r /\ req'[x] = req'[r] /\ req[x] = q
    BY <1>2, <1>10 DEF Copies
  <2>2. Lost(r)' <=> Lost(x)'
    BY <2>1 DEF Lost
  <2>3. /\ Overlapped(r, x)' <=> Overlapped(x, r)'
        /\ Raced(r, x)' <=> Raced(x, r)'
        /\ <<x, "missed">> \in met'[r] => Raced(r, x)' /\ Raced(x, r)'
    BY DEF Overlapped, Raced
  <2>4. pc[x] \in Stages => Overlapped(r, x)' /\ Overlapped(x, r)'
    <3>1. pc[x] \in Stages => <<x, pc[x]>> \in met'[r]
      BY <1>2, <2>1
    <3>2. QED
      BY <3>1 DEF Overlapped, Met
  <2>5. QED
    BY <2>1, <2>2, <2>3, <2>4
<1>11. BusyInv'
  <2> SUFFICES ASSUME NEW f \in Requests, NEW x \in Requests, x \in Copies(f)', pc'[f] \in Stages, Live(x)'
               PROVE  Lost(x)' \/ Overlapped(f, x)' \/ Shielded(x)'
    BY DEF BusyInv, Copies
  <2>1. CASE x # r /\ f # r
    BY <1>1, <1>2, <2>1 DEF BusyInv
  <2>2. CASE x = r
    <3>1. f # r /\ pc[f] \in Stages
      BY <1>1, <1>10, <2>2
    <3>2. QED
      BY <1>10, <2>2, <3>1
  <2>3. CASE f = r
    <3>1. x # r /\ req[x] = q /\ Live(x)
      BY <1>2, <1>10, <2>3
    <3>2. <<x, "missed">> \in met'[r] => Overlapped(r, x)'
      BY DEF Overlapped, Met
    <3>3. QED
      BY <1>9, <2>3, <3>1, <3>2
  <2>4. QED
    BY <2>1, <2>2, <2>3
<1>12. PairInv'
  <2> SUFFICES ASSUME NEW x \in Requests, NEW y \in Requests, y \in Copies(x)', Live(x)', Live(y)'
               PROVE  Lost(x)' \/ Raced(x, y)' \/ Shielded(x)' \/ Shielded(y)'
    BY DEF PairInv, Copies
  <2>1. CASE x # r /\ y # r
    BY <1>2, <2>1 DEF PairInv
  <2>2. CASE x = r
    <3>1. y # r /\ req[y] = q /\ Live(y)
      BY <1>2, <1>10, <2>2
    <3>2. QED
      BY <1>9, <1>10, <2>2, <3>1
  <2>3. CASE y = r
    <3>1. x # r /\ req[x] = q /\ Live(x)
      BY <1>2, <1>10, <2>3
    <3>2. QED
      BY <1>9, <1>10, <2>3, <3>1
  <2>4. QED
    BY <2>1, <2>2, <2>3
<1>13. QED
  BY <1>3, <1>5, <1>6, <1>7, <1>8, <1>11, <1>12

(* Requests that pass by, contexts that end, and what befalls an entry when no
   request is there: it expires, or Redis executes a command late. *)
LEMMA OutsideStep ==
  ASSUME IInv, TypeOK', UNCHANGED <<req, source, met>>, gone \subseteq gone',
         transit' \subseteq transit,
         \A x \in Requests :
           \/ /\ pc'[x] = pc[x] /\ answer'[x] = answer[x]
              /\ x \in applied' <=> x \in applied
           \/ /\ pc[x] = "idle" /\ pc'[x] = "done"
              /\ x \in applied' => answer'[x] = "success",
         \A k \in CacheKeys :
           \/ cache'[k] = cache[k]
           \/ /\ k \in gone'
              /\ cache'[k] # NoEntry => EntryOf(k, cache'[k], cache'[k].by)
  PROVE  IInv'
<1> USE DEF IInv
<1>1. /\ applied \subseteq applied'
      /\ \A x \in Requests :
           /\ pc'[x] \in Stages <=> pc[x] \in Stages
           /\ pc[x] # "idle" => pc'[x] = pc[x] /\ answer'[x] = answer[x]
           /\ pc'[x] \in {"idle", "missed", "marked", "ran", "stored"} =>
                pc'[x] = pc[x] /\ answer'[x] = answer[x]
           /\ x \in applied' => answer'[x] = "success"
           /\ pc[x] # "idle" \/ pc'[x] # "done" => (x \in applied' <=> x \in applied)
  BY DEF IdleInv, LiveInv, Stages, TypeOK
<1>2. \A x \in Requests :
        /\ Kept(x)' <=> Kept(x)
        /\ Lost(x) => Lost(x)'
        /\ Copies(x)' = Copies(x)
        /\ \A y \in Requests :
             /\ Overlapped(x, y)' <=> Overlapped(x, y)
             /\ Raced(x, y)' <=> Raced(x, y)
  BY <1>1 DEF Kept, IdleInv, Lost, Copies, Overlapped, Raced, Met
<1>3. \A x \in Requests :
        /\ Live(x)' <=> Live(x)
        /\ Past(x)' <=> Past(x)
  BY <1>1, <1>2 DEF Live, Past, Stages, Kept
<1>4. ASSUME NEW x \in Requests
      PROVE  Shielded(x) => Shielded(x)'
  <2>1. \A g \in Copies(x) : g \in Requests /\ pc[g] # "idle"
    BY DEF Copies, IdleInv
  <2>2. QED
    BY <1>1, <1>2, <2>1 DEF Shielded
<1>5. IdleInv'
  BY <1>1 DEF IdleInv
<1>6. LiveInv'
  <2>1. ASSUME NEW x \in Requests, Live(x)'
        PROVE  req'[x] \in Request /\ source'[x] = x
    BY <1>3, <2>1 DEF LiveInv
  <2>2. ASSUME NEW x \in Requests
        PROVE  /\ x \in applied' => answer'[x] = "success"
               /\ pc'[x] \in {"missed", "marked"} => x \notin applied' /\ answer'[x] = "none"
               /\ pc'[x] \in {"ran", "stored"} =>
                    answer'[x] \in Results /\ (answer'[x] = "success" => x \in applied')
               /\ pc'[x] = "stored" => answer'[x] = "error"
    BY <1>1, <2>2 DEF LiveInv
  <2>3. QED
    BY <2>1, <2>2 DEF LiveInv
<1>7. EntryInv'
  <2> SUFFICES ASSUME NEW k \in CacheKeys, cache'[k] # NoEntry
               PROVE  EntryOf(k, cache[k], cache[k].by)'
    BY DEF EntryInv
  <2>1. PICK e, s : e = cache'[k] /\ s = cache'[k].by
    OBVIOUS
  <2>2. EntryOf(k, e, s)
    BY <2>1 DEF EntryInv
  <2>3. s \in Requests
    BY <2>1 DEF TypeOK, Entry
  <2>4. EntryOf(k, e, s)'
    BY <1>1, <2>2, <2>3 DEF EntryOf
  <2>5. QED
    BY <2>1, <2>4
<1>8. SourceInv'
  <2> SUFFICES ASSUME NEW x \in Requests, source[x] # x
               PROVE  FoundFrom(x, source[x])'
    BY DEF SourceInv
  <2>1. PICK s : s = source[x]
    OBVIOUS
  <2>2. FoundFrom(x, s) /\ s \in Requests
    BY <2>1 DEF SourceInv, TypeOK
  <2>3. pc'[x] = pc[x] /\ pc'[s] = pc[s] /\ answer'[x] = answer[x] /\ answer'[s] = answer[s]
    BY <1>1, <2>2 DEF FoundFrom
  <2>4. FoundFrom(x, s)'
    BY <1>1, <1>2, <2>2, <2>3 DEF FoundFrom
  <2>5. QED
    BY <2>1, <2>4 DEF FoundFrom
<1>9. ShieldInv'
  <2> SUFFICES ASSUME NEW x \in Requests, Past(x)'
               PROVE  Lost(x)' \/ cache'[CacheKey(req[x])] # NoEntry \/ Shielded(x)'
    BY DEF ShieldInv
  <2>1. Past(x) /\ Live(x)
    BY <1>3 DEF Past, Live, Kept
  <2>2. CacheKey(req[x]) \in CacheKeys
    BY <2>1, KeyType DEF LiveInv
  <2>3. Lost(x) \/ cache[CacheKey(req[x])] # NoEntry \/ Shielded(x)
    BY <2>1 DEF ShieldInv
  <2>4. QED
    BY <1>2, <1>4, <2>2, <2>3 DEF Lost
<1>10. BusyInv'
  <2> SUFFICES ASSUME NEW f \in Requests, NEW x \in Requests, x \in Copies(f),
                      pc'[f] \in Stages, Live(x)'
               PROVE  Lost(x)' \/ Overlapped(f, x)' \/ Shielded(x)'
    BY <1>2 DEF BusyInv, Copies
  <2>1. Lost(x) \/ Overlapped(f, x) \/ Shielded(x)
    BY <1>1, <1>3 DEF BusyInv
  <2>2. QED
    BY <1>2, <1>4, <2>1
<1>11. PairInv'
  <2> SUFFICES ASSUME NEW x \in Requests, NEW y \in Requests, y \in Copies(x),
                      Live(x)', Live(y)'
               PROVE  Lost(x)' \/ Raced(x, y)' \/ Shielded(x)' \/ Shielded(y)'
    BY <1>2 DEF PairInv, Copies
  <2>1. Lost(x) \/ Raced(x, y) \/ Shielded(x) \/ Shielded(y)
    BY <1>3 DEF PairInv
  <2>2. QED
    BY <1>2, <1>4, <2>1
<1>12. TransitInv'
  BY <1>1, TransitStays
<1>13. QED
  BY <1>5, <1>6, <1>7, <1>8, <1>9, <1>10, <1>11, <1>12

LEMMA InitIInv == Init => IInv
<1> SUFFICES ASSUME Init PROVE IInv
  OBVIOUS
<1>1. TypeOK
  BY InitTypes
<1>2. \A r \in Requests : ~Live(r) /\ ~Past(r)
  BY DEF Init, Live, Past, Kept, Stages
<1>3. IdleInv /\ SourceInv /\ EntryInv /\ TransitInv
  BY DEF Init, IdleInv, SourceInv, EntryInv, TransitInv
<1>4. LiveInv
  BY <1>2 DEF Init, LiveInv
<1>5. ShieldInv /\ BusyInv /\ PairInv
  BY <1>2 DEF Init, Stages, ShieldInv, BusyInv, PairInv
<1>6. QED
  BY <1>1, <1>3, <1>4, <1>5 DEF IInv

LEMMA StepIInv == IInv /\ [Next]_vars => IInv'
<1> SUFFICES ASSUME IInv, [Next]_vars PROVE IInv'
  OBVIOUS
<1>0. TypeOK
  BY DEF IInv
<1>1. ASSUME NEW r \in Requests, (\E result \in Results : Bypass(r, result)) \/ Unreadable(r)
      PROVE  IInv'
  <2>1. TypeOK'
    BY <1>0, <1>1, BypassTypes
  <2>2. /\ UNCHANGED <<cache, transit, req, source, met, gone>>
        /\ pc[r] = "idle" /\ pc'[r] = "done" /\ r \notin applied
        /\ r \in applied' => answer'[r] = "success"
        /\ \A x \in Requests \ {r} : /\ pc'[x] = pc[x] /\ answer'[x] = answer[x]
                                     /\ x \in applied' <=> x \in applied
    BY <1>0, <1>1 DEF Bypass, Unreadable, Arrives, TypeOK, IInv, IdleInv
  <2>3. QED
    BY <2>1, <2>2, OutsideStep
<1>2. ASSUME NEW r \in Requests, Start(r)
      PROVE  IInv'
  <2>1. PICK q \in Request : LookupHit(r, q) \/ LookupMiss(r, q)
    BY <1>2 DEF Start, Request
  <2>2. TypeOK'
    BY <2>1, StartTypes
  <2>3. QED
    BY <2>1, <2>2, HitStep, MissStep
<1>3. ASSUME NEW r \in Requests, Step(r) \/ Panic(r) \/ Die(r)
      PROVE  IInv'
  <2>1. TypeOK'
    BY <1>3, StepTypes
  <2>2. ASSUME NEW result \in Results, Handle(r, result)
        PROVE  IInv'
    BY <2>1, <2>2, QuietStep
  <2>3. QED
    BY <1>3, <2>1, <2>2, MarkStep, QuietStep, StoreStep, DeleteStep DEF Step
<1>4. ASSUME NEW r \in Requests, Expire(r)
      PROVE  IInv'
  <2>1. TypeOK'
    BY <1>0, <1>4 DEF Expire, TypeOK
  <2>2. QED
    BY <1>4, <2>1, OutsideStep DEF Expire
<1>5. ASSUME NEW k \in CacheKeys, Evict(k)
      PROVE  IInv'
  <2>1. TypeOK'
    BY <1>0, <1>5 DEF Evict, TypeOK
  <2>2. \A j \in CacheKeys : cache'[j] = cache[j] \/ (cache'[j] = NoEntry /\ j \in gone')
    BY <1>0, <1>5 DEF Evict, TypeOK
  <2>3. QED
    BY <1>5, <2>1, <2>2, OutsideStep DEF Evict
<1>6. ASSUME NEW c \in transit, Overdue(c[1], c[2])
      PROVE  IInv'
  <2>1. PICK k \in CacheKeys, e \in {NoEntry} \cup Entry : k = c[1] /\ e = c[2]
    BY <1>0 DEF TypeOK
  <2>2. /\ cache' = [cache EXCEPT ![k] = e] /\ transit' \subseteq transit
        /\ UNCHANGED <<pc, req, late, answer, source, applied, met, gone, faults>>
    BY <1>6, <2>1 DEF Overdue
  <2>3. k \in gone /\ (e # NoEntry => EntryOf(k, e, e.by))
    BY <2>1 DEF IInv, TransitInv
  <2>4. TypeOK'
    BY <1>0, <2>1, <2>2 DEF TypeOK
  <2>5. cache'[k] = e /\ \A j \in CacheKeys \ {k} : cache'[j] = cache[j]
    BY <1>0, <2>2 DEF TypeOK
  <2>6. QED
    BY <2>2, <2>3, <2>4, <2>5, OutsideStep
<1>7. CASE UNCHANGED vars
  <2>1. TypeOK'
    BY <1>0, <1>7 DEF vars, TypeOK
  <2>2. QED
    BY <1>7, <2>1, OutsideStep DEF vars
<1>8. QED
  BY <1>1, <1>2, <1>3, <1>4, <1>5, <1>6, <1>7 DEF Next, Rest

-----------------------------------------------------------------------------
(* The theorems *)

(* The inductive invariant of the middleware holds always. *)
THEOREM Invariance == Spec => []IInv
BY InitIInv, StepIInv, PTL DEF Spec

(* Entries, answers and positions keep their types. *)
THEOREM TypeCorrect == Spec => []TypeOK
<1>1. IInv => TypeOK
  BY DEF IInv
<1>2. QED
  BY <1>1, Invariance, PTL

(* Of the copies of a request that go through the middleware one takes effect,
   whatever races, unless one of the named things happened. *)
THEOREM CopiesApplyOnce == Spec => []AppliedOnce
<1>1. ASSUME IInv PROVE AppliedOnce
  <2> SUFFICES ASSUME NEW r \in applied, NEW q \in applied \cap Copies(r)
               PROVE  \/ Lost(r)
                      \/ Raced(r, q)
                      \/ \E f \in Copies(r) : answer[f] = "error" /\ (Overlapped(f, r) \/ Overlapped(f, q))
    BY DEF AppliedOnce
  <2>1. r \in Requests /\ q \in Requests /\ Live(r) /\ Live(q) /\ answer[r] = "success"
    BY <1>1 DEF IInv, TypeOK, Copies, Live, Kept, LiveInv
  <2>2. Lost(r) \/ Raced(r, q) \/ Shielded(r) \/ Shielded(q)
    BY <1>1, <2>1 DEF IInv, PairInv
  <2>3. ASSUME NEW f \in Copies(q), answer[f] = "error"
        PROVE  f \in Copies(r)
    BY <2>1, <2>3 DEF Copies
  <2>4. QED
    BY <2>2, <2>3 DEF Shielded
<1>2. QED
  BY <1>1, Invariance, PTL

(* An answer that is replayed is the answer of a copy, never of another body. *)
THEOREM ReplaysGenuine == Spec => []ReplayIsGenuine
<1>1. IInv => ReplayIsGenuine
  BY DEF IInv, SourceInv, FoundFrom, ReplayIsGenuine
<1>2. QED
  BY <1>1, Invariance, PTL

(* Nobody is sent away for a copy that is over, unless it died or Redis missed a
   command. *)
THEOREM RetriesThrough == Spec => []RetriesGetThrough
<1>1. IInv => RetriesGetThrough
  BY DEF IInv, SourceInv, FoundFrom, RetriesGetThrough
<1>2. QED
  BY <1>1, Invariance, PTL
=============================================================================

----------------------------- MODULE CatalogProofs -----------------------------
(***************************************************************************)
(* Theorems about Catalog for every number of calls, products and plans    *)
(* and every limit.                                                        *)
(*                                                                         *)
(* A call that holds a copy of a product may write it over everything that *)
(* happened meanwhile: the invariant says of each copy what it would undo, *)
(* and that whoever did that was under way together with the holder.       *)
(***************************************************************************)
EXTENDS Catalog, FiniteLemmas

Stopped == Ended \cup {"idle"}
Holding == {"product_read", "archive_read", "archive_listed"}
WriteOps == {"update", "archive"}

Holds(c, p) == pc[c] \in Holding /\ req[c].id = p

CallInv(c) ==
  /\ pc[c] = "idle" => met[c] = {} /\ req[c] = NoRequest /\ ~products[c].exists
  /\ pc[c] \in {"idle", "plan_checked"} => ~plans[c].exists
  /\ pc[c] = "product_read" => req[c].op = "update" /\ copy[c].exists /\ c \in copy[c].edits
  /\ pc[c] \in {"archive_read", "archive_listed"} =>
       req[c].op = "archive" /\ copy[c].exists /\ ~copy[c].active
  /\ pc[c] = "plan_checked" => req[c].op = "create_plan"
  /\ pc[c] = "plan_read" => /\ req[c].op = "archive_plan" /\ req[c].id \in PlanIds
                            /\ plans[req[c].id].exists
  /\ pc[c] = "walking" => req[c].op = "list"
  /\ req[c].op \in WriteOps \cup {"create_plan"} =>
       req[c].id \in ProductIds /\ products[req[c].id].exists

(* Why update u may be missing, archiving a undone, plan q open. *)
Overwritten(u, p) == \E w \in Writers(p) : w # u /\ Overlapped(w, u)
Undone(a, p) == \E u \in Calls : Did(u, "update", p) /\ Overlapped(u, a)
Slipped(q, p) == q \in Calls /\ \E w \in Writers(p) : Overlapped(w, q)
Full(p) == Cardinality(PlansOf(p)) > ListLimit

(* What the copy of call c would undo. *)
EditInv(c) ==
  \A u \in Calls, p \in ProductIds :
    Holds(c, p) /\ Did(u, "update", p) =>
      u \in copy[c].edits \/ Overlapped(c, u) \/ Overwritten(u, p)

OpenInv(c) ==
  \A a \in Calls, p \in ProductIds :
    Holds(c, p) /\ copy[c].active /\ Did(a, "archive", p) =>
      Overlapped(c, a) \/ Undone(a, p)

SealInv(c) ==
  \A p \in ProductIds : \A q \in PlansOf(p) :
    Holds(c, p) /\ ~copy[c].active /\ plans[q].active =>
      \/ Slipped(q, p) \/ Full(p)
      \/ q \in Calls /\ Overlapped(c, q)
      \/ pc[c] = "archive_read"
      \/ pc[c] = "archive_listed" /\ q \in listed[c]

(* A plan that is about to be inserted for a product that was archived. *)
InsertInv(c) ==
  \A p \in ProductIds :
    pc[c] = "plan_checked" /\ req[c].id = p /\ ~products[p].active => Slipped(c, p)

BusyInv ==
  \A c, d \in Calls : c # d /\ pc[c] \notin Stopped /\ pc[d] \notin Stopped => Overlapped(c, d)

TableInv == IsFiniteSet({q \in PlanIds : plans[q].exists})

IInv ==
  /\ TypeOK /\ BusyInv /\ TableInv
  /\ \A c \in Calls : CallInv(c)
  /\ \A c \in Calls : EditInv(c) /\ OpenInv(c) /\ SealInv(c) /\ InsertInv(c)
  /\ EditsSurvive /\ ReopenedOnlyByOverlap /\ ArchivedIsSealed

-----------------------------------------------------------------------------
(* The plans of a product and the query that lists them *)

LEMMA SubsetFinite ==
  ASSUME NEW S, IsFiniteSet(S), NEW T \in SUBSET S
  PROVE  IsFiniteSet(T) /\ Cardinality(T) \in Nat /\ Cardinality(T) <= Cardinality(S)
<1>1. IsFiniteSet(T) /\ Cardinality(T) <= Cardinality(S)
  BY FS_Subset
<1>2. Cardinality(T) \in Nat
  BY <1>1, FS_CardinalityType
<1>3. QED
  BY <1>1, <1>2

LEMMA PlansFinite ==
  ASSUME TableInv, NEW p
  PROVE  IsFiniteSet(PlansOf(p)) /\ Cardinality(PlansOf(p)) \in Nat
<1> DEFINE T == {q \in PlanIds : plans[q].exists}
<1>1. PICK S \in SUBSET T : S = PlansOf(p)
  BY DEF PlansOf
<1>2. IsFiniteSet(T)
  BY DEF TableInv
<1> HIDE DEF T
<1>3. IsFiniteSet(S) /\ Cardinality(S) \in Nat
  BY <1>2, SubsetFinite
<1>4. QED
  BY <1>1, <1>3

(* A list that is not cut off holds every row. *)
LEMMA QueryAll ==
  ASSUME NEW S \in SUBSET (Nat \ {0}), IsFiniteSet(S), NEW n \in Nat \ {0}, Cardinality(S) <= n
  PROVE  Query(S, 0, n) = S
<1> DEFINE Below(i) == {j \in S : 0 < j /\ j < i}
<1>1. Query(S, 0, n) = {i \in S : i > 0 /\ Cardinality(Below(i)) < n}
  BY DEF Query
<1> HIDE DEF Below
<1>2. ASSUME NEW i \in S
      PROVE  i > 0 /\ Cardinality(Below(i)) < n
  <2>1. Below(i) \cup {i} \in SUBSET S /\ Below(i) \in SUBSET S /\ i \notin Below(i) /\ i > 0
    BY DEF Below
  <2>2. IsFiniteSet(Below(i)) /\ Cardinality(Below(i)) \in Nat
    BY <2>1, SubsetFinite
  <2>3. Cardinality(Below(i) \cup {i}) = Cardinality(Below(i)) + 1
    BY <2>1, <2>2, FS_AddElement
  <2>4. Cardinality(Below(i) \cup {i}) <= Cardinality(S) /\ Cardinality(S) \in Nat
    BY <2>1, SubsetFinite, FS_CardinalityType
  <2>5. QED
    BY <2>1, <2>2, <2>3, <2>4
<1>3. QED
  BY <1>1, <1>2

-----------------------------------------------------------------------------
LEMMA InitIInv == Init => IInv
<1> SUFFICES ASSUME Init PROVE IInv
  OBVIOUS
<1>1. TypeOK
  <2>1. products \in [ProductIds -> ProductRow]
    BY DEF Init, NewProduct, None, ProductRow
  <2>2. \A q \in DOMAIN SeedPlans : NewPlan(SeedPlans[q]) \in PlanRow
    BY IdsAssumption DEF NewPlan, PlanRow, ProductIds
  <2>3. plans \in [PlanIds -> {NoPlan} \cup PlanRow]
    BY <2>2 DEF Init
  <2>4. copy \in [Calls -> ProductRow] /\ req \in [Calls -> {NoRequest}]
    BY DEF Init, None, ProductRow
  <2>5. QED
    BY <2>1, <2>3, <2>4 DEF Init, TypeOK, NoRequest
<1>2. \A c \in Calls : pc[c] = "idle" /\ met[c] = {} /\ req[c] = NoRequest
  BY DEF Init
<1>3. \A c \in Calls : ~products[c].exists /\ ~plans[c].exists
  BY IdsAssumption DEF Init, ProductIds, PlanIds, None, NoPlan
<1>4. \A c \in Calls : CallInv(c)
  BY <1>2, <1>3 DEF CallInv, NoRequest, WriteOps
<1>5. \A c \in Calls : EditInv(c) /\ OpenInv(c) /\ SealInv(c) /\ InsertInv(c)
  BY <1>2 DEF EditInv, OpenInv, SealInv, InsertInv, Holds, Holding
<1>6. BusyInv /\ EditsSurvive /\ ReopenedOnlyByOverlap
  BY <1>2 DEF BusyInv, Stopped, EditsSurvive, ReopenedOnlyByOverlap, Did
<1>7. ArchivedIsSealed
  BY DEF Init, ArchivedIsSealed, NewProduct, None
<1>8. TableInv
  <2>1. {q \in PlanIds : plans[q].exists} \subseteq DOMAIN SeedPlans
    BY DEF Init, NoPlan
  <2>2. QED
    BY <2>1, TableAssumption, FS_Subset DEF TableInv
<1>9. QED
  BY <1>1, <1>4, <1>5, <1>6, <1>7, <1>8 DEF IInv

-----------------------------------------------------------------------------
(* What a step leaves alone *)

(* A call moves: what was done stays done, who overlapped stays so. *)
LEMMA Frame ==
  ASSUME IInv, NEW c \in Calls, pc[c] \notin Ended,
         \A d \in Calls \ {c} : pc'[d] = pc[d] /\ req'[d] = req[d] /\ met'[d] = met[d],
         met[c] \subseteq met'[c],
         pc'[c] \in Stopped \/ pc[c] \notin Stopped \/ met'[c] = Busy
  PROVE  /\ \A a, b \in Calls : Overlapped(a, b) => Overlapped(a, b)'
         /\ \A a \in Calls : \A op, p : Did(a, op, p) => Did(a, op, p)'
         /\ \A a \in Calls \ {c} : \A op, p : Did(a, op, p)' => Did(a, op, p)
         /\ \A p : Writers(p) \subseteq Writers(p)'
         /\ \A u \in Calls : \A p : Overwritten(u, p) => Overwritten(u, p)'
         /\ \A a \in Calls : \A p : Undone(a, p) => Undone(a, p)'
         /\ \A q, p : Slipped(q, p) => Slipped(q, p)'
         /\ BusyInv'
<1>1. \A a \in Calls : met[a] \subseteq met'[a]
  OBVIOUS
<1>2. \A a, b \in Calls : Overlapped(a, b) => Overlapped(a, b)'
  BY <1>1 DEF Overlapped
<1>3. \A a \in Calls : \A op, p : Did(a, op, p) => Did(a, op, p)'
  BY DEF Did, Ended
<1>4. \A a \in Calls \ {c} : \A op, p : Did(a, op, p)' => Did(a, op, p)
  BY DEF Did
<1>5. \A p : Writers(p) \subseteq Writers(p)'
  BY <1>3 DEF Writers
<1>6. \A u \in Calls : \A p : Overwritten(u, p) => Overwritten(u, p)'
  BY <1>2, <1>5 DEF Overwritten, Writers
<1>7. \A a \in Calls : \A p : Undone(a, p) => Undone(a, p)'
  BY <1>2, <1>3 DEF Undone
<1>8. \A q, p : Slipped(q, p) => Slipped(q, p)'
  BY <1>2, <1>5 DEF Slipped, Writers
<1>9. BusyInv'
  <2> SUFFICES ASSUME NEW a \in Calls, NEW b \in Calls, a # b, pc'[a] \notin Stopped, pc'[b] \notin Stopped
               PROVE  Overlapped(a, b)'
    BY DEF BusyInv, Stopped
  <2>1. CASE pc[a] \notin Stopped /\ pc[b] \notin Stopped
    BY <1>2, <2>1 DEF IInv, BusyInv
  <2>2. CASE ~(pc[a] \notin Stopped /\ pc[b] \notin Stopped)
    <3>1. \/ a = c /\ pc[b] \notin Stopped /\ met'[a] = Busy
          \/ b = c /\ pc[a] \notin Stopped /\ met'[b] = Busy
      BY <2>2
    <3>2. QED
      BY <3>1 DEF Overlapped, Busy, Stopped
  <2>3. QED
    BY <2>1, <2>2
<1>10. QED
  BY <1>2, <1>3, <1>4, <1>5, <1>6, <1>7, <1>8, <1>9

(* More plans: a full product stays full. *)
LEMMA FullStays ==
  ASSUME TableInv, TableInv', NEW p, Full(p), PlansOf(p) \subseteq PlansOf(p)', ListLimit \in Nat
  PROVE  Full(p)'
<1>1. IsFiniteSet(PlansOf(p)') /\ Cardinality(PlansOf(p)') \in Nat
  <2> DEFINE T == {q \in PlanIds : plans'[q].exists}
  <2>1. PlansOf(p)' \in SUBSET T
    BY DEF PlansOf
  <2>2. IsFiniteSet(T)
    BY DEF TableInv
  <2> HIDE DEF T
  <2>3. QED
    BY <2>1, <2>2, SubsetFinite
<1>2. Cardinality(PlansOf(p)) \in Nat /\ Cardinality(PlansOf(p)) <= Cardinality(PlansOf(p)')
  BY <1>1, SubsetFinite
<1>3. QED
  BY <1>1, <1>2 DEF Full

(* A call moves, may make a product and may close plans. *)
LEMMA LooseStep ==
  ASSUME IInv, TypeOK', NEW c \in Calls, pc[c] \notin Ended,
         \A d \in Calls \ {c} : /\ pc'[d] = pc[d] /\ req'[d] = req[d] /\ met'[d] = met[d]
                               /\ copy'[d] = copy[d] /\ listed'[d] = listed[d],
         met[c] \subseteq met'[c],
         pc'[c] \in Stopped \/ pc[c] \notin Stopped \/ met'[c] = Busy,
         pc'[c] = "done" => req'[c].op \notin WriteOps,
         \A p \in ProductIds :
           products'[p] = products[p] \/ (p = c /\ pc[c] = "idle" /\ products'[p] = NewProduct),
         \A q \in PlanIds : /\ plans'[q].exists <=> plans[q].exists
                            /\ plans'[q].product = plans[q].product
                            /\ plans'[q].active => plans[q].active,
         CallInv(c)', EditInv(c)', OpenInv(c)', SealInv(c)', InsertInv(c)'
  PROVE  IInv'
<1> USE DEF IInv
<1>1. /\ \A a, b \in Calls : Overlapped(a, b) => Overlapped(a, b)'
      /\ \A a \in Calls \ {c} : \A op, p : Did(a, op, p)' => Did(a, op, p)
      /\ \A u \in Calls : \A p : Overwritten(u, p) => Overwritten(u, p)'
      /\ \A a \in Calls : \A p : Undone(a, p) => Undone(a, p)'
      /\ \A q, p : Slipped(q, p) => Slipped(q, p)'
      /\ BusyInv'
  BY Frame
<1>2. \A p : ~Did(c, "update", p)' /\ ~Did(c, "archive", p)'
  BY DEF Did, WriteOps
<1>3. \A p : PlansOf(p)' = PlansOf(p) /\ (Full(p)' <=> Full(p))
  BY DEF PlansOf, Full
<1>4. TableInv'
  <2>1. {q \in PlanIds : plans'[q].exists} = {q \in PlanIds : plans[q].exists}
    OBVIOUS
  <2>2. QED
    BY <2>1 DEF TableInv
<1>5. \A p \in ProductIds :
        \/ products'[p] = products[p]
        \/ ~products[p].exists /\ products'[p].active /\ products'[p].exists
  BY DEF CallInv, NewProduct
<1>6. \A u \in Calls : \A p : (Did(u, "update", p) \/ Did(u, "archive", p)) => p \in ProductIds /\ products[p].exists
  BY DEF Did, CallInv, WriteOps
<1>7. ASSUME NEW d \in Calls, d # c
      PROVE  CallInv(d)'
  <2>1. ~products[d].exists => ~products'[d].exists
    BY <1>7 DEF ProductIds
  <2>2. \A x \in ProductIds : products[x].exists => products'[x].exists
    BY <1>5
  <2>3. d \in PlanIds
    BY DEF PlanIds
  <2>4. CallInv(d)
    OBVIOUS
  <2>5. QED
    BY <1>7, <2>1, <2>2, <2>3, <2>4 DEF CallInv
<1>8. ASSUME NEW d \in Calls, d # c
      PROVE  EditInv(d)' /\ OpenInv(d)'
  <2>1. EditInv(d)'
    BY <1>1, <1>2, <1>8 DEF EditInv, Holds
  <2>2. OpenInv(d)'
    BY <1>1, <1>2, <1>8 DEF OpenInv, Holds
  <2>3. QED
    BY <2>1, <2>2
<1>9. ASSUME NEW d \in Calls, d # c
      PROVE  SealInv(d)'
  <2> SUFFICES ASSUME NEW p \in ProductIds, NEW q \in PlansOf(p),
                      Holds(d, p)', ~copy[d].active, plans'[q].active
               PROVE  \/ Slipped(q, p)' \/ Full(p)'
                      \/ q \in Calls /\ Overlapped(d, q)'
                      \/ pc[d] = "archive_read"
                      \/ pc[d] = "archive_listed" /\ q \in listed[d]
    BY <1>3, <1>9 DEF SealInv
  <2>1. Holds(d, p) /\ plans[q].active
    BY <1>9 DEF Holds, PlansOf
  <2>2. SealInv(d)
    OBVIOUS
  <2>3. QED
    BY <1>1, <1>3, <2>1, <2>2 DEF SealInv
<1>10. ASSUME NEW d \in Calls, d # c
       PROVE  InsertInv(d)'
  <2>1. InsertInv(d)
    OBVIOUS
  <2>2. QED
    BY <1>1, <1>5, <1>10, <2>1 DEF InsertInv
<1>11. EditsSurvive'
  <2> SUFFICES ASSUME NEW u \in Calls, NEW p \in ProductIds, Did(u, "update", p)', u \notin products'[p].edits
               PROVE  Overwritten(u, p)'
    BY DEF EditsSurvive, Overwritten
  <2>1. Did(u, "update", p)
    BY <1>1, <1>2
  <2>2. products'[p] = products[p]
    BY <1>5, <1>6, <2>1
  <2>3. Overwritten(u, p)
    BY <2>1, <2>2 DEF EditsSurvive, Overwritten
  <2>4. QED
    BY <1>1, <2>3
<1>12. ReopenedOnlyByOverlap'
  <2> SUFFICES ASSUME NEW a \in Calls, NEW p \in ProductIds, Did(a, "archive", p)', products'[p].active
               PROVE  Undone(a, p)'
    BY DEF ReopenedOnlyByOverlap, Undone
  <2>1. Did(a, "archive", p)
    BY <1>1, <1>2
  <2>2. products'[p] = products[p]
    BY <1>5, <1>6, <2>1
  <2>3. Undone(a, p)
    BY <2>1, <2>2 DEF ReopenedOnlyByOverlap, Undone
  <2>4. QED
    BY <1>1, <2>3
<1>13. ArchivedIsSealed'
  <2> SUFFICES ASSUME NEW p \in ProductIds, products'[p].exists, ~products'[p].active,
                      NEW q \in PlansOf(p), plans'[q].active
               PROVE  Slipped(q, p)' \/ Full(p)'
    BY <1>3 DEF ArchivedIsSealed, Slipped, Full
  <2>1. products'[p] = products[p] /\ plans[q].active
    BY <1>5 DEF PlansOf
  <2>2. Slipped(q, p) \/ Full(p)
    BY <2>1 DEF ArchivedIsSealed, Slipped, Full
  <2>3. QED
    BY <1>1, <1>3, <2>2
<1>14. QED
  BY <1>1, <1>4, <1>7, <1>8, <1>9, <1>10, <1>11, <1>12, <1>13
(* A write of a product, with the plans it closes *)
LEMMA ProductStep ==
  ASSUME IInv, TypeOK', NEW c \in Calls, NEW p \in ProductIds, req[c].id = p,
         pc[c] \in {"product_read", "archive_listed"}, pc' = [pc EXCEPT ![c] = "done"],
         products' = [products EXCEPT ![p] = copy[c]],
         UNCHANGED <<req, copy, listed, met>>,
         \A q \in PlanIds : /\ plans'[q].exists <=> plans[q].exists
                            /\ plans'[q].product = plans[q].product
                            /\ plans'[q].active => plans[q].active,
         pc[c] = "archive_listed" => \A q \in listed[c] : ~plans'[q].active
  PROVE  IInv'
<1> USE DEF IInv
<1>1. pc'[c] = "done" /\ \A d \in Calls \ {c} : pc'[d] = pc[d]
  BY DEF TypeOK
<1>2. /\ products'[p] = copy[c] /\ products[p].exists /\ copy[c].exists
      /\ \A x \in ProductIds \ {p} : products'[x] = products[x]
  BY DEF TypeOK, CallInv, WriteOps
<1>3. /\ \A a, b \in Calls : Overlapped(a, b) => Overlapped(a, b)'
      /\ \A a \in Calls \ {c} : \A op, x : Did(a, op, x)' => Did(a, op, x)
      /\ \A x : Writers(x) \subseteq Writers(x)'
      /\ \A u \in Calls : \A x : Overwritten(u, x) => Overwritten(u, x)'
      /\ \A a \in Calls : \A x : Undone(a, x) => Undone(a, x)'
      /\ \A q, x : Slipped(q, x) => Slipped(q, x)'
      /\ BusyInv'
  BY <1>1, Frame DEF Stopped, Ended
<1>4. /\ pc[c] = "product_read" => req[c].op = "update" /\ c \in copy[c].edits
      /\ pc[c] = "archive_listed" => req[c].op = "archive" /\ ~copy[c].active
  BY DEF CallInv
<1>5. req[c] = [op |-> req[c].op, id |-> p]
  BY DEF TypeOK
<1>6. Did(c, req[c].op, p)' /\ \A op, x : Did(c, op, x)' => op = req[c].op /\ x = p
  BY <1>1, <1>5 DEF Did
<1>7. c \in Writers(p)'
  BY <1>4, <1>6 DEF Writers
<1>8. \A d \in Calls : d # c /\ pc[d] \notin Stopped => Overlapped(c, d)' /\ Overlapped(d, c)'
  BY <1>3 DEF BusyInv, Stopped, Ended
<1>9. \A x : PlansOf(x)' = PlansOf(x) /\ (Full(x)' <=> Full(x))
  BY DEF PlansOf, Full
<1>10. TableInv'
  <2>1. {q \in PlanIds : plans'[q].exists} = {q \in PlanIds : plans[q].exists}
    OBVIOUS
  <2>2. QED
    BY <2>1 DEF TableInv
<1>11. ASSUME NEW d \in Calls
       PROVE  CallInv(d)'
  <2>1. d \in PlanIds /\ d \in ProductIds
    BY DEF PlanIds, ProductIds
  <2>2. \A x \in ProductIds : products[x].exists <=> products'[x].exists
    BY <1>2
  <2>3. CallInv(d)
    OBVIOUS
  <2>4. QED
    BY <1>1, <2>1, <2>2, <2>3 DEF CallInv
<1>12. ASSUME NEW d \in Calls
       PROVE  EditInv(d)'
  <2> SUFFICES ASSUME NEW u \in Calls, NEW x \in ProductIds, Holds(d, x)', Did(u, "update", x)'
               PROVE  u \in copy[d].edits \/ Overlapped(d, u)' \/ Overwritten(u, x)'
    BY DEF EditInv
  <2>1. d # c /\ Holds(d, x) /\ pc[d] \notin Stopped
    BY <1>1 DEF Holds, Holding, Stopped, Ended
  <2>2. CASE u = c
    BY <1>8, <2>1, <2>2
  <2>3. CASE u # c
    BY <1>3, <2>1, <2>3 DEF EditInv
  <2>4. QED
    BY <2>2, <2>3
<1>13. ASSUME NEW d \in Calls
       PROVE  OpenInv(d)'
  <2> SUFFICES ASSUME NEW a \in Calls, NEW x \in ProductIds, Holds(d, x)', copy[d].active, Did(a, "archive", x)'
               PROVE  Overlapped(d, a)' \/ Undone(a, x)'
    BY DEF OpenInv
  <2>1. d # c /\ Holds(d, x) /\ pc[d] \notin Stopped
    BY <1>1 DEF Holds, Holding, Stopped, Ended
  <2>2. CASE a = c
    BY <1>8, <2>1, <2>2
  <2>3. CASE a # c
    BY <1>3, <2>1, <2>3 DEF OpenInv
  <2>4. QED
    BY <2>2, <2>3
<1>14. ASSUME NEW d \in Calls
       PROVE  SealInv(d)'
  <2> SUFFICES ASSUME NEW x \in ProductIds, NEW q \in PlansOf(x),
                      Holds(d, x)', ~copy[d].active, plans'[q].active
               PROVE  \/ Slipped(q, x)' \/ Full(x)'
                      \/ q \in Calls /\ Overlapped(d, q)'
                      \/ pc'[d] = "archive_read"
                      \/ pc'[d] = "archive_listed" /\ q \in listed[d]
    BY <1>9 DEF SealInv
  <2>1. d # c /\ Holds(d, x) /\ plans[q].active
    BY <1>1 DEF Holds, Holding, PlansOf
  <2>2. SealInv(d)
    OBVIOUS
  <2>3. QED
    BY <1>1, <1>3, <1>9, <2>1, <2>2 DEF SealInv
<1>15. ASSUME NEW d \in Calls
       PROVE  InsertInv(d)'
  <2> SUFFICES ASSUME NEW x \in ProductIds, pc'[d] = "plan_checked", req[d].id = x, ~products'[x].active
               PROVE  Slipped(d, x)'
    BY DEF InsertInv
  <2>1. d # c /\ pc[d] = "plan_checked" /\ pc[d] \notin Stopped
    BY <1>1 DEF Stopped, Ended
  <2>2. CASE x = p
    BY <1>7, <1>8, <2>1, <2>2 DEF Slipped
  <2>3. CASE x # p
    BY <1>2, <1>3, <2>1, <2>3 DEF InsertInv
  <2>4. QED
    BY <2>2, <2>3
<1>16. EditsSurvive'
  <2> SUFFICES ASSUME NEW u \in Calls, NEW x \in ProductIds, Did(u, "update", x)', u \notin products'[x].edits
               PROVE  Overwritten(u, x)'
    BY DEF EditsSurvive, Overwritten
  <2>1. CASE x # p
    <3>1. Did(u, "update", x) /\ u \notin products[x].edits
      BY <1>2, <1>3, <1>6, <2>1
    <3>2. Overwritten(u, x)
      BY <3>1 DEF EditsSurvive, Overwritten
    <3>3. QED
      BY <1>3, <3>2
  <2>2. CASE x = p
    <3>1. u # c
      BY <1>2, <1>4, <1>6, <2>2
    <3>2. Did(u, "update", p) /\ u \notin copy[c].edits
      BY <1>2, <1>3, <2>2, <3>1
    <3>3. Holds(c, p)
      BY DEF Holds, Holding
    <3>4. Overlapped(c, u) \/ Overwritten(u, p)
      BY <3>2, <3>3 DEF EditInv
    <3>5. CASE Overlapped(c, u)
      BY <1>3, <1>7, <2>2, <3>1, <3>5 DEF Overwritten
    <3>6. QED
      BY <1>3, <2>2, <3>4, <3>5
  <2>3. QED
    BY <2>1, <2>2
<1>17. ReopenedOnlyByOverlap'
  <2> SUFFICES ASSUME NEW a \in Calls, NEW x \in ProductIds, Did(a, "archive", x)', products'[x].active
               PROVE  Undone(a, x)'
    BY DEF ReopenedOnlyByOverlap, Undone
  <2>1. CASE x # p
    <3>1. Did(a, "archive", x) /\ products[x].active
      BY <1>2, <1>3, <1>6, <2>1
    <3>2. Undone(a, x)
      BY <3>1 DEF ReopenedOnlyByOverlap, Undone
    <3>3. QED
      BY <1>3, <3>2
  <2>2. CASE x = p
    <3>1. copy[c].active /\ req[c].op = "update"
      BY <1>2, <1>4, <2>2
    <3>2. a # c
      BY <1>6, <3>1
    <3>3. Did(a, "archive", p)
      BY <1>3, <2>2, <3>2
    <3>4. Holds(c, p)
      BY DEF Holds, Holding
    <3>5. Overlapped(c, a) \/ Undone(a, p)
      BY <3>1, <3>3, <3>4 DEF OpenInv
    <3>6. CASE Overlapped(c, a)
      BY <1>3, <1>6, <2>2, <3>1, <3>6 DEF Undone
    <3>7. QED
      BY <1>3, <2>2, <3>5, <3>6
  <2>3. QED
    BY <2>1, <2>2
<1>18. ArchivedIsSealed'
  <2> SUFFICES ASSUME NEW x \in ProductIds, products'[x].exists, ~products'[x].active,
                      NEW q \in PlansOf(x), plans'[q].active
               PROVE  Slipped(q, x)' \/ Full(x)'
    BY <1>9 DEF ArchivedIsSealed, Slipped, Full
  <2>1. plans[q].active
    BY DEF PlansOf
  <2>2. CASE x # p
    <3>1. Slipped(q, x) \/ Full(x)
      BY <1>2, <2>1, <2>2 DEF ArchivedIsSealed, Slipped, Full
    <3>2. QED
      BY <1>3, <1>9, <3>1
  <2>3. CASE x = p
    <3>1. ~copy[c].active /\ Holds(c, p) /\ pc[c] # "archive_read"
      BY <1>2, <2>3 DEF Holds, Holding
    <3>2. SealInv(c)
      OBVIOUS
    <3>3. Slipped(q, p) \/ Full(p) \/ (q \in Calls /\ Overlapped(c, q))
      BY <2>1, <2>3, <3>1, <3>2 DEF SealInv
    <3>4. CASE q \in Calls /\ Overlapped(c, q)
      BY <1>3, <1>7, <2>3, <3>4 DEF Slipped
    <3>5. QED
      BY <1>3, <1>9, <2>3, <3>3, <3>4
  <2>4. QED
    BY <2>2, <2>3
<1>19. QED
  BY <1>3, <1>10, <1>11, <1>12, <1>13, <1>14, <1>15, <1>16, <1>17, <1>18

(* A plan is inserted. *)
LEMMA PlanInsertStep ==
  ASSUME IInv, TypeOK', NEW c \in Calls, PlanInsert(c)
  PROVE  IInv'
<1> USE DEF IInv
<1>1. PICK p : p = req[c].id
  OBVIOUS
<1>2. p \in ProductIds /\ ~plans[c].exists /\ c \in PlanIds /\ pc[c] = "plan_checked" /\ req[c].op = "create_plan"
  BY <1>1 DEF PlanInsert, CallInv, PlanIds
<1>3. UNCHANGED <<products, req, copy, listed, met>>
  BY DEF PlanInsert
<1>4. pc'[c] = "done" /\ \A d \in Calls \ {c} : pc'[d] = pc[d]
  BY DEF PlanInsert, Goto, TypeOK
<1>5. plans'[c] = NewPlan(p) /\ \A q \in PlanIds \ {c} : plans'[q] = plans[q]
  BY <1>1, <1>2 DEF PlanInsert, TypeOK
<1>6. /\ \A a, b \in Calls : Overlapped(a, b) => Overlapped(a, b)'
      /\ \A a \in Calls \ {c} : \A op, x : Did(a, op, x)' => Did(a, op, x)
      /\ \A u \in Calls : \A x : Overwritten(u, x) => Overwritten(u, x)'
      /\ \A a \in Calls : \A x : Undone(a, x) => Undone(a, x)'
      /\ \A q, x : Slipped(q, x) => Slipped(q, x)'
      /\ BusyInv'
  BY <1>2, <1>3, <1>4, Frame DEF Stopped, Ended
<1>7. \A x : ~Did(c, "update", x)' /\ ~Did(c, "archive", x)'
  BY <1>2, <1>3 DEF Did
<1>8. \A x : /\ PlansOf(x) \subseteq PlansOf(x)'
             /\ \A q \in PlansOf(x)' : (q = c /\ x = p) \/ (q # c /\ q \in PlansOf(x) /\ plans'[q] = plans[q])
  BY <1>2, <1>5 DEF PlansOf, NewPlan
<1>9. TableInv'
  <2> DEFINE T == {q \in PlanIds : plans[q].exists}
             U == {q \in PlanIds : plans'[q].exists}
  <2>1. U = T \cup {c}
    BY <1>2, <1>5 DEF NewPlan
  <2>2. IsFiniteSet(T)
    BY DEF TableInv
  <2> HIDE DEF T
  <2>3. IsFiniteSet(T \cup {c})
    BY <2>2, FS_AddElement
  <2>4. QED
    BY <2>1, <2>3 DEF TableInv
<1>10. \A x : Full(x) => Full(x)'
  BY <1>8, <1>9, FullStays, LimitsAssumption
<1>11. \A d \in Calls : d # c /\ pc[d] \notin Stopped => Overlapped(c, d)' /\ Overlapped(d, c)'
  BY <1>2, <1>6 DEF BusyInv, Stopped, Ended
<1>12. ASSUME NEW d \in Calls
       PROVE  CallInv(d)'
  <2>1. d \in PlanIds
    BY DEF PlanIds
  <2>2. d # c => plans'[d] = plans[d]
    BY <1>5, <2>1
  <2>3. \A q \in PlanIds : plans[q].exists => plans'[q].exists
    BY <1>5 DEF NewPlan
  <2>4. CallInv(d)
    OBVIOUS
  <2>5. QED
    BY <1>2, <1>3, <1>4, <2>2, <2>3, <2>4 DEF CallInv
<1>13. ASSUME NEW d \in Calls
       PROVE  EditInv(d)' /\ OpenInv(d)' /\ InsertInv(d)'
  <2>1. Holding \cap {"done"} = {}
    BY DEF Holding
  <2>2. EditInv(d)'
    BY <1>3, <1>4, <1>6, <1>7, <2>1 DEF EditInv, Holds
  <2>3. OpenInv(d)'
    BY <1>3, <1>4, <1>6, <1>7, <2>1 DEF OpenInv, Holds
  <2>4. InsertInv(d)
    OBVIOUS
  <2>5. InsertInv(d)'
    BY <1>3, <1>4, <1>6, <2>4 DEF InsertInv
  <2>6. QED
    BY <2>2, <2>3, <2>5
<1>14. ASSUME NEW d \in Calls
       PROVE  SealInv(d)'
  <2> SUFFICES ASSUME NEW x \in ProductIds, NEW q \in PlansOf(x)',
                      Holds(d, x)', ~copy'[d].active, plans'[q].active
               PROVE  \/ Slipped(q, x)' \/ Full(x)'
                      \/ q \in Calls /\ Overlapped(d, q)'
                      \/ pc'[d] = "archive_read"
                      \/ pc'[d] = "archive_listed" /\ q \in listed'[d]
    BY DEF SealInv
  <2>1. d # c /\ pc'[d] = pc[d] /\ Holds(d, x) /\ pc[d] \notin Stopped
    BY <1>3, <1>4 DEF Holds, Holding, Stopped, Ended
  <2>2. CASE q = c
    BY <1>11, <2>1, <2>2
  <2>3. CASE q # c
    <3>1. q \in PlansOf(x) /\ plans[q].active
      BY <1>8, <2>3
    <3>2. SealInv(d)
      OBVIOUS
    <3>3. QED
      BY <1>3, <1>6, <1>10, <2>1, <3>1, <3>2 DEF SealInv
  <2>4. QED
    BY <2>2, <2>3
<1>15. EditsSurvive' /\ ReopenedOnlyByOverlap'
  <2>1. EditsSurvive'
    <3> SUFFICES ASSUME NEW u \in Calls, NEW x \in ProductIds, Did(u, "update", x)', u \notin products[x].edits
                 PROVE  Overwritten(u, x)'
      BY <1>3 DEF EditsSurvive, Overwritten
    <3>1. Overwritten(u, x)
      BY <1>6, <1>7 DEF EditsSurvive, Overwritten
    <3>2. QED
      BY <1>6, <3>1
  <2>2. ReopenedOnlyByOverlap'
    <3> SUFFICES ASSUME NEW a \in Calls, NEW x \in ProductIds, Did(a, "archive", x)', products[x].active
                 PROVE  Undone(a, x)'
      BY <1>3 DEF ReopenedOnlyByOverlap, Undone
    <3>1. Undone(a, x)
      BY <1>6, <1>7 DEF ReopenedOnlyByOverlap, Undone
    <3>2. QED
      BY <1>6, <3>1
  <2>3. QED
    BY <2>1, <2>2
<1>16. ArchivedIsSealed'
  <2> SUFFICES ASSUME NEW x \in ProductIds, products[x].exists, ~products[x].active,
                      NEW q \in PlansOf(x)', plans'[q].active
               PROVE  Slipped(q, x)' \/ Full(x)'
    BY <1>3 DEF ArchivedIsSealed, Slipped, Full
  <2>1. CASE q = c
    <3>1. x = p
      BY <1>8, <2>1
    <3>2. InsertInv(c)
      OBVIOUS
    <3>3. Slipped(q, x)
      BY <1>1, <1>2, <2>1, <3>1, <3>2 DEF InsertInv
    <3>4. QED
      BY <1>6, <3>3
  <2>2. CASE q # c
    <3>1. q \in PlansOf(x) /\ plans[q].active
      BY <1>8, <2>2
    <3>2. Slipped(q, x) \/ Full(x)
      BY <3>1 DEF ArchivedIsSealed, Slipped, Full
    <3>3. QED
      BY <1>6, <1>10, <3>2
  <2>3. QED
    BY <2>1, <2>2
<1>17. QED
  BY <1>6, <1>9, <1>12, <1>13, <1>14, <1>15, <1>16
-----------------------------------------------------------------------------
(* The steps of a call *)

LEMMA Quiet ==
  ASSUME NEW c \in Calls, pc'[c] \notin Holding \cup {"plan_checked"}
  PROVE  EditInv(c)' /\ OpenInv(c)' /\ SealInv(c)' /\ InsertInv(c)'
BY DEF EditInv, OpenInv, SealInv, InsertInv, Holds

LEMMA BeginFacts ==
  ASSUME IInv, NEW c \in Calls, NEW op, NEW id, NEW l, Begin(c, op, id, l)
  PROVE  /\ pc[c] = "idle" /\ pc'[c] = l /\ req'[c] = [op |-> op, id |-> id] /\ met'[c] = Busy
         /\ \A d \in Calls \ {c} : pc'[d] = pc[d] /\ req'[d] = req[d] /\ met'[d] = met[d]
         /\ met[c] \subseteq met'[c] /\ ~plans[c].exists
         /\ met' \in [Calls -> SUBSET Calls]
<1>1. CallInv(c) /\ TypeOK
  BY DEF IInv
<1>2. Busy \in SUBSET Calls
  BY DEF Busy
<1>3. QED
  BY <1>1, <1>2 DEF Begin, Goto, TypeOK, CallInv

LEMMA GotoFacts ==
  ASSUME IInv, NEW c \in Calls, NEW l, Goto(c, l), UNCHANGED <<req, met>>
  PROVE  /\ pc'[c] = l /\ req'[c] = req[c]
         /\ \A d \in Calls \ {c} : pc'[d] = pc[d] /\ req'[d] = req[d] /\ met'[d] = met[d]
         /\ met[c] \subseteq met'[c]
BY DEF IInv, TypeOK, Goto

LEMMA CreateProductStep == ASSUME IInv, NEW c \in Calls, CreateProduct(c) PROVE IInv'
<1> USE DEF IInv
<1>1. /\ pc[c] = "idle" /\ pc'[c] = "done" /\ req'[c] = [op |-> "create_product", id |-> c] /\ met'[c] = Busy
      /\ \A d \in Calls \ {c} : pc'[d] = pc[d] /\ req'[d] = req[d] /\ met'[d] = met[d]
      /\ met[c] \subseteq met'[c] /\ ~plans[c].exists
      /\ met' \in [Calls -> SUBSET Calls]
  BY BeginFacts DEF CreateProduct
<1>2. UNCHANGED <<plans, copy, listed>> /\ c \in ProductIds
  BY DEF CreateProduct, ProductIds
<1>3. TypeOK'
  <2>1. products' \in [ProductIds -> ProductRow]
    BY <1>2 DEF TypeOK, CreateProduct, ProductRow, NewProduct
  <2>2. QED
    BY <1>1, <1>2, <2>1 DEF TypeOK, CreateProduct, Begin, Goto
<1>4. \A x \in ProductIds :
        products'[x] = products[x] \/ (x = c /\ pc[c] = "idle" /\ products'[x] = NewProduct)
  BY <1>1, <1>2 DEF CreateProduct, TypeOK
<1>5. CallInv(c)'
  BY <1>1 DEF CallInv, WriteOps
<1>6. EditInv(c)' /\ OpenInv(c)' /\ SealInv(c)' /\ InsertInv(c)'
  BY <1>1, Quiet DEF Holding
<1>7. QED
  BY <1>1, <1>2, <1>3, <1>4, <1>5, <1>6, LooseStep DEF Ended, WriteOps

(* The copy of an update is the row it read, with its own columns. *)
LEMMA UpdateReadStep ==
  ASSUME IInv, NEW c \in Calls, NEW p \in ProductIds, UpdateRead(c, p) PROVE IInv'
<1> USE DEF IInv
<1>1. /\ pc[c] = "idle" /\ pc'[c] = "product_read" /\ req'[c] = [op |-> "update", id |-> p] /\ met'[c] = Busy
      /\ \A d \in Calls \ {c} : pc'[d] = pc[d] /\ req'[d] = req[d] /\ met'[d] = met[d]
      /\ met[c] \subseteq met'[c] /\ ~plans[c].exists
      /\ met' \in [Calls -> SUBSET Calls]
  BY BeginFacts DEF UpdateRead
<1>2. UNCHANGED <<products, plans, listed>> /\ products[p].exists
  BY DEF UpdateRead
<1>3. products[p] \in ProductRow
  BY DEF TypeOK
<1>4. /\ copy'[c].active = products[p].active /\ copy'[c].exists
      /\ copy'[c].edits = products[p].edits \cup {c}
  BY <1>2, <1>3 DEF UpdateRead, TypeOK, ProductRow
<1>5. \A d \in Calls \ {c} : copy'[d] = copy[d]
  BY DEF UpdateRead, TypeOK
<1>6. TypeOK'
  <2>1. [products[p] EXCEPT !.edits = @ \cup {c}] \in ProductRow
    BY <1>3 DEF ProductRow
  <2>2. copy' \in [Calls -> ProductRow]
    BY <2>1 DEF UpdateRead, TypeOK
  <2>3. QED
    BY <1>1, <1>2, <2>2 DEF TypeOK, UpdateRead, Begin, Goto
<1>7. CallInv(c)'
  BY <1>1, <1>2, <1>4 DEF CallInv, WriteOps
<1>8. /\ \A a \in Calls \ {c} : \A op, x : Did(a, op, x)' => Did(a, op, x)
      /\ \A u \in Calls : \A x : Overwritten(u, x) => Overwritten(u, x)'
      /\ \A a \in Calls : \A x : Undone(a, x) => Undone(a, x)'
      /\ \A q, x : Slipped(q, x) => Slipped(q, x)'
  BY <1>1, Frame DEF Ended
<1>9. \A op, x : ~Did(c, op, x)'
  BY <1>1 DEF Did
<1>10. \A x : Holds(c, x)' => x = p
  BY <1>1 DEF Holds
<1>11. EditInv(c)'
  BY <1>4, <1>8, <1>9, <1>10 DEF EditInv, EditsSurvive, Overwritten
<1>12. OpenInv(c)'
  <2> SUFFICES ASSUME NEW a \in Calls, copy'[c].active, Did(a, "archive", p)'
               PROVE  Undone(a, p)'
    BY <1>10 DEF OpenInv
  <2>1. Undone(a, p)
    BY <1>4, <1>8, <1>9 DEF ReopenedOnlyByOverlap, Undone
  <2>2. QED
    BY <1>8, <2>1
<1>13. SealInv(c)'
  <2> SUFFICES ASSUME NEW q \in PlansOf(p)', ~copy'[c].active, plans'[q].active
               PROVE  Slipped(q, p)' \/ Full(p)'
    BY <1>10 DEF SealInv
  <2>1. q \in PlansOf(p) /\ plans[q].active /\ (Full(p)' <=> Full(p))
    BY <1>2 DEF PlansOf, Full
  <2>2. Slipped(q, p) \/ Full(p)
    BY <1>2, <1>4, <2>1 DEF ArchivedIsSealed, Slipped, Full
  <2>3. QED
    BY <1>8, <2>1, <2>2
<1>14. InsertInv(c)'
  BY <1>1 DEF InsertInv
<1>15. QED
  BY <1>1, <1>2, <1>5, <1>6, <1>7, <1>11, <1>12, <1>13, <1>14, LooseStep DEF Ended

LEMMA ArchiveReadStep ==
  ASSUME IInv, NEW c \in Calls, NEW p \in ProductIds, ArchiveRead(c, p) PROVE IInv'
<1> USE DEF IInv
<1>1. /\ pc[c] = "idle" /\ pc'[c] = "archive_read" /\ req'[c] = [op |-> "archive", id |-> p] /\ met'[c] = Busy
      /\ \A d \in Calls \ {c} : pc'[d] = pc[d] /\ req'[d] = req[d] /\ met'[d] = met[d]
      /\ met[c] \subseteq met'[c] /\ ~plans[c].exists
      /\ met' \in [Calls -> SUBSET Calls]
  BY BeginFacts DEF ArchiveRead
<1>2. UNCHANGED <<products, plans, listed>> /\ products[p].exists
  BY DEF ArchiveRead
<1>3. products[p] \in ProductRow
  BY DEF TypeOK
<1>4. ~copy'[c].active /\ copy'[c].exists /\ copy'[c].edits = products[p].edits
  BY <1>2, <1>3 DEF ArchiveRead, TypeOK, ProductRow
<1>5. \A d \in Calls \ {c} : copy'[d] = copy[d]
  BY DEF ArchiveRead, TypeOK
<1>6. TypeOK'
  <2>1. [products[p] EXCEPT !.active = FALSE] \in ProductRow
    BY <1>3 DEF ProductRow
  <2>2. copy' \in [Calls -> ProductRow]
    BY <2>1 DEF ArchiveRead, TypeOK
  <2>3. QED
    BY <1>1, <1>2, <2>2 DEF TypeOK, ArchiveRead, Begin, Goto
<1>7. CallInv(c)'
  BY <1>1, <1>2, <1>4 DEF CallInv, WriteOps
<1>8. /\ \A a \in Calls \ {c} : \A op, x : Did(a, op, x)' => Did(a, op, x)
      /\ \A u \in Calls : \A x : Overwritten(u, x) => Overwritten(u, x)'
  BY <1>1, Frame DEF Ended
<1>9. \A op, x : ~Did(c, op, x)'
  BY <1>1 DEF Did
<1>10. \A x : Holds(c, x)' => x = p
  BY <1>1 DEF Holds
<1>11. EditInv(c)'
  BY <1>4, <1>8, <1>9, <1>10 DEF EditInv, EditsSurvive, Overwritten
<1>12. OpenInv(c)' /\ SealInv(c)' /\ InsertInv(c)'
  BY <1>1, <1>4 DEF OpenInv, SealInv, InsertInv
<1>13. QED
  BY <1>1, <1>2, <1>5, <1>6, <1>7, <1>11, <1>12, LooseStep DEF Ended

(* The plans that were listed are all the plans, or there are too many. *)
LEMMA ArchiveListStep == ASSUME IInv, NEW c \in Calls, ArchiveList(c) PROVE IInv'
<1> USE DEF IInv
<1>1. PICK p : p = req[c].id
  OBVIOUS
<1>2. pc[c] = "archive_read" /\ UNCHANGED <<products, plans, req, copy, met>>
  BY DEF ArchiveList
<1>3. /\ pc'[c] = "archive_listed" /\ \A d \in Calls \ {c} : pc'[d] = pc[d]
      /\ met[c] \subseteq met'[c]
  BY GotoFacts DEF ArchiveList
<1>4. /\ listed'[c] = Query(PlansOf(p), 0, ListLimit)
      /\ \A d \in Calls \ {c} : listed'[d] = listed[d]
  BY <1>1 DEF ArchiveList, TypeOK
<1>5. TypeOK'
  <2>1. Query(PlansOf(p), 0, ListLimit) \in SUBSET PlanIds
    BY DEF Query, PlansOf
  <2>2. listed' \in [Calls -> SUBSET PlanIds]
    BY <1>1, <2>1 DEF ArchiveList, TypeOK
  <2>3. QED
    BY <1>2, <2>2 DEF TypeOK, ArchiveList, Goto
<1>6. CallInv(c)'
  BY <1>2, <1>3 DEF CallInv, WriteOps
<1>7. /\ \A a \in Calls \ {c} : \A op, x : Did(a, op, x)' => Did(a, op, x)
      /\ \A a, b \in Calls : Overlapped(a, b) => Overlapped(a, b)'
      /\ \A u \in Calls : \A x : Overwritten(u, x) => Overwritten(u, x)'
      /\ \A a \in Calls : \A x : Undone(a, x) => Undone(a, x)'
  BY <1>2, <1>3, Frame DEF Ended, Stopped
<1>8. \A op, x : ~Did(c, op, x)'
  BY <1>3 DEF Did
<1>9. \A x : Holds(c, x)' => x = p /\ Holds(c, x)
  BY <1>1, <1>2 DEF Holds, Holding
<1>10. EditInv(c)'
  BY <1>2, <1>7, <1>8, <1>9 DEF EditInv
<1>11. OpenInv(c)'
  BY <1>2, <1>7, <1>8, <1>9 DEF OpenInv
<1>12. ASSUME NEW q \in PlansOf(p), ~Full(p)
       PROVE  q \in listed'[c]
  <2>1. IsFiniteSet(PlansOf(p)) /\ Cardinality(PlansOf(p)) \in Nat
    BY PlansFinite
  <2>2. PlansOf(p) \in SUBSET (Nat \ {0}) /\ ListLimit \in Nat \ {0} /\ Cardinality(PlansOf(p)) <= ListLimit
    BY <1>12, <2>1, IdsAssumption, LimitsAssumption DEF PlansOf, PlanIds, Full
  <2>3. Query(PlansOf(p), 0, ListLimit) = PlansOf(p)
    BY <2>1, <2>2, QueryAll
  <2>4. QED
    BY <1>4, <1>12, <2>3
<1>13. SealInv(c)'
  <2>1. PlansOf(p)' = PlansOf(p) /\ (Full(p)' <=> Full(p))
    BY <1>2 DEF PlansOf, Full
  <2>2. QED
    BY <1>3, <1>9, <1>12, <2>1 DEF SealInv
<1>14. InsertInv(c)'
  BY <1>3 DEF InsertInv
<1>15. QED
  BY <1>2, <1>3, <1>4, <1>5, <1>6, <1>10, <1>11, <1>13, <1>14, LooseStep DEF Ended, Stopped

LEMMA PlanReadStep ==
  ASSUME IInv, NEW c \in Calls, NEW p \in ProductIds, NEW valid \in BOOLEAN, PlanRead(c, p, valid)
  PROVE  IInv'
<1> USE DEF IInv
<1>1. PICK l : l = IF products[p].active /\ valid THEN "plan_checked" ELSE "failed"
  OBVIOUS
<1>2. UNCHANGED <<products, plans, copy, listed>> /\ products[p].exists
  BY DEF PlanRead
<1>3. l \in {"plan_checked", "failed"} /\ (l = "plan_checked" => products[p].active)
  BY <1>1
<1>4. Begin(c, "create_plan", p, l)
  BY <1>1 DEF PlanRead
<1>5. /\ pc[c] = "idle" /\ pc'[c] = l /\ req'[c] = [op |-> "create_plan", id |-> p] /\ met'[c] = Busy
      /\ \A d \in Calls \ {c} : pc'[d] = pc[d] /\ req'[d] = req[d] /\ met'[d] = met[d]
      /\ met[c] \subseteq met'[c] /\ ~plans[c].exists
      /\ met' \in [Calls -> SUBSET Calls]
  BY <1>4, BeginFacts
<1>6. TypeOK'
  BY <1>2, <1>3, <1>4, <1>5 DEF TypeOK, Begin, Goto
<1>7. CallInv(c)'
  BY <1>2, <1>3, <1>5 DEF CallInv, WriteOps
<1>8. EditInv(c)' /\ OpenInv(c)' /\ SealInv(c)'
  BY <1>3, <1>5 DEF EditInv, OpenInv, SealInv, Holds, Holding
<1>9. InsertInv(c)'
  BY <1>2, <1>3, <1>5 DEF InsertInv
<1>10. QED
  BY <1>2, <1>3, <1>5, <1>6, <1>7, <1>8, <1>9, LooseStep DEF Ended, WriteOps

LEMMA PlanArchiveReadStep ==
  ASSUME IInv, NEW c \in Calls, NEW q \in PlanIds, PlanArchiveRead(c, q) PROVE IInv'
<1> USE DEF IInv
<1>1. /\ pc[c] = "idle" /\ pc'[c] = "plan_read" /\ req'[c] = [op |-> "archive_plan", id |-> q] /\ met'[c] = Busy
      /\ \A d \in Calls \ {c} : pc'[d] = pc[d] /\ req'[d] = req[d] /\ met'[d] = met[d]
      /\ met[c] \subseteq met'[c] /\ ~plans[c].exists
      /\ met' \in [Calls -> SUBSET Calls]
  BY BeginFacts DEF PlanArchiveRead
<1>2. UNCHANGED <<products, plans, copy, listed>> /\ plans[q].exists
  BY DEF PlanArchiveRead
<1>3. TypeOK'
  BY <1>1, <1>2 DEF TypeOK, PlanArchiveRead, Begin, Goto
<1>4. CallInv(c)'
  BY <1>1, <1>2 DEF CallInv, WriteOps
<1>5. EditInv(c)' /\ OpenInv(c)' /\ SealInv(c)' /\ InsertInv(c)'
  BY <1>1, Quiet DEF Holding
<1>6. QED
  BY <1>1, <1>2, <1>3, <1>4, <1>5, LooseStep DEF Ended

LEMMA PlanArchiveWriteStep == ASSUME IInv, NEW c \in Calls, PlanArchiveWrite(c) PROVE IInv'
<1> USE DEF IInv
<1>1. PICK x : x = req[c].id
  OBVIOUS
<1>2. pc[c] = "plan_read" /\ UNCHANGED <<products, req, copy, listed, met>>
  BY DEF PlanArchiveWrite
<1>3. x \in PlanIds /\ plans[x].exists /\ req[c].op = "archive_plan"
  BY <1>1, <1>2 DEF CallInv
<1>4. plans[x] \in PlanRow
  BY <1>3 DEF TypeOK, NoPlan
<1>5. plans' = [plans EXCEPT ![x].active = FALSE]
  BY <1>1 DEF PlanArchiveWrite
<1>6. [plans[x] EXCEPT !.active = FALSE] \in PlanRow
  BY <1>4 DEF PlanRow
<1>7. pc'[c] = "done" /\ (\A d \in Calls \ {c} : pc'[d] = pc[d]) /\ met[c] \subseteq met'[c]
  BY GotoFacts DEF PlanArchiveWrite
<1>8. plans' \in [PlanIds -> {NoPlan} \cup PlanRow]
  BY <1>5, <1>6 DEF TypeOK
<1>9. TypeOK'
  BY <1>2, <1>8 DEF TypeOK, PlanArchiveWrite, Goto
<1>10. \A q \in PlanIds : /\ plans'[q].exists <=> plans[q].exists
                          /\ plans'[q].product = plans[q].product
                          /\ plans'[q].active => plans[q].active
  <2>1. /\ plans'[x].exists <=> plans[x].exists
        /\ plans'[x].product = plans[x].product
        /\ ~plans'[x].active
    BY <1>3, <1>4, <1>5 DEF TypeOK, PlanRow
  <2>2. \A q \in PlanIds \ {x} : plans'[q] = plans[q]
    BY <1>5 DEF TypeOK
  <2>3. QED
    BY <2>1, <2>2
<1>11. CallInv(c)'
  BY <1>2, <1>3, <1>7 DEF CallInv, WriteOps
<1>12. EditInv(c)' /\ OpenInv(c)' /\ SealInv(c)' /\ InsertInv(c)'
  BY <1>7, Quiet DEF Holding
<1>13. QED
  BY <1>2, <1>3, <1>7, <1>9, <1>10, <1>11, <1>12, LooseStep DEF Ended, Stopped, WriteOps

(* A walk reads only; a call that is cut off writes nothing. *)
LEMMA WalkBeginStep ==
  ASSUME IInv, NEW c \in Calls, NEW p \in ProductIds, WalkBegin(c, p) PROVE IInv'
<1> USE DEF IInv
<1>1. /\ pc[c] = "idle" /\ pc'[c] = "walking" /\ req'[c] = [op |-> "list", id |-> p] /\ met'[c] = Busy
      /\ \A d \in Calls \ {c} : pc'[d] = pc[d] /\ req'[d] = req[d] /\ met'[d] = met[d]
      /\ met[c] \subseteq met'[c] /\ ~plans[c].exists
      /\ met' \in [Calls -> SUBSET Calls]
  BY BeginFacts DEF WalkBegin
<1>2. UNCHANGED <<products, plans, copy, listed>>
  BY DEF WalkBegin
<1>3. TypeOK'
  BY <1>1, <1>2 DEF TypeOK, WalkBegin, Begin, Goto
<1>4. CallInv(c)'
  BY <1>1, <1>2 DEF CallInv, WriteOps
<1>5. EditInv(c)' /\ OpenInv(c)' /\ SealInv(c)' /\ InsertInv(c)'
  BY <1>1, Quiet DEF Holding
<1>6. QED
  BY <1>1, <1>2, <1>3, <1>4, <1>5, LooseStep DEF Ended

LEMMA ReadOnlyStep ==
  ASSUME IInv, NEW c \in Calls, NEW l \in {"walking", "done", "failed"}, Goto(c, l),
         pc[c] \notin Stopped, pc[c] = "walking" \/ l = "failed",
         UNCHANGED <<products, plans, req, copy, listed, met>>
  PROVE  IInv'
<1> USE DEF IInv
<1>1. pc'[c] = l /\ (\A d \in Calls \ {c} : pc'[d] = pc[d]) /\ met[c] \subseteq met'[c]
  BY GotoFacts
<1>2. TypeOK'
  BY DEF TypeOK, Goto
<1>3. pc[c] = "walking" => req[c].op = "list"
  BY DEF CallInv
<1>4. CallInv(c)'
  BY <1>1, <1>3 DEF CallInv
<1>5. EditInv(c)' /\ OpenInv(c)' /\ SealInv(c)' /\ InsertInv(c)'
  BY <1>1, Quiet DEF Holding
<1>6. l = "done" => req[c].op \notin WriteOps
  BY <1>3 DEF WriteOps
<1>7. QED
  BY <1>1, <1>2, <1>4, <1>5, <1>6, LooseStep DEF Ended, Stopped

LEMMA UpdateWriteStep == ASSUME IInv, NEW c \in Calls, UpdateWrite(c) PROVE IInv'
<1> USE DEF IInv
<1>1. PICK p : p = req[c].id
  OBVIOUS
<1>2. pc[c] = "product_read" /\ req[c].op = "update"
  BY DEF UpdateWrite, CallInv
<1>3. p \in ProductIds
  BY <1>1, <1>2 DEF CallInv, WriteOps
<1>4. products' = [products EXCEPT ![p] = copy[c]] /\ pc' = [pc EXCEPT ![c] = "done"]
  BY <1>1 DEF UpdateWrite, WriteProduct, Goto
<1>5. UNCHANGED <<plans, req, copy, listed, met>>
  BY DEF UpdateWrite
<1>6. TypeOK'
  BY <1>4, <1>5 DEF TypeOK
<1>7. QED
  BY <1>1, <1>2, <1>3, <1>4, <1>5, <1>6, ProductStep

LEMMA ArchiveCommitStep == ASSUME IInv, NEW c \in Calls, ArchiveCommit(c) PROVE IInv'
<1> USE DEF IInv
<1>1. PICK p : p = req[c].id
  OBVIOUS
<1>2. pc[c] = "archive_listed" /\ req[c].op = "archive"
  BY DEF ArchiveCommit, CallInv
<1>3. p \in ProductIds
  BY <1>1, <1>2 DEF CallInv, WriteOps
<1>4. products' = [products EXCEPT ![p] = copy[c]] /\ pc' = [pc EXCEPT ![c] = "done"]
  BY <1>1 DEF ArchiveCommit, WriteProduct, Goto
<1>5. UNCHANGED <<req, copy, listed, met>>
  BY DEF ArchiveCommit
<1>6. \A q \in PlanIds : plans'[q] = IF q \in listed[c] THEN [plans[q] EXCEPT !.active = FALSE] ELSE plans[q]
  BY DEF ArchiveCommit
<1>7. \A q \in PlanIds : plans[q] \in {NoPlan} \cup PlanRow
  BY DEF TypeOK
<1>8. ASSUME NEW q \in PlanIds
      PROVE  /\ plans'[q].exists <=> plans[q].exists
             /\ plans'[q].product = plans[q].product
             /\ plans'[q].active => plans[q].active
             /\ q \in listed[c] => ~plans'[q].active
             /\ plans'[q] \in {NoPlan} \cup PlanRow
  <2>1. CASE plans[q] = NoPlan
    BY <1>6, <2>1 DEF NoPlan
  <2>2. CASE plans[q] \in PlanRow
    <3>1. /\ plans'[q].exists <=> plans[q].exists
          /\ plans'[q].product = plans[q].product
          /\ plans'[q].active => plans[q].active
          /\ q \in listed[c] => ~plans'[q].active
      BY <1>6, <2>2 DEF PlanRow
    <3>2. plans'[q] \in PlanRow
      BY <1>6, <2>2 DEF PlanRow
    <3>3. QED
      BY <3>1, <3>2
  <2>3. QED
    BY <1>7, <2>1, <2>2
<1>9. plans' \in [PlanIds -> {NoPlan} \cup PlanRow]
  <2>1. plans' = [q \in PlanIds |-> plans'[q]]
    BY DEF ArchiveCommit
  <2>2. QED
    BY <1>8, <2>1
<1>10. TypeOK'
  BY <1>4, <1>5, <1>9 DEF TypeOK
<1>11. listed[c] \in SUBSET PlanIds
  BY DEF TypeOK
<1>12. \A q \in listed[c] : ~plans'[q].active
  BY <1>8, <1>11
<1>13. QED
  BY <1>1, <1>2, <1>3, <1>4, <1>5, <1>8, <1>10, <1>12, ProductStep

-----------------------------------------------------------------------------
LEMMA StepIInv == IInv /\ [Next]_vars => IInv'
<1> SUFFICES ASSUME IInv, [Next]_vars PROVE IInv'
  OBVIOUS
<1>1. ASSUME NEW c \in Calls, Arrive(c)
      PROVE  IInv'
  BY <1>1, CreateProductStep, UpdateReadStep, ArchiveReadStep, WalkBeginStep, PlanReadStep, PlanArchiveReadStep
     DEF Arrive
<1>2. ASSUME NEW c \in Calls, PlanInsert(c)
      PROVE  IInv'
  <2>1. req[c].id \in ProductIds
    BY <1>2 DEF IInv, CallInv, PlanInsert
  <2>2. NewPlan(req[c].id) \in PlanRow
    BY <2>1 DEF NewPlan, PlanRow
  <2>3. TypeOK'
    BY <1>2, <2>2 DEF IInv, TypeOK, PlanInsert, Goto
  <2>4. QED
    BY <1>2, <2>3, PlanInsertStep
<1>3. ASSUME NEW c \in Calls, WalkPage(c)
      PROVE  IInv'
  <2>1. PICK l \in {"walking", "done"} : Goto(c, l)
    BY <1>3 DEF WalkPage
  <2>2. pc[c] = "walking" /\ UNCHANGED <<products, plans, req, copy, listed, met>>
    BY <1>3 DEF WalkPage
  <2>3. QED
    BY <2>1, <2>2, ReadOnlyStep DEF Stopped, Ended
<1>4. ASSUME NEW c \in Calls, Abort(c)
      PROVE  IInv'
  <2>1. pc[c] \notin Stopped /\ Goto(c, "failed") /\ UNCHANGED <<products, plans, req, copy, listed, met>>
    BY <1>4 DEF Abort, Busy, Stopped
  <2>2. QED
    BY <2>1, ReadOnlyStep
<1>5. ASSUME NEW c \in Calls, Step(c)
      PROVE  IInv'
  BY <1>2, <1>3, <1>5, UpdateWriteStep, ArchiveListStep, ArchiveCommitStep, PlanArchiveWriteStep DEF Step
<1>6. CASE UNCHANGED vars
  <2>1. UNCHANGED <<products, plans, pc, req, copy, listed, met>>
    BY <1>6 DEF vars
  <2>2. \A x : PlansOf(x)' = PlansOf(x) /\ Writers(x)' = Writers(x) /\ (Full(x)' <=> Full(x))
    BY <2>1 DEF PlansOf, Writers, Did, Full
  <2>3. TypeOK' /\ BusyInv' /\ TableInv'
    BY <2>1 DEF IInv, TypeOK, BusyInv, TableInv, Overlapped
  <2>4. \A c \in Calls : CallInv(c)'
    BY <2>1 DEF IInv, CallInv
  <2>5. /\ \A q, x : Slipped(q, x)' <=> Slipped(q, x)
        /\ \A u, x : Overwritten(u, x)' <=> Overwritten(u, x)
        /\ \A a, x : Undone(a, x)' <=> Undone(a, x)
    BY <2>1 DEF Slipped, Overwritten, Undone, Writers, Did, Overlapped
  <2>6. ASSUME NEW c \in Calls
        PROVE  EditInv(c)' /\ OpenInv(c)' /\ SealInv(c)' /\ InsertInv(c)'
    <3>1. EditInv(c) /\ OpenInv(c) /\ SealInv(c) /\ InsertInv(c)
      BY DEF IInv
    <3>2. EditInv(c)'
      BY <2>1, <2>5, <3>1 DEF EditInv, Holds, Did, Overlapped
    <3>3. OpenInv(c)'
      BY <2>1, <2>5, <3>1 DEF OpenInv, Holds, Did, Overlapped
    <3>4. SealInv(c)'
      BY <2>1, <2>2, <2>5, <3>1 DEF SealInv, Holds, Overlapped
    <3>5. InsertInv(c)'
      BY <2>1, <2>5, <3>1 DEF InsertInv
    <3>6. QED
      BY <3>2, <3>3, <3>4, <3>5
  <2>7. EditsSurvive'
    BY <2>1 DEF IInv, EditsSurvive, Did, Writers, Overlapped
  <2>8. ReopenedOnlyByOverlap'
    BY <2>1 DEF IInv, ReopenedOnlyByOverlap, Did, Overlapped
  <2>9. ArchivedIsSealed'
    BY <2>1, <2>2 DEF IInv, ArchivedIsSealed, Overlapped
  <2>10. QED
    BY <2>3, <2>4, <2>6, <2>7, <2>8, <2>9 DEF IInv
<1>7. QED
  BY <1>1, <1>4, <1>5, <1>6 DEF Next, Rest

\* The rows, the copies and the histories satisfy the invariant throughout.
THEOREM Invariance == Spec => []IInv
<1>1. QED
  BY InitIInv, StepIInv, PTL DEF Spec

\* The rows and the calls keep their types.
THEOREM TypeCorrect == Spec => []TypeOK
<1>1. IInv => TypeOK
  BY DEF IInv
<1>2. QED
  BY Invariance, <1>1, PTL

\* An update that reported success is lost only to a write under way with it.
THEOREM SurvivingEdits == Spec => []EditsSurvive
<1>1. IInv => EditsSurvive
  BY DEF IInv
<1>2. QED
  BY Invariance, <1>1, PTL

\* An archived product is active again only through an update under way with
\* the archiving.
THEOREM ReopeningOverlaps == Spec => []ReopenedOnlyByOverlap
<1>1. IInv => ReopenedOnlyByOverlap
  BY DEF IInv
<1>2. QED
  BY Invariance, <1>1, PTL

\* An archived product has no active plan but one made during a write of it, or
\* when it has more plans than ArchiveProduct lists.
THEOREM ArchivedPlansSealed == Spec => []ArchivedIsSealed
<1>1. IInv => ArchivedIsSealed
  BY DEF IInv
<1>2. QED
  BY Invariance, <1>1, PTL
-----------------------------------------------------------------------------
(* Walks through the list *)

(* A walk that goes on still has in the table all it began with; one that is
   over has seen it. *)
WalkOf(c) ==
  /\ Walking(walk[c])
  /\ pc[c] = "walking" => walk[c].start \subseteq PlansOf(req[c].id)
  /\ pc[c] = "done" /\ req[c].op = "list" => walk[c].start \subseteq walk[c].seen

WalkInv == walk \in [Calls -> WalkRecord] /\ \A c \in Calls : WalkOf(c)

(* A plan never leaves its product. *)
LEMMA PlansGrow ==
  ASSUME IInv, [Next]_vars, NEW p
  PROVE  PlansOf(p) \subseteq PlansOf(p)'
<1>0. plans \in [PlanIds -> {NoPlan} \cup PlanRow] /\ \A c \in Calls : CallInv(c)
  BY DEF IInv, TypeOK
<1>1. ASSUME NEW c \in Calls, PlanInsert(c)
      PROVE  PlansOf(p) \subseteq PlansOf(p)'
  <2>1. ~plans[c].exists /\ plans' = [plans EXCEPT ![c] = NewPlan(req[c].id)]
    BY <1>0, <1>1 DEF PlanInsert, CallInv
  <2>2. QED
    BY <1>0, <2>1 DEF PlansOf
<1>2. ASSUME NEW c \in Calls, PlanArchiveWrite(c)
      PROVE  PlansOf(p) \subseteq PlansOf(p)'
  <2>1. plans' = [plans EXCEPT ![req[c].id].active = FALSE]
    BY <1>2 DEF PlanArchiveWrite
  <2>2. ASSUME NEW q \in PlanIds
        PROVE  plans'[q].exists = plans[q].exists /\ plans'[q].product = plans[q].product
    BY <1>0, <2>1 DEF NoPlan, PlanRow
  <2>3. QED
    BY <2>2 DEF PlansOf
<1>3. ASSUME NEW c \in Calls, ArchiveCommit(c)
      PROVE  PlansOf(p) \subseteq PlansOf(p)'
  <2>1. plans' = [q \in PlanIds |-> IF q \in listed[c] THEN [plans[q] EXCEPT !.active = FALSE] ELSE plans[q]]
    BY <1>3 DEF ArchiveCommit
  <2>2. ASSUME NEW q \in PlanIds
        PROVE  plans'[q].exists = plans[q].exists /\ plans'[q].product = plans[q].product
    BY <1>0, <2>1 DEF NoPlan, PlanRow
  <2>3. QED
    BY <2>2 DEF PlansOf
<1>4. ASSUME UNCHANGED plans
      PROVE  PlansOf(p) \subseteq PlansOf(p)'
  BY <1>4 DEF PlansOf
<1>5. ASSUME NEW c \in Calls, Arrive(c) \/ Abort(c)
      PROVE  UNCHANGED plans
  BY <1>5 DEF Arrive, Abort, CreateProduct, UpdateRead, ArchiveRead, WalkBegin, PlanRead, PlanArchiveRead
<1>6. ASSUME NEW c \in Calls, Step(c)
      PROVE  UNCHANGED plans \/ PlanInsert(c) \/ PlanArchiveWrite(c) \/ ArchiveCommit(c)
  BY <1>6 DEF Step, UpdateWrite, ArchiveList, WalkPage
<1>7. QED
  BY <1>1, <1>2, <1>3, <1>4, <1>5, <1>6 DEF Next, Rest, vars

LEMMA InitWalks == Init => WalkInv
<1> SUFFICES ASSUME Init PROVE WalkInv
  OBVIOUS
<1>1. \A c \in Calls : walk[c] = StartWalk({}) /\ pc[c] = "idle"
  BY DEF Init
<1>2. Walking(StartWalk({})) /\ walk = [c \in Calls |-> StartWalk({})]
  BY WalkStarts DEF Init
<1>3. \A c \in Calls : WalkOf(c)
  BY <1>1, <1>2 DEF WalkOf
<1>4. QED
  BY <1>2, <1>3 DEF WalkInv, Walking

(* A call keeps its walk and does not go on with one, or ends one. *)
Aside(c) ==
  /\ UNCHANGED walk
  /\ \A d \in Calls \ {c} : pc'[d] = pc[d] /\ req'[d] = req[d]
  /\ pc'[c] # "walking"
  /\ pc'[c] = "done" => req'[c].op # "list"

LEMMA OtherWalks ==
  ASSUME IInv, WalkInv, [Next]_vars, NEW c \in Calls, Aside(c)
  PROVE  WalkInv'
<1>1. ASSUME NEW d \in Calls
      PROVE  WalkOf(d)'
  <2>1. WalkOf(d) /\ walk'[d] = walk[d]
    BY DEF WalkInv, Aside
  <2>2. CASE d = c
    BY <2>1, <2>2 DEF WalkOf, Aside
  <2>3. CASE d # c
    <3>1. PICK p : p = req[d].id
      OBVIOUS
    <3>2. pc'[d] = pc[d] /\ req'[d] = req[d] /\ PlansOf(p) \subseteq PlansOf(p)'
      BY <2>3, PlansGrow DEF Aside
    <3>3. QED
      BY <2>1, <3>1, <3>2 DEF WalkOf, PlansOf
  <2>4. QED
    BY <2>2, <2>3
<1>2. QED
  BY <1>1 DEF WalkInv, Aside

(* Every action but those of the walks leaves the walks aside. *)
LEMMA AsideActions ==
  ASSUME IInv, NEW c \in Calls, Arrive(c) \/ Step(c) \/ Abort(c),
         \A p \in ProductIds : ~WalkBegin(c, p), ~WalkPage(c)
  PROVE  Aside(c)
<1>0. /\ pc = [d \in Calls |-> pc[d]] /\ req = [d \in Calls |-> req[d]]
      /\ CallInv(c)
  BY DEF IInv, TypeOK
<1>1. ASSUME NEW op, NEW id, NEW l, Begin(c, op, id, l), UNCHANGED walk, l # "walking",
             l = "done" => op # "list"
      PROVE  Aside(c)
  <2>1. pc' = [pc EXCEPT ![c] = l] /\ req' = [req EXCEPT ![c] = [op |-> op, id |-> id]]
    BY <1>1 DEF Begin, Goto
  <2>2. pc'[c] = l /\ req'[c].op = op /\ \A d \in Calls \ {c} : pc'[d] = pc[d] /\ req'[d] = req[d]
    BY <1>0, <2>1
  <2>3. QED
    BY <1>1, <2>2 DEF Aside
<1>2. ASSUME NEW l, Goto(c, l), UNCHANGED <<req, walk>>, l # "walking", l = "done" => req[c].op # "list"
      PROVE  Aside(c)
  <2>1. pc'[c] = l /\ \A d \in Calls \ {c} : pc'[d] = pc[d]
    BY <1>0, <1>2 DEF Goto
  <2>2. QED
    BY <1>2, <2>1 DEF Aside
<1>3. CASE Arrive(c)
  <2>1. CASE CreateProduct(c)
    BY <1>1, <2>1 DEF CreateProduct
  <2>2. ASSUME NEW p, UpdateRead(c, p)
        PROVE  Aside(c)
    BY <1>1, <2>2 DEF UpdateRead
  <2>3. ASSUME NEW p, ArchiveRead(c, p)
        PROVE  Aside(c)
    BY <1>1, <2>3 DEF ArchiveRead
  <2>4. ASSUME NEW p, NEW valid, PlanRead(c, p, valid)
        PROVE  Aside(c)
    <3>1. UNCHANGED walk /\ \E l \in {"plan_checked", "failed"} : Begin(c, "create_plan", p, l)
      BY <2>4 DEF PlanRead
    <3>2. QED
      BY <1>1, <3>1
  <2>5. ASSUME NEW q, PlanArchiveRead(c, q)
        PROVE  Aside(c)
    BY <1>1, <2>5 DEF PlanArchiveRead
  <2>6. QED
    BY <1>3, <2>1, <2>2, <2>3, <2>4, <2>5 DEF Arrive
<1>4. CASE Step(c)
  <2>1. CASE UpdateWrite(c)
    BY <1>0, <1>2, <2>1 DEF UpdateWrite, CallInv
  <2>2. CASE ArchiveList(c)
    BY <1>0, <1>2, <2>2 DEF ArchiveList, CallInv
  <2>3. CASE ArchiveCommit(c)
    BY <1>0, <1>2, <2>3 DEF ArchiveCommit, CallInv
  <2>4. CASE PlanInsert(c)
    BY <1>0, <1>2, <2>4 DEF PlanInsert, CallInv
  <2>5. CASE PlanArchiveWrite(c)
    BY <1>0, <1>2, <2>5 DEF PlanArchiveWrite, CallInv
  <2>6. QED
    BY <1>4, <2>1, <2>2, <2>3, <2>4, <2>5 DEF Step
<1>5. CASE Abort(c)
  BY <1>2, <1>5 DEF Abort
<1>6. QED
  BY <1>3, <1>4, <1>5

LEMMA StepWalks == IInv /\ WalkInv /\ [Next]_vars => WalkInv'
<1> SUFFICES ASSUME IInv, WalkInv, [Next]_vars PROVE WalkInv'
  OBVIOUS
<1>0. /\ pc = [d \in Calls |-> pc[d]] /\ req = [d \in Calls |-> req[d]]
      /\ walk \in [Calls -> WalkRecord] /\ \A c \in Calls : WalkOf(c) /\ CallInv(c)
      /\ TableInv
  BY DEF IInv, TypeOK, WalkInv
<1>1. ASSUME NEW p
      PROVE  PlansOf(p) \in SUBSET (Nat \ {0}) /\ IsFiniteSet(PlansOf(p))
  <2>1. PlansOf(p) \in SUBSET (Nat \ {0})
    BY IdsAssumption DEF PlansOf, PlanIds
  <2>2. QED
    BY <1>0, <2>1, PlansFinite
\* One call's walk changes, to a walk that is begun or goes on.
<1>2. ASSUME NEW c \in Calls, NEW w, Walking(w), walk' = [walk EXCEPT ![c] = w],
             \A d \in Calls \ {c} : pc'[d] = pc[d] /\ req'[d] = req[d],
             \A p : pc'[c] = "walking" /\ req'[c].id = p => w.start \subseteq PlansOf(p)',
             pc'[c] = "done" => w.start \subseteq w.seen
      PROVE  WalkInv'
  <2>1. walk' \in [Calls -> WalkRecord]
    BY <1>0, <1>2 DEF Walking
  <2>2. WalkOf(c)'
    <3>1. walk'[c] = w
      BY <1>0, <1>2
    <3>2. PICK p : p = req'[c].id
      OBVIOUS
    <3>3. pc'[c] = "walking" => w.start \subseteq PlansOf(p)'
      BY <1>2, <3>2
    <3>4. QED
      BY <1>2, <3>1, <3>2, <3>3 DEF WalkOf, PlansOf
  <2>3. ASSUME NEW d \in Calls \ {c}
        PROVE  WalkOf(d)'
    <3>1. walk'[d] = walk[d] /\ pc'[d] = pc[d] /\ req'[d] = req[d] /\ WalkOf(d)
      BY <1>0, <1>2
    <3>2. PICK p : p = req[d].id
      OBVIOUS
    <3>3. PlansOf(p) \subseteq PlansOf(p)'
      BY PlansGrow
    <3>4. QED
      BY <3>1, <3>2, <3>3 DEF WalkOf, PlansOf
  <2>4. QED
    BY <2>1, <2>2, <2>3 DEF WalkInv
<1>3. ASSUME NEW c \in Calls, NEW p, WalkBegin(c, p)
      PROVE  WalkInv'
  <2>1. Walking(StartWalk(PlansOf(p))) /\ StartWalk(PlansOf(p)).start = PlansOf(p)
    BY <1>1, WalkStarts
  <2>2. /\ walk' = [walk EXCEPT ![c] = StartWalk(PlansOf(p))]
        /\ pc' = [pc EXCEPT ![c] = "walking"]
        /\ req' = [req EXCEPT ![c] = [op |-> "list", id |-> p]]
    BY <1>3 DEF WalkBegin, Begin, Goto
  <2>3. pc'[c] = "walking" /\ req'[c].id = p /\ \A d \in Calls \ {c} : pc'[d] = pc[d] /\ req'[d] = req[d]
    BY <1>0, <2>2
  <2>4. PlansOf(p) \subseteq PlansOf(p)'
    BY PlansGrow
  <2>5. QED
    BY <1>2, <2>1, <2>2, <2>3, <2>4
<1>4. ASSUME NEW c \in Calls, WalkPage(c)
      PROVE  WalkInv'
  <2>0. PICK p : p = req[c].id
    OBVIOUS
  <2> DEFINE fetched == Fetched(PlansOf(p), walk[c].after, PageSize)
             next == Turn(walk[c], Shown(fetched, PageSize))
  <2>1. pc[c] = "walking" /\ Walking(walk[c]) /\ walk[c].start \subseteq PlansOf(p)
    BY <1>0, <1>4, <2>0 DEF WalkPage, WalkOf
  <2>2. /\ Walking(next)
        /\ next.start = walk[c].start
        /\ ~HasMore(fetched, PageSize) => next.start \subseteq next.seen
    <3>1. PageSize \in Nat /\ PageSize <= PageSize
      BY LimitsAssumption
    <3>2. PlansOf(p) \in SUBSET (Nat \ {0}) /\ IsFiniteSet(PlansOf(p))
      BY <1>1
    <3>3. QED
      BY <2>1, <3>1, <3>2, WalkTurns
  <2>3. /\ walk' = [walk EXCEPT ![c] = next]
        /\ pc' = [pc EXCEPT ![c] = IF HasMore(fetched, PageSize) THEN "walking" ELSE "done"]
        /\ req' = req
    BY <1>4, <2>0 DEF WalkPage, Goto
  <2>4. PlansOf(p) \subseteq PlansOf(p)' /\ req'[c].id = p
    BY <2>0, <2>3, PlansGrow
  <2> HIDE DEF next, fetched
  <2>5. /\ pc'[c] = IF HasMore(fetched, PageSize) THEN "walking" ELSE "done"
        /\ \A d \in Calls \ {c} : pc'[d] = pc[d] /\ req'[d] = req[d]
    BY <1>0, <2>3
  <2>6. \A x : pc'[c] = "walking" /\ req'[c].id = x => next.start \subseteq PlansOf(x)'
    BY <2>1, <2>2, <2>4
  <2>7. pc'[c] = "done" => next.start \subseteq next.seen
    BY <2>2, <2>5
  <2>8. QED
    BY <1>2, <2>2, <2>3, <2>5, <2>6, <2>7
<1>5. ASSUME NEW c \in Calls, Arrive(c) \/ Step(c) \/ Abort(c)
      PROVE  WalkInv'
  BY <1>3, <1>4, <1>5, AsideActions, OtherWalks
<1>6. CASE UNCHANGED vars
  <2>1. walk' = walk /\ pc' = pc /\ req' = req /\ \A p : PlansOf(p)' = PlansOf(p)
    BY <1>6 DEF vars, PlansOf
  <2>2. QED
    BY <2>1 DEF WalkInv, WalkOf
<1>7. QED
  BY <1>5, <1>6 DEF Next, Rest

\* A walk through the plans of a product shows none twice and every one that was
\* there when it began, in whatever order plans are inserted on both sides of it.
THEOREM WalksAreExact == Spec => []WalkExact
<1>1. WalkInv => WalkExact
  BY DEF WalkInv, WalkOf, Walking, WalkExact, Exact
<1>2. Init => IInv /\ WalkInv
  BY InitIInv, InitWalks
<1>3. (IInv /\ WalkInv) /\ [Next]_vars => (IInv /\ WalkInv)'
  BY StepIInv, StepWalks
<1>4. QED
  BY <1>1, <1>2, <1>3, PTL DEF Spec
=============================================================================

-------------------------------- MODULE Catalog --------------------------------
(***************************************************************************)
(* product.Service: products and plans over one PostgreSQL database (READ  *)
(* COMMITTED), and the clients that page through the plans.                *)
(*                                                                         *)
(* A call is one service call, or one client's walk through a list.  Rows  *)
(* have no version: a call writes back the whole row it read.  A row's id  *)
(* is the call that created it; ids are drawn by several server instances, *)
(* so they are in no fixed order with the inserts.                         *)
(***************************************************************************)
EXTENDS Paging

CONSTANTS
  Calls,        \* calls; each runs at most once
  Seeds,        \* products that exist at the start
  SeedPlans,    \* the product of each plan that exists at the start
  ListLimit,    \* rows ListByProductID returns
  PageSize,     \* rows a page of the list endpoint shows
  Aborts        \* TRUE: a call may die or meet a database error

ASSUME IdsAssumption ==
  /\ Calls \cup Seeds \cup DOMAIN SeedPlans \subseteq Nat \ {0}
  /\ Calls \cap (Seeds \cup DOMAIN SeedPlans) = {}
  /\ SeedPlans \in [DOMAIN SeedPlans -> Seeds]
ASSUME TableAssumption == IsFiniteSet(DOMAIN SeedPlans)
ASSUME LimitsAssumption == ListLimit \in Nat \ {0} /\ PageSize \in Nat \ {0}

VARIABLES
  products,   \* product rows by id
  plans,      \* plan rows by id
  pc,         \* where each call is
  req,        \* what each call was asked to do
  copy,       \* the product row each call will write
  listed,     \* the plans an archiving call listed
  walk,       \* how far each walk is
  met         \* history: the calls that were running when a call began

vars == <<products, plans, pc, req, copy, listed, walk, met>>

-----------------------------------------------------------------------------
None == [active |-> FALSE, edits |-> {}, exists |-> FALSE]
NoPlan == [product |-> 0, active |-> FALSE, exists |-> FALSE]
NoRequest == [op |-> "none", id |-> 0]

\* edits stands for the columns UpdateProduct changes: the updates the row shows.
NewProduct == [active |-> TRUE, edits |-> {}, exists |-> TRUE]
NewPlan(p) == [product |-> p, active |-> TRUE, exists |-> TRUE]

ProductIds == Calls \cup Seeds
PlanIds == Calls \cup DOMAIN SeedPlans
PlansOf(p) == {q \in PlanIds : plans[q].exists /\ plans[q].product = p}

Ended == {"done", "failed"}
Busy == {c \in Calls : pc[c] \notin Ended \cup {"idle"}}

Init ==
  /\ products = [p \in ProductIds |-> IF p \in Seeds THEN NewProduct ELSE None]
  /\ plans = [q \in PlanIds |-> IF q \in DOMAIN SeedPlans THEN NewPlan(SeedPlans[q]) ELSE NoPlan]
  /\ pc = [c \in Calls |-> "idle"]
  /\ req = [c \in Calls |-> NoRequest]
  /\ copy = [c \in Calls |-> None]
  /\ listed = [c \in Calls |-> {}]
  /\ walk = [c \in Calls |-> StartWalk({})]
  /\ met = [c \in Calls |-> {}]

Goto(c, l) == pc' = [pc EXCEPT ![c] = l]

Begin(c, op, id, l) ==
  /\ pc[c] = "idle"
  /\ req' = [req EXCEPT ![c] = [op |-> op, id |-> id]]
  /\ met' = [met EXCEPT ![c] = Busy]
  /\ Goto(c, l)

WriteProduct(c) == products' = [products EXCEPT ![req[c].id] = copy[c]]

-----------------------------------------------------------------------------
(* Products *)

CreateProduct(c) ==
  /\ Begin(c, "create_product", c, "done")
  /\ products' = [products EXCEPT ![c] = NewProduct]
  /\ UNCHANGED <<plans, copy, listed, walk>>

\* Deviation: an update makes the product active.
UpdateReadActive(c, p) ==
  /\ products[p].exists
  /\ Begin(c, "update", p, "product_read")
  /\ copy' = [copy EXCEPT ![c] = [NewProduct EXCEPT !.edits = products[p].edits \cup {c}]]
  /\ UNCHANGED <<products, plans, listed, walk>>

UpdateRead(c, p) ==
  /\ products[p].exists
  /\ Begin(c, "update", p, "product_read")
  /\ copy' = [copy EXCEPT ![c] = [products[p] EXCEPT !.edits = @ \cup {c}]]
  /\ UNCHANGED <<products, plans, listed, walk>>

\* UPDATE products ... WHERE id: every column from the copy, active included.
UpdateWrite(c) ==
  /\ pc[c] = "product_read"
  /\ WriteProduct(c)
  /\ Goto(c, "done")
  /\ UNCHANGED <<plans, req, copy, listed, walk, met>>

\* Archive does not ask whether the product is active.
ArchiveRead(c, p) ==
  /\ products[p].exists
  /\ Begin(c, "archive", p, "archive_read")
  /\ copy' = [copy EXCEPT ![c] = [products[p] EXCEPT !.active = FALSE]]
  /\ UNCHANGED <<products, plans, listed, walk>>

\* The plans are listed before the transaction, and at most ListLimit of them.
ArchiveList(c) ==
  /\ pc[c] = "archive_read"
  /\ listed' = [listed EXCEPT ![c] = Query(PlansOf(req[c].id), 0, ListLimit)]
  /\ Goto(c, "archive_listed")
  /\ UNCHANGED <<products, plans, req, copy, walk, met>>

\* Deviation: the columns written are those of the row when it was created.
ArchiveCommitFresh(c) ==
  /\ pc[c] = "archive_listed"
  /\ products' = [products EXCEPT ![req[c].id] = [copy[c] EXCEPT !.edits = {}]]
  /\ plans' = [q \in PlanIds |-> IF q \in listed[c] THEN [plans[q] EXCEPT !.active = FALSE] ELSE plans[q]]
  /\ Goto(c, "done")
  /\ UNCHANGED <<req, copy, listed, walk, met>>

\* One transaction writes the product and every listed plan.
ArchiveCommit(c) ==
  /\ pc[c] = "archive_listed"
  /\ WriteProduct(c)
  /\ plans' = [q \in PlanIds |-> IF q \in listed[c] THEN [plans[q] EXCEPT !.active = FALSE] ELSE plans[q]]
  /\ Goto(c, "done")
  /\ UNCHANGED <<req, copy, listed, walk, met>>

-----------------------------------------------------------------------------
(* Plans *)

\* Deviation: a plan may be made for an archived product.
PlanReadAny(c, p, valid) ==
  /\ products[p].exists
  /\ Begin(c, "create_plan", p, IF valid THEN "plan_checked" ELSE "failed")
  /\ UNCHANGED <<products, plans, copy, listed, walk>>

\* The product must be active, the prices valid.
PlanRead(c, p, valid) ==
  /\ products[p].exists
  /\ Begin(c, "create_plan", p, IF products[p].active /\ valid THEN "plan_checked" ELSE "failed")
  /\ UNCHANGED <<products, plans, copy, listed, walk>>

PlanInsert(c) ==
  /\ pc[c] = "plan_checked"
  /\ plans' = [plans EXCEPT ![c] = NewPlan(req[c].id)]
  /\ Goto(c, "done")
  /\ UNCHANGED <<products, req, copy, listed, walk, met>>

PlanArchiveRead(c, q) ==
  /\ plans[q].exists
  /\ Begin(c, "archive_plan", q, "plan_read")
  /\ UNCHANGED <<products, plans, copy, listed, walk>>

PlanArchiveWrite(c) ==
  /\ pc[c] = "plan_read"
  /\ plans' = [plans EXCEPT ![req[c].id].active = FALSE]
  /\ Goto(c, "done")
  /\ UNCHANGED <<products, req, copy, listed, walk, met>>

-----------------------------------------------------------------------------
(* A client lists the plans of a product, naming the last id it was shown. *)

WalkBegin(c, p) ==
  /\ Begin(c, "list", p, "walking")
  /\ walk' = [walk EXCEPT ![c] = StartWalk(PlansOf(p))]
  /\ UNCHANGED <<products, plans, copy, listed>>

\* One request and its answer; a client asks again while there is more.
WalkPage(c) ==
  LET fetched == Fetched(PlansOf(req[c].id), walk[c].after, PageSize)
  IN  /\ pc[c] = "walking"
      /\ walk' = [walk EXCEPT ![c] = Turn(@, Shown(fetched, PageSize))]
      /\ Goto(c, IF HasMore(fetched, PageSize) THEN "walking" ELSE "done")
      /\ UNCHANGED <<products, plans, req, copy, listed, met>>

-----------------------------------------------------------------------------
\* A request is cut off, a statement fails or a process dies; every write of
\* a call is one statement or one transaction, so nothing of it is left.
Abort(c) ==
  /\ Aborts
  /\ c \in Busy
  /\ Goto(c, "failed")
  /\ UNCHANGED <<products, plans, req, copy, listed, walk, met>>

Arrive(c) ==
  \/ CreateProduct(c)
  \/ \E p \in ProductIds : UpdateRead(c, p) \/ ArchiveRead(c, p) \/ WalkBegin(c, p)
  \/ \E p \in ProductIds, valid \in BOOLEAN : PlanRead(c, p, valid)
  \/ \E q \in PlanIds : PlanArchiveRead(c, q)

Step(c) ==
  \/ UpdateWrite(c)
  \/ ArchiveList(c)
  \/ ArchiveCommit(c)
  \/ PlanInsert(c)
  \/ PlanArchiveWrite(c)
  \/ WalkPage(c)

Rest == (\A c \in Calls : pc[c] \in Ended) /\ UNCHANGED vars

Next == (\E c \in Calls : Arrive(c) \/ Step(c) \/ Abort(c)) \/ Rest

Spec == Init /\ [][Next]_vars

-----------------------------------------------------------------------------
(* Properties *)

ProductRow == [active : BOOLEAN, edits : SUBSET Calls, exists : BOOLEAN]
PlanRow == [product : ProductIds, active : BOOLEAN, exists : {TRUE}]

\* The rows and the calls keep their types; of the walks WalkExact says more.
TypeOK ==
  /\ products \in [ProductIds -> ProductRow]
  /\ plans \in [PlanIds -> {NoPlan} \cup PlanRow]
  /\ pc \in [Calls -> {"idle", "product_read", "archive_read", "archive_listed", "plan_checked",
                       "plan_read", "walking", "done", "failed"}]
  /\ req \in [Calls -> [op : {"none", "create_product", "update", "archive", "create_plan",
                              "archive_plan", "list"}, id : ProductIds \cup PlanIds \cup {0}]]
  /\ copy \in [Calls -> ProductRow]
  /\ listed \in [Calls -> SUBSET PlanIds]
  /\ met \in [Calls -> SUBSET Calls]

Overlapped(c, d) == c \in met[d] \/ d \in met[c]
Did(c, op, id) == pc[c] = "done" /\ req[c] = [op |-> op, id |-> id]

\* The calls that wrote product p.
Writers(p) == {c \in Calls : Did(c, "update", p) \/ Did(c, "archive", p)}

\* An archived product has no active plan, unless the plan was created while a
\* write of the product was under way, or the product has more plans than
\* ListByProductID returns.
ArchivedIsSealed ==
  \A p \in ProductIds :
    products[p].exists /\ ~products[p].active =>
      \A q \in PlansOf(p) :
        plans[q].active => \/ \E w \in Writers(p) : q \in Calls /\ Overlapped(w, q)
                           \/ Cardinality(PlansOf(p)) > ListLimit

\* An archived product becomes active again only through an update that was
\* under way with the archiving: the update writes back the active it read.
ReopenedOnlyByOverlap ==
  \A a \in Calls, p \in ProductIds :
    Did(a, "archive", p) /\ products[p].active =>
      \E u \in Calls : Did(u, "update", p) /\ Overlapped(u, a)

\* An update of a product that reported success is lost only to a write that
\* was under way with it.
EditsSurvive ==
  \A u \in Calls, p \in ProductIds :
    Did(u, "update", p) /\ u \notin products[p].edits =>
      \E w \in Writers(p) : w # u /\ Overlapped(w, u)

\* A walk shows no row twice, so it ends once inserts do, and shows every row
\* that was there when it began, although rows are inserted on both sides of it.
WalkExact ==
  \A c \in Calls : Exact(walk[c], pc[c] = "done" /\ req[c].op = "list")
=============================================================================

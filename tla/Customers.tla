------------------------------- MODULE Customers -------------------------------
(***************************************************************************)
(* customer.Service with its emails: creation, changes, deletion and       *)
(* listing of customers over one PostgreSQL database (READ COMMITTED).     *)
(* Subscriptions models the same rows without emails and with the          *)
(* subscriptions that block a deletion.                                    *)
(*                                                                         *)
(* A call is one service call, or one client's walk through the list.  A   *)
(* row is written back only if its version is the one that was read.  A    *)
(* customer's id is the call that created it.                              *)
(***************************************************************************)
EXTENDS Paging

CONSTANTS
  Calls,      \* calls; each runs at most once
  Emails,
  Seeds,      \* the email of each customer that exists at the start
  PageSize,   \* rows a page of the list endpoint shows
  Faults,     \* TRUE: an email lookup may fail
  Aborts      \* TRUE: a call may die or meet a database error

ASSUME CallsAssumption ==
  /\ Calls \cup DOMAIN Seeds \subseteq Nat \ {0}
  /\ Calls \cap DOMAIN Seeds = {}
ASSUME SeedsAssumption ==
  /\ Seeds \in [DOMAIN Seeds -> Emails]
  /\ \A x, y \in DOMAIN Seeds : Seeds[x] = Seeds[y] => x = y
ASSUME TableAssumption == IsFiniteSet(DOMAIN Seeds)
ASSUME PageSizeAssumption == PageSize \in Nat \ {0}

VARIABLES
  customers,   \* customer rows by id
  pc,          \* where each call is
  req,         \* what each call was asked to do
  copy,        \* the row each call will write
  walk,        \* how far each walk is
  met          \* history: the calls that were running when a call began

vars == <<customers, pc, req, copy, walk, met>>

-----------------------------------------------------------------------------
NoEmail == "none"
NoRow == [email |-> NoEmail, status |-> "none", deletedAt |-> FALSE, version |-> 0,
          edits |-> {}, setBy |-> 0]
NoRequest == [op |-> "none", id |-> 0, email |-> NoEmail, blind |-> FALSE]

\* edits and setBy are history: the calls whose change the row holds, and the
\* one its email is from (0 before the start).
NewCustomer(by, email) ==
  [email |-> email, status |-> "active", deletedAt |-> FALSE, version |-> 1,
   edits |-> {}, setBy |-> by]

AllIds == Calls \cup DOMAIN Seeds
Ids == {x \in AllIds : customers[x].status # "none"}

Ended == {"done", "failed"}
Busy == {c \in Calls : pc[c] \notin Ended \cup {"idle"}}

Init ==
  /\ customers = [x \in AllIds |-> IF x \in DOMAIN Seeds THEN NewCustomer(0, Seeds[x]) ELSE NoRow]
  /\ pc = [c \in Calls |-> "idle"]
  /\ req = [c \in Calls |-> NoRequest]
  /\ copy = [c \in Calls |-> NoRow]
  /\ walk = [c \in Calls |-> StartWalk({})]
  /\ met = [c \in Calls |-> {}]

Goto(c, l) == pc' = [pc EXCEPT ![c] = l]

Begin(c, r, l) ==
  /\ pc[c] = "idle"
  /\ req' = [req EXCEPT ![c] = r]
  /\ met' = [met EXCEPT ![c] = Busy]
  /\ Goto(c, l)

\* A call that ends keeps no row.
Hold(c, ok, row) == copy' = [copy EXCEPT ![c] = IF ok THEN row ELSE NoRow]
Release(c) == copy' = [copy EXCEPT ![c] = NoRow]

\* Deviation: only active customers are found.
HoldersActive(email) == {x \in Ids : customers[x].email = email /\ customers[x].status = "active"}

\* GetByEmail: WHERE email AND deleted_at IS NULL.
Holders(email) == {x \in Ids : customers[x].email = email /\ ~customers[x].deletedAt}

\* Whether customer x (0 for a new one) may take the email.  One of the rows that
\* hold it is looked at; an error of the lookup counts as "not found".
Free(email, x, blind) == blind \/ Holders(email) = {} \/ \E y \in Holders(email) : y = x
Taken(email, x, blind) == ~blind /\ \E y \in Holders(email) : y # x

Request(op, x, email) == [op |-> op, id |-> x, email |-> email, blind |-> FALSE]

-----------------------------------------------------------------------------
(* Create *)

\* The first statement is the lookup.
CreateLookup(c, email, blind) ==
  /\ blind => Faults
  /\ \/ Free(email, 0, blind) /\ Begin(c, [Request("create", c, email) EXCEPT !.blind = blind], "create")
     \/ Taken(email, 0, blind) /\ Begin(c, Request("create", c, email), "failed")
  /\ UNCHANGED <<customers, copy, walk>>

CreateInsert(c) ==
  /\ pc[c] = "create"
  /\ customers' = [customers EXCEPT ![c] = NewCustomer(c, req[c].email)]
  /\ Goto(c, "done")
  /\ UNCHANGED <<req, copy, walk, met>>

-----------------------------------------------------------------------------
(* Update, Suspend, Reactivate and Delete *)

Changed(row, c) == [row EXCEPT !.edits = @ \cup {c}]

\* An email other than the row's own is looked up before the row is written.
UpdateRead(c, x, email) ==
  LET row == customers[x]
      ok == row.status \in {"active", "suspended"}
      new == email # NoEmail /\ email # row.email
  IN  /\ x \in Ids
      /\ Begin(c, Request("update", x, email),
               IF ~ok THEN "failed" ELSE IF new THEN "lookup" ELSE "write")
      /\ Hold(c, ok, Changed(IF new THEN [row EXCEPT !.email = email, !.setBy = c] ELSE row, c))
      /\ UNCHANGED <<customers, walk>>

UpdateLookup(c, blind) ==
  /\ pc[c] = "lookup"
  /\ blind => Faults
  /\ \/ Free(req[c].email, req[c].id, blind) /\ Goto(c, "write") /\ UNCHANGED copy
     \/ Taken(req[c].email, req[c].id, blind) /\ Goto(c, "failed") /\ Release(c)
  /\ req' = [req EXCEPT ![c].blind = blind]
  /\ UNCHANGED <<customers, walk, met>>

\* Suspend takes active customers, Reactivate suspended ones.
StatusRead(c, x, op) ==
  LET row == customers[x]
      ok == row.status = IF op = "suspend" THEN "active" ELSE "suspended"
  IN  /\ x \in Ids
      /\ Begin(c, Request(op, x, NoEmail), IF ok THEN "write" ELSE "failed")
      /\ Hold(c, ok, Changed([row EXCEPT !.status = IF op = "suspend" THEN "suspended" ELSE "active"], c))
      /\ UNCHANGED <<customers, walk>>

\* The subscriptions are asked first; here they may give either answer.
DeleteCheck(c, x) ==
  /\ x \in Ids
  /\ \E hasActive \in BOOLEAN :
       Begin(c, Request("delete", x, NoEmail), IF hasActive THEN "failed" ELSE "delete")
  /\ UNCHANGED <<customers, copy, walk>>

DeleteRead(c) ==
  LET row == customers[req[c].id]
      ok == row.status # "deleted"
  IN  /\ pc[c] = "delete"
      /\ Hold(c, ok, Changed([row EXCEPT !.status = "deleted", !.deletedAt = TRUE], c))
      /\ Goto(c, IF ok THEN "write" ELSE "failed")
      /\ UNCHANGED <<customers, req, walk, met>>

\* Deviation: the version is compared but not increased.
WriteSameVersion(c) ==
  LET x == req[c].id
  IN  /\ pc[c] = "write"
      /\ IF customers[x].version = copy[c].version
         THEN /\ customers' = [customers EXCEPT ![x] = [copy[c] EXCEPT !.deletedAt = customers[x].deletedAt]]
              /\ Goto(c, "done")
         ELSE Goto(c, "failed") /\ UNCHANGED customers
      /\ Release(c)
      /\ UNCHANGED <<req, walk, met>>

\* UPDATE customers ... version = version + 1 WHERE id AND version.  The columns
\* written do not include deleted_at.
Write(c) ==
  LET x == req[c].id
  IN  /\ pc[c] = "write"
      /\ IF customers[x].version = copy[c].version
         THEN /\ customers' = [customers EXCEPT ![x] =
                   [copy[c] EXCEPT !.deletedAt = customers[x].deletedAt, !.version = @ + 1]]
              /\ Goto(c, "done")
         ELSE Goto(c, "failed") /\ UNCHANGED customers
      /\ Release(c)
      /\ UNCHANGED <<req, walk, met>>

-----------------------------------------------------------------------------
(* List *)

WalkBegin(c) ==
  /\ Begin(c, Request("list", 0, NoEmail), "walking")
  /\ walk' = [walk EXCEPT ![c] = StartWalk({x \in Ids : ~customers[x].deletedAt})]
  /\ UNCHANGED <<customers, copy>>

\* The handler asks for one row more than it shows and the repository for one
\* more than it was asked.
WalkPage(c) ==
  LET fetched == Fetched({x \in Ids : ~customers[x].deletedAt}, walk[c].after, PageSize + 1)
  IN  /\ pc[c] = "walking"
      /\ walk' = [walk EXCEPT ![c] = Turn(@, Shown(fetched, PageSize))]
      /\ Goto(c, IF HasMore(fetched, PageSize) THEN "walking" ELSE "done")
      /\ UNCHANGED <<customers, req, copy, met>>

-----------------------------------------------------------------------------
\* A request is cut off, a statement fails or a process dies.
Abort(c) ==
  /\ Aborts
  /\ c \in Busy
  /\ Goto(c, "failed")
  /\ Release(c)
  /\ UNCHANGED <<customers, req, walk, met>>

Arrive(c) ==
  \/ \E email \in Emails, blind \in BOOLEAN : CreateLookup(c, email, blind)
  \/ \E x \in AllIds, email \in Emails \cup {NoEmail} : UpdateRead(c, x, email)
  \/ \E x \in AllIds, op \in {"suspend", "reactivate"} : StatusRead(c, x, op)
  \/ \E x \in AllIds : DeleteCheck(c, x)
  \/ WalkBegin(c)

Step(c) ==
  \/ CreateInsert(c)
  \/ \E blind \in BOOLEAN : UpdateLookup(c, blind)
  \/ DeleteRead(c)
  \/ Write(c)
  \/ WalkPage(c)

Rest == (\A c \in Calls : pc[c] \in Ended) /\ UNCHANGED vars

Next == (\E c \in Calls : Arrive(c) \/ Step(c) \/ Abort(c)) \/ Rest

Spec == Init /\ [][Next]_vars

-----------------------------------------------------------------------------
(* Properties *)

Row == [email : Emails, status : {"active", "suspended", "deleted"}, deletedAt : BOOLEAN,
        version : Nat, edits : SUBSET Calls, setBy : Calls \cup {0}]

\* The rows and the calls keep their types; of the walks WalkExact says more.
TypeOK ==
  /\ customers \in [AllIds -> {NoRow} \cup Row]
  /\ pc \in [Calls -> {"idle", "create", "lookup", "delete", "write", "walking", "done", "failed"}]
  /\ req \in [Calls -> [op : {"none", "create", "update", "suspend", "reactivate", "delete", "list"},
                        id : AllIds \cup {0}, email : Emails \cup {NoEmail}, blind : BOOLEAN]]
  /\ copy \in [Calls -> {NoRow} \cup Row]
  /\ met \in [Calls -> SUBSET Calls]

Overlapped(c, d) == {c, d} \subseteq Calls /\ (c \in met[d] \/ d \in met[c])
Blind(c) == c \in Calls /\ req[c].blind

\* Two customers have one email only if the calls that gave it to them were under
\* way together, or the lookup of one of them failed: no index enforces it.  A
\* deleted customer keeps its email from others, since deleted_at is never stored.
EmailsDistinct ==
  \A x, y \in Ids :
    x # y /\ customers[x].email = customers[y].email =>
      \/ Blind(customers[x].setBy)
      \/ Blind(customers[y].setBy)
      \/ Overlapped(customers[x].setBy, customers[y].setBy)

\* Every change of a customer that reported success is in its row, however the
\* calls overlap, and is counted in its version.
EditsKept ==
  \A x \in Ids :
    LET changes == {c \in Calls : pc[c] = "done" /\ req[c].id = x
                                   /\ req[c].op \in {"update", "suspend", "reactivate", "delete"}}
    IN  customers[x].edits = changes /\ customers[x].version = 1 + Cardinality(changes)

\* A walk shows no customer twice, and every one that was there when it began,
\* although the repository fetches a row more than the handler asks for.
WalkExact ==
  \A c \in Calls : Exact(walk[c], pc[c] = "done" /\ req[c].op = "list")
=============================================================================

---------------------------- MODULE CustomersProofs ----------------------------
(***************************************************************************)
(* Theorems about Customers for every number of calls, emails and          *)
(* customers that exist at the start.                                      *)
(*                                                                         *)
(* Why two customers with one email need an excuse: a call that looked the *)
(* email up and found it free claims it until it writes.  Whoever gives    *)
(* the email to another customer meanwhile is under way with that call.    *)
(* Why no change is lost: the version of the row a call holds equals that  *)
(* of the table only while the table holds the row the call has read.      *)
(***************************************************************************)
EXTENDS Customers, FiniteLemmas

ChangeOps == {"update", "suspend", "reactivate", "delete"}
Stopped == Ended \cup {"idle"}

Excused(c, d) == Blind(c) \/ Blind(d) \/ Overlapped(c, d)

(* The changes that reported success. *)
ChangesOf(x) == {c \in Calls : pc[c] = "done" /\ req[c].id = x /\ req[c].op \in ChangeOps}

(* A row: its deleted_at is never set, and its edits are counted. *)
RowInv(x) ==
  /\ customers[x] \in Row
  /\ ~customers[x].deletedAt
  /\ customers[x].edits = ChangesOf(x)
  /\ IsFiniteSet(ChangesOf(x))
  /\ customers[x].version = 1 + Cardinality(ChangesOf(x))

(* A row that call c read of customer x and changed: as long as the version is
   the table's, it differs from the table by the change of c. *)
Fresh(c, x) ==
  /\ copy[c] \in Row
  /\ copy[c].version <= customers[x].version
  /\ copy[c].version = customers[x].version =>
       /\ copy[c].edits = customers[x].edits \cup {c}
       /\ copy[c].email # customers[x].email => copy[c].setBy = c
       /\ copy[c].email = customers[x].email => copy[c].setBy = customers[x].setBy

CallInv(c) ==
  /\ pc[c] = "idle" => req[c] = NoRequest /\ met[c] = {} /\ c \notin Ids
  /\ pc[c] = "create" => req[c].op = "create" /\ c \notin Ids /\ req[c].email \in Emails
  /\ pc[c] = "lookup" => /\ ~req[c].blind /\ req[c].op \in ChangeOps
                         /\ Fresh(c, req[c].id) /\ copy[c].email = req[c].email
  /\ pc[c] = "delete" => req[c].op \in ChangeOps
  /\ pc[c] = "write" => req[c].op \in ChangeOps /\ Fresh(c, req[c].id)
  /\ pc[c] = "walking" => req[c].op = "list"
  /\ req[c].op \in ChangeOps => req[c].id \in Ids

(* An email a call found free, and nobody has given away without an excuse. *)
Claims(c, x, email) ==
  \/ pc[c] = "create" /\ x = c /\ email = req[c].email
  \/ /\ pc[c] = "write" /\ x = req[c].id /\ email = copy[c].email
     /\ copy[c].version = customers[x].version
     /\ email # customers[x].email

ClaimInv(c) ==
  \A y \in Ids : \A x \in AllIds :
    x # y /\ Claims(c, x, customers[y].email) => Excused(c, customers[y].setBy)

BusyInv ==
  \A c, d \in Calls : c # d /\ pc[c] \notin Stopped /\ pc[d] \notin Stopped => Overlapped(c, d)

IInv ==
  /\ TypeOK
  /\ \A x \in Ids : RowInv(x)
  /\ \A c \in Calls : CallInv(c)
  /\ \A c \in Calls : ClaimInv(c)
  /\ BusyInv
  /\ EmailsDistinct

-----------------------------------------------------------------------------
LEMMA IdsAreIds == Ids \subseteq AllIds /\ Calls \subseteq AllIds
BY DEF Ids, AllIds

(* Who is there is unchanged when the rows are. *)
LEMMA IdRow == ASSUME TypeOK, NEW x \in Ids PROVE customers[x] \in Row
BY DEF TypeOK, Ids, NoRow

LEMMA InitIInv == Init => IInv
<1> SUFFICES ASSUME Init PROVE IInv
  OBVIOUS
<1>1. Ids = DOMAIN Seeds
  BY DEF Init, Ids, AllIds, NoRow, NewCustomer
<1>2. \A x \in DOMAIN Seeds : customers[x] = NewCustomer(0, Seeds[x]) /\ Seeds[x] \in Emails
  BY SeedsAssumption DEF Init, AllIds
<1>3. \A x \in DOMAIN Seeds : NewCustomer(0, Seeds[x]) \in Row
  BY <1>2 DEF NewCustomer, Row
<1>4. TypeOK
  <2>1. customers \in [AllIds -> {NoRow} \cup Row]
    BY <1>3 DEF Init
  <2>2. QED
    BY <2>1 DEF Init, TypeOK, NoRequest
<1>5. \A x : ChangesOf(x) = {}
  BY DEF Init, ChangesOf
<1>6. \A x \in Ids : RowInv(x)
  <2> SUFFICES ASSUME NEW x \in DOMAIN Seeds PROVE RowInv(x)
    BY <1>1
  <2>0. customers[x] = NewCustomer(0, Seeds[x])
    BY <1>2
  <2>1. customers[x].version = 1 /\ ~customers[x].deletedAt /\ customers[x].edits = {}
    BY <2>0 DEF NewCustomer
  <2>2. QED
    BY <1>2, <1>3, <1>5, <2>1, FS_EmptySet DEF RowInv
<1>7. \A c \in Calls : CallInv(c) /\ ClaimInv(c)
  <2> SUFFICES ASSUME NEW c \in Calls PROVE CallInv(c) /\ ClaimInv(c)
    OBVIOUS
  <2>1. c \notin Ids
    BY <1>1, CallsAssumption
  <2>2. QED
    BY <2>1 DEF Init, CallInv, ClaimInv, Claims, NoRequest, ChangeOps
<1>8. BusyInv
  BY DEF Init, BusyInv, Stopped
<1>9. EmailsDistinct
  <2> SUFFICES ASSUME NEW x \in DOMAIN Seeds, NEW y \in DOMAIN Seeds, customers[x].email = customers[y].email
               PROVE  x = y
    BY <1>1 DEF EmailsDistinct
  <2>0. customers[x] = NewCustomer(0, Seeds[x]) /\ customers[y] = NewCustomer(0, Seeds[y])
    BY <1>2
  <2>1. Seeds[x] = Seeds[y]
    BY <2>0 DEF NewCustomer
  <2>2. QED
    BY <2>1, SeedsAssumption
<1>10. QED
  BY <1>4, <1>6, <1>7, <1>8, <1>9 DEF IInv

-----------------------------------------------------------------------------
(* What a step leaves alone *)

(* Excuses stay. *)
LEMMA ExcuseStays ==
  ASSUME NEW c, NEW d, Excused(c, d),
         \A b \in Calls : (Blind(b) => Blind(b)') /\ met[b] \subseteq met'[b]
  PROVE  Excused(c, d)'
<1>1. CASE Blind(c) \/ Blind(d)
  BY <1>1 DEF Excused, Blind
<1>2. CASE Overlapped(c, d)
  BY <1>2 DEF Excused, Overlapped
<1>3. QED
  BY <1>1, <1>2 DEF Excused

(* A call moves and the rows stay. *)
LEMMA MoveStep ==
  ASSUME IInv, TypeOK', NEW c \in Calls, UNCHANGED customers,
         \A d \in Calls \ {c} :
           pc'[d] = pc[d] /\ req'[d] = req[d] /\ copy'[d] = copy[d] /\ met'[d] = met[d],
         Blind(c) => Blind(c)', met[c] \subseteq met'[c],
         pc'[c] \in Stopped \/ pc[c] \notin Stopped \/ met'[c] = Busy,
         pc[c] # "done", pc'[c] # "done" \/ req'[c].op = "list",
         CallInv(c)', ClaimInv(c)'
  PROVE  IInv'
<1> USE DEF IInv
<1>1. Ids' = Ids
  BY DEF Ids
<1>2. \A b \in Calls : (Blind(b) => Blind(b)') /\ met[b] \subseteq met'[b]
  BY DEF Blind
<1>3. \A x : ChangesOf(x)' = ChangesOf(x)
  BY DEF ChangesOf, ChangeOps
<1>4. \A x \in Ids' : RowInv(x)'
  BY <1>1, <1>3 DEF RowInv
<1>5. ASSUME NEW d \in Calls, d # c
      PROVE  CallInv(d)'
  BY <1>1, <1>5 DEF CallInv, Fresh
<1>6. ASSUME NEW d \in Calls, d # c
      PROVE  ClaimInv(d)'
  <2> SUFFICES ASSUME NEW y \in Ids, NEW x \in AllIds, x # y, Claims(d, x, customers[y].email)'
               PROVE  Excused(d, customers[y].setBy)'
    BY <1>1 DEF ClaimInv
  <2>1. Claims(d, x, customers[y].email)
    BY <1>6 DEF Claims
  <2>2. Excused(d, customers[y].setBy)
    BY <2>1 DEF ClaimInv
  <2>3. Excused(d, customers[y].setBy)'
    BY <1>2, <2>2, ExcuseStays
  <2>4. QED
    BY <2>3
<1>7. BusyInv'
  <2> SUFFICES ASSUME NEW a \in Calls, NEW b \in Calls, a # b, pc'[a] \notin Stopped, pc'[b] \notin Stopped
               PROVE  Overlapped(a, b)'
    BY DEF BusyInv, Stopped
  <2>1. CASE pc[a] \notin Stopped /\ pc[b] \notin Stopped
    BY <1>2, <2>1 DEF BusyInv, Overlapped
  <2>2. CASE ~(pc[a] \notin Stopped /\ pc[b] \notin Stopped)
    <3>1. \/ a = c /\ pc[b] \notin Stopped /\ met'[a] = Busy
          \/ b = c /\ pc[a] \notin Stopped /\ met'[b] = Busy
      BY <2>2
    <3>2. QED
      BY <3>1 DEF Overlapped, Busy, Stopped
  <2>3. QED
    BY <2>1, <2>2
<1>8. EmailsDistinct'
  <2> SUFFICES ASSUME NEW x \in Ids, NEW y \in Ids, x # y, customers[x].email = customers[y].email
               PROVE  Excused(customers[x].setBy, customers[y].setBy)'
    BY <1>1 DEF EmailsDistinct, Excused
  <2>1. Excused(customers[x].setBy, customers[y].setBy)
    BY DEF EmailsDistinct, Excused
  <2>2. QED
    BY <1>2, <2>1, ExcuseStays DEF Excused, Blind, Overlapped
<1>9. QED
  BY <1>4, <1>5, <1>6, <1>7, <1>8

(* A call writes row x and is done.  It gives an email to x only if it claims it;
   it replaces a row only by a later version. *)
LEMMA RowStep ==
  ASSUME IInv, TypeOK', NEW c \in Calls, NEW x \in AllIds, NEW row \in Row,
         pc[c] \notin Stopped, pc'[c] = "done", UNCHANGED <<req, met>>,
         \A d \in Calls \ {c} : pc'[d] = pc[d] /\ copy'[d] = copy[d],
         customers' = [customers EXCEPT ![x] = row], RowInv(x)',
         \A y \in Ids \ {x} : ChangesOf(y)' = ChangesOf(y),
         x \in Ids => row.version > customers[x].version,
         x \notin Ids => x = c,
         \/ x \in Ids /\ row.email = customers[x].email /\ row.setBy = customers[x].setBy
         \/ row.setBy = c /\ Claims(c, x, row.email)
  PROVE  IInv'
<1> USE DEF IInv
<1>1. customers'[x] = row /\ \A y \in AllIds \ {x} : customers'[y] = customers[y]
  BY DEF TypeOK
<1>2. Ids' = Ids \cup {x}
  BY <1>1 DEF Ids, Row
<1>3. \A b \in Calls : (Blind(b) => Blind(b)') /\ met[b] \subseteq met'[b]
  BY DEF Blind
<1>4. \A a, b : Excused(a, b) => Excused(a, b)'
  BY <1>3, ExcuseStays
<1>5. \A y \in Ids' : RowInv(y)'
  <2> SUFFICES ASSUME NEW y \in Ids, y # x PROVE RowInv(y)'
    BY <1>2
  <2>1. customers'[y] = customers[y] /\ RowInv(y) /\ ChangesOf(y)' = ChangesOf(y)
    BY <1>1, IdsAreIds
  <2>2. QED
    BY <2>1 DEF RowInv
<1>6. \A d \in Calls : CallInv(d)'
  <2>1. CallInv(c)'
    BY <1>2 DEF CallInv
  <2>2. ASSUME NEW d \in Calls, d # c
        PROVE  CallInv(d)'
    <3>1. ASSUME Fresh(d, req[d].id), req[d].id \in Ids
          PROVE  Fresh(d, req[d].id)'
      <4>1. CASE req[d].id = x
        <5>1. copy'[d] = copy[d] /\ req'[d] = req[d] /\ copy[d].version < row.version /\ copy[d].version # row.version
          BY <2>2, <3>1, <4>1, IdRow DEF Fresh, Row
        <5>2. QED
          BY <1>1, <3>1, <4>1, <5>1 DEF Fresh, Row
      <4>2. CASE req[d].id # x
        BY <1>1, <2>2, <3>1, <4>2, IdsAreIds DEF Fresh
      <4>3. QED
        BY <4>1, <4>2
    <3>2. d \notin Ids => d \notin Ids'
      BY <1>2, <2>2
    <3>3. QED
      BY <1>2, <2>2, <3>1, <3>2 DEF CallInv
  <2>3. QED
    BY <2>1, <2>2
(* Another call with a claim was under way together with c. *)
<1>7. ASSUME NEW d \in Calls, d # c
      PROVE  ClaimInv(d)'
  <2> SUFFICES ASSUME NEW y \in Ids', NEW z \in AllIds, z # y, Claims(d, z, customers[y].email)'
               PROVE  Excused(d, customers[y].setBy)'
    BY DEF ClaimInv
  <2>0. pc[d] \notin Stopped
    BY <1>7 DEF Claims, Stopped, Ended
  <2>1. CASE y = x /\ row.setBy = c
    <3>1. Excused(d, c)
      BY <1>7, <2>0 DEF BusyInv, Excused
    <3>2. customers'[y].setBy = c
      BY <1>1, <2>1
    <3>3. Excused(d, c)'
      BY <1>4, <3>1
    <3>4. QED
      BY <3>2, <3>3 DEF Excused, Blind, Overlapped
  <2>2. CASE y # x \/ row.setBy # c
    <3>1. y \in Ids /\ customers'[y].email = customers[y].email /\ customers'[y].setBy = customers[y].setBy
      BY <1>1, <1>2, <2>2, IdsAreIds
    <3>2. Claims(d, z, customers[y].email)
      <4>1. CASE pc[d] = "create"
        BY <1>7, <3>1, <4>1 DEF Claims
      <4>2. CASE pc[d] = "write"
        <5>1. z = req[d].id /\ z \in Ids /\ copy'[d] = copy[d] /\ copy[d].version = customers'[z].version
          BY <1>7, <4>2 DEF Claims, CallInv
        <5>2. z # x
          <6> SUFFICES ASSUME z = x PROVE FALSE
            OBVIOUS
          <6>1. Fresh(d, x) /\ customers[x] \in Row /\ x \in Ids
            BY <4>2, <5>1, IdRow DEF CallInv
          <6>2. copy[d].version = row.version /\ row.version > customers[x].version
            BY <1>1, <5>1, <6>1
          <6>3. copy[d].version <= customers[x].version /\ customers[x].version \in Nat /\ row.version \in Nat
            BY <6>1 DEF Fresh, Row
          <6>4. QED
            BY <6>2, <6>3
        <5>3. customers'[z] = customers[z]
          BY <1>1, <5>2
        <5>4. QED
          BY <1>7, <3>1, <4>2, <5>1, <5>3 DEF Claims
      <4>3. QED
        BY <1>7, <4>1, <4>2 DEF Claims
    <3>3. Excused(d, customers[y].setBy)
      BY <3>1, <3>2 DEF ClaimInv
    <3>4. QED
      BY <1>4, <3>1, <3>3 DEF Excused, Blind, Overlapped
  <2>3. QED
    BY <2>1, <2>2
<1>8. ClaimInv(c)'
  BY DEF ClaimInv, Claims
<1>9. BusyInv'
  BY <1>3 DEF BusyInv, Overlapped, Stopped, Ended
<1>10. EmailsDistinct'
  <2>1. ASSUME NEW y \in Ids, NEW z \in Ids, y # z, customers[y].email = customers[z].email
        PROVE  Excused(customers[y].setBy, customers[z].setBy)
    BY <2>1 DEF EmailsDistinct, Excused
  <2>2. ASSUME NEW y \in Ids, y # x, customers[y].email = row.email
        PROVE  Excused(row.setBy, customers[y].setBy)
    <3>1. CASE x \in Ids /\ row.email = customers[x].email /\ row.setBy = customers[x].setBy
      BY <2>1, <2>2, <3>1
    <3>2. CASE row.setBy = c /\ Claims(c, x, row.email)
      BY <2>2, <3>2 DEF ClaimInv
    <3>3. QED
      BY <3>1, <3>2
  <2>3. \A a, b : Excused(a, b) => Excused(b, a)
    BY DEF Excused, Overlapped
  <2>4. ASSUME NEW y \in Ids', NEW z \in Ids', y # z, customers'[y].email = customers'[z].email
        PROVE  Excused(customers'[y].setBy, customers'[z].setBy)
    <3>1. CASE y # x /\ z # x
      BY <1>1, <1>2, <2>1, <2>4, <3>1, IdsAreIds
    <3>2. CASE y = x
      BY <1>1, <1>2, <2>2, <2>4, <3>2, IdsAreIds
    <3>3. CASE z = x
      BY <1>1, <1>2, <2>2, <2>3, <2>4, <3>3, IdsAreIds
    <3>4. QED
      BY <3>1, <3>2, <3>3
  <2>5. \A a, b : Excused(a, b) => Blind(a)' \/ Blind(b)' \/ Overlapped(a, b)'
    BY <1>4 DEF Excused, Blind, Overlapped
  <2>6. QED
    BY <2>4, <2>5 DEF EmailsDistinct
<1>11. QED
  BY <1>5, <1>6, <1>7, <1>8, <1>9, <1>10

-----------------------------------------------------------------------------
(* The first step of a call *)

RequestRow ==
  [op : {"none", "create", "update", "suspend", "reactivate", "delete", "list"},
   id : AllIds \cup {0}, email : Emails \cup {NoEmail}, blind : BOOLEAN]
Stages == {"create", "lookup", "delete", "write", "walking", "failed"}

LEMMA BeginStep ==
  ASSUME IInv, NEW c \in Calls, NEW r \in RequestRow, NEW l \in Stages, Begin(c, r, l),
         UNCHANGED customers, copy' \in [Calls -> {NoRow} \cup Row],
         \A d \in Calls \ {c} : copy'[d] = copy[d],
         r.op \in ChangeOps => r.id \in Ids,
         l = "create" => /\ r.op = "create" /\ r.email \in Emails
                         /\ r.blind \/ Holders(r.email) = {},
         l = "lookup" => /\ ~r.blind /\ r.op \in ChangeOps
                         /\ copy'[c].email = r.email,
         l = "delete" => r.op \in ChangeOps,
         l = "write" => r.op \in ChangeOps /\ copy'[c].email = customers[r.id].email,
         l = "walking" => r.op = "list",
         l \in {"lookup", "write"} => Fresh(c, r.id)'
  PROVE  IInv'
<1> USE DEF IInv
<1>1. /\ pc[c] = "idle" /\ c \notin Ids /\ req[c] = NoRequest /\ met[c] = {}
      /\ pc'[c] = l /\ req'[c] = r /\ met'[c] = Busy
      /\ \A d \in Calls \ {c} : pc'[d] = pc[d] /\ req'[d] = req[d] /\ met'[d] = met[d]
  BY DEF Begin, Goto, TypeOK, CallInv
<1>2. TypeOK'
  BY DEF Begin, Goto, TypeOK, RequestRow, Busy, Stages
<1>3. Ids' = Ids
  BY DEF Ids
<1>4. CallInv(c)'
  BY <1>1, <1>3 DEF CallInv, Stages
<1>5. ClaimInv(c)'
  <2> SUFFICES ASSUME NEW y \in Ids, NEW x \in AllIds, x # y, Claims(c, x, customers[y].email)'
               PROVE  Excused(c, customers[y].setBy)'
    BY <1>3 DEF ClaimInv
  <2>1. CASE l = "create"
    <3>1. r.email = customers[y].email
      BY <1>1, <2>1 DEF Claims
    <3>2. y \in Holders(r.email)
      BY <3>1 DEF Holders, RowInv
    <3>3. QED
      BY <1>1, <2>1, <3>2 DEF Excused, Blind
  <2>2. CASE l = "write"
    BY <1>1, <2>2 DEF Claims
  <2>3. QED
    BY <1>1, <2>1, <2>2 DEF Claims
<1>6. Blind(c) => Blind(c)'
  BY <1>1 DEF Blind, NoRequest
<1>7. QED
  BY <1>1, <1>2, <1>4, <1>5, <1>6, MoveStep DEF Stages

LEMMA CreateLookupStep ==
  ASSUME IInv, NEW c \in Calls, NEW email \in Emails, NEW blind \in BOOLEAN,
         CreateLookup(c, email, blind)
  PROVE  IInv'
<1> USE DEF IInv
<1> DEFINE r == Request("create", c, email)
           rb == [r EXCEPT !.blind = blind]
<1>1. /\ r \in RequestRow /\ r.op = "create" /\ r.email = email
      /\ rb \in RequestRow /\ rb.op = "create" /\ rb.email = email /\ rb.blind = blind
  BY IdsAreIds DEF Request, RequestRow
<1>2. UNCHANGED <<customers, copy>> /\ copy \in [Calls -> {NoRow} \cup Row]
  BY DEF CreateLookup, TypeOK
<1>3. 0 \notin Ids
  BY CallsAssumption DEF Ids, AllIds
<1>4. Free(email, 0, blind) => blind \/ Holders(email) = {}
  BY <1>3 DEF Free, Holders
<1>5. \/ Free(email, 0, blind) /\ Begin(c, rb, "create")
      \/ Begin(c, r, "failed")
  BY DEF CreateLookup
<1> HIDE DEF r, rb
<1>6. CASE Free(email, 0, blind) /\ Begin(c, rb, "create")
  BY <1>1, <1>2, <1>4, <1>6, BeginStep DEF Stages, ChangeOps
<1>7. CASE Begin(c, r, "failed")
  BY <1>1, <1>2, <1>7, BeginStep DEF Stages, ChangeOps
<1>8. QED
  BY <1>5, <1>6, <1>7

(* A read of a row that is held to be changed. *)
LEMMA ReadStep ==
  ASSUME IInv, NEW c \in Calls, NEW x \in Ids, NEW r \in RequestRow, NEW l \in {"lookup", "write", "failed"},
         NEW row, NEW ok, ok \/ l = "failed", Begin(c, r, l), Hold(c, ok, row), UNCHANGED customers,
         ok => row \in Row, r.op \in ChangeOps, ~r.blind, r.id = x,
         row.version = customers[x].version, row.edits = customers[x].edits \cup {c},
         l = "lookup" => row.email = r.email /\ row.email # customers[x].email /\ row.setBy = c,
         l = "write" => row.email = customers[x].email /\ row.setBy = customers[x].setBy
  PROVE  IInv'
<1>1. /\ copy' \in [Calls -> {NoRow} \cup Row]
      /\ \A d \in Calls \ {c} : copy'[d] = copy[d]
      /\ l # "failed" => copy'[c] = row /\ row \in Row
  BY DEF IInv, TypeOK, Hold
<1>2. l # "failed" => Fresh(c, x)'
  BY <1>1 DEF Fresh, Row
<1>3. QED
  BY <1>1, <1>2, BeginStep DEF Stages

LEMMA UpdateReadStep ==
  ASSUME IInv, NEW c \in Calls, NEW x \in AllIds, NEW email \in Emails \cup {NoEmail},
         UpdateRead(c, x, email)
  PROVE  IInv'
<1> DEFINE old == customers[x]
           ok == old.status \in {"active", "suspended"}
           new == email # NoEmail /\ email # old.email
           row == Changed(IF new THEN [old EXCEPT !.email = email, !.setBy = c] ELSE old, c)
           r == Request("update", x, email)
           l == IF ~ok THEN "failed" ELSE IF new THEN "lookup" ELSE "write"
<1>1. x \in Ids /\ old \in Row
  BY IdRow DEF UpdateRead, IInv
<1>2. r \in RequestRow /\ r.op \in ChangeOps /\ ~r.blind /\ r.id = x /\ r.email = email
  BY DEF Request, RequestRow, ChangeOps
<1>3. Begin(c, r, l) /\ Hold(c, ok, row) /\ UNCHANGED customers
  BY DEF UpdateRead
<1>4. /\ row \in Row /\ row.version = customers[x].version /\ row.edits = customers[x].edits \cup {c}
      /\ new => row.email = email /\ row.email # customers[x].email /\ row.setBy = c
      /\ ~new => row.email = customers[x].email /\ row.setBy = customers[x].setBy
  <2>1. CASE new
    <3>1. row = [old EXCEPT !.email = email, !.setBy = c, !.edits = old.edits \cup {c}]
      BY <1>1, <2>1 DEF Changed, Row
    <3>2. email \in Emails /\ old.edits \cup {c} \in SUBSET Calls
      BY <1>1, <2>1 DEF Row
    <3>3. row \in Row
      BY <1>1, <3>1, <3>2 DEF Row
    <3>4. /\ row.version = old.version /\ row.edits = old.edits \cup {c}
          /\ row.email = email /\ row.email # old.email /\ row.setBy = c
      BY <1>1, <2>1, <3>1 DEF Row
    <3>5. QED
      BY <2>1, <3>3, <3>4
  <2>2. CASE ~new
    <3>1. row = [old EXCEPT !.edits = old.edits \cup {c}]
      BY <2>2 DEF Changed
    <3>2. QED
      BY <1>1, <2>2, <3>1 DEF Row
  <2>3. QED
    BY <2>1, <2>2
<1>5. /\ l \in {"lookup", "write", "failed"} /\ (ok \/ l = "failed")
      /\ l = "lookup" => new
      /\ l = "write" => ~new
  OBVIOUS
<1> HIDE DEF old, ok, new, row, r, l
<1>6. QED
  BY <1>1, <1>2, <1>3, <1>4, <1>5, ReadStep

LEMMA StatusReadStep ==
  ASSUME IInv, NEW c \in Calls, NEW x \in AllIds, NEW op \in {"suspend", "reactivate"}, StatusRead(c, x, op)
  PROVE  IInv'
<1> DEFINE old == customers[x]
           ok == old.status = IF op = "suspend" THEN "active" ELSE "suspended"
           row == Changed([old EXCEPT !.status = IF op = "suspend" THEN "suspended" ELSE "active"], c)
           r == Request(op, x, NoEmail)
           l == IF ok THEN "write" ELSE "failed"
<1>1. x \in Ids /\ old \in Row
  BY IdRow DEF StatusRead, IInv
<1>2. r \in RequestRow /\ r.op \in ChangeOps /\ ~r.blind /\ r.id = x
  BY DEF Request, RequestRow, ChangeOps
<1>3. Begin(c, r, l) /\ Hold(c, ok, row) /\ UNCHANGED customers
  BY DEF StatusRead
<1>4. /\ row \in Row /\ row.version = customers[x].version /\ row.edits = customers[x].edits \cup {c}
      /\ row.email = customers[x].email /\ row.setBy = customers[x].setBy
  <2>1. row = [old EXCEPT !.status = IF op = "suspend" THEN "suspended" ELSE "active",
                          !.edits = old.edits \cup {c}]
    BY <1>1 DEF Changed, Row
  <2>2. old.edits \cup {c} \in SUBSET Calls
    BY <1>1 DEF Row
  <2>3. row \in Row
    BY <1>1, <2>1, <2>2 DEF Row
  <2>4. /\ row.version = old.version /\ row.edits = old.edits \cup {c}
        /\ row.email = old.email /\ row.setBy = old.setBy
    BY <1>1, <2>1 DEF Row
  <2>5. QED
    BY <2>3, <2>4
<1>5. l \in {"lookup", "write", "failed"} /\ l # "lookup" /\ (ok \/ l = "failed")
  OBVIOUS
<1> HIDE DEF old, ok, row, r, l
<1>6. QED
  BY <1>1, <1>2, <1>3, <1>4, <1>5, ReadStep

LEMMA DeleteCheckStep ==
  ASSUME IInv, NEW c \in Calls, NEW x \in AllIds, DeleteCheck(c, x)
  PROVE  IInv'
<1> DEFINE r == Request("delete", x, NoEmail)
<1>1. PICK hasActive \in BOOLEAN : Begin(c, r, IF hasActive THEN "failed" ELSE "delete")
  BY DEF DeleteCheck
<1>2. r \in RequestRow /\ r.op \in ChangeOps /\ r.id = x
  BY DEF Request, RequestRow, ChangeOps
<1>3. x \in Ids /\ UNCHANGED <<customers, copy>> /\ copy \in [Calls -> {NoRow} \cup Row]
  BY DEF DeleteCheck, IInv, TypeOK
<1> HIDE DEF r
<1>4. PICK l \in {"failed", "delete"} : Begin(c, r, l)
  BY <1>1
<1>5. QED
  BY <1>2, <1>3, <1>4, BeginStep DEF Stages

LEMMA WalkBeginStep ==
  ASSUME IInv, NEW c \in Calls, WalkBegin(c)
  PROVE  IInv'
<1> DEFINE r == Request("list", 0, NoEmail)
<1>1. r \in RequestRow /\ r.op = "list"
  BY DEF Request, RequestRow
<1>2. Begin(c, r, "walking") /\ UNCHANGED <<customers, copy>> /\ copy \in [Calls -> {NoRow} \cup Row]
  BY DEF WalkBegin, IInv, TypeOK
<1> HIDE DEF r
<1>3. QED
  BY <1>1, <1>2, BeginStep DEF Stages, ChangeOps

-----------------------------------------------------------------------------
(* The later steps *)

(* A call that is cut off, is refused, or turns a page. *)
LEMMA QuietStep ==
  ASSUME IInv, NEW c \in Calls, NEW l \in {"failed", "walking", "done"},
         pc[c] \notin Stopped, pc' = [pc EXCEPT ![c] = l], UNCHANGED <<customers, met>>,
         l # "failed" => req[c].op = "list",
         copy' \in [Calls -> {NoRow} \cup Row], req' \in [Calls -> RequestRow],
         \A d \in Calls \ {c} : copy'[d] = copy[d] /\ req'[d] = req[d],
         req'[c].op = req[c].op, req'[c].id = req[c].id, Blind(c) => Blind(c)'
  PROVE  IInv'
<1>1. pc'[c] = l /\ \A d \in Calls \ {c} : pc'[d] = pc[d]
  BY DEF IInv, TypeOK
<1>2. TypeOK'
  BY DEF IInv, TypeOK, RequestRow
<1>3. Ids' = Ids
  BY DEF Ids
<1>4. CallInv(c)'
  BY <1>1, <1>3 DEF IInv, CallInv
<1>5. ClaimInv(c)'
  BY <1>1 DEF ClaimInv, Claims
<1>6. QED
  BY <1>1, <1>2, <1>4, <1>5, MoveStep DEF Stopped, Ended

(* The lookup: an email that is free is claimed from now on. *)
LEMMA UpdateLookupStep ==
  ASSUME IInv, NEW c \in Calls, NEW blind \in BOOLEAN, UpdateLookup(c, blind)
  PROVE  IInv'
<1> USE DEF IInv
<1>1. PICK x : x = req[c].id
  OBVIOUS
<1>2. /\ pc[c] = "lookup" /\ ~req[c].blind /\ req[c].op \in ChangeOps
      /\ Fresh(c, x) /\ copy[c].email = req[c].email /\ x \in Ids
  BY <1>1 DEF UpdateLookup, CallInv
<1>3. /\ req' = [req EXCEPT ![c].blind = blind] /\ UNCHANGED <<customers, met>>
      /\ req' \in [Calls -> RequestRow]
      /\ req'[c].op = req[c].op /\ req'[c].id = req[c].id /\ req'[c].blind = blind
      /\ \A d \in Calls \ {c} : req'[d] = req[d]
  BY DEF UpdateLookup, TypeOK, RequestRow
<1>4. ~Blind(c) /\ pc[c] \notin Stopped
  BY <1>2 DEF Blind, Stopped, Ended
<1>5. CASE Free(req[c].email, x, blind) /\ pc' = [pc EXCEPT ![c] = "write"] /\ UNCHANGED copy
  <2>1. pc'[c] = "write" /\ \A d \in Calls \ {c} : pc'[d] = pc[d]
    BY <1>5 DEF TypeOK
  <2>2. TypeOK'
    BY <1>3, <1>5 DEF TypeOK, RequestRow
  <2>3. Ids' = Ids
    BY <1>3 DEF Ids
  <2>4. CallInv(c)'
    BY <1>1, <1>2, <1>3, <1>5, <2>1, <2>3 DEF CallInv, Fresh
  <2>5. ClaimInv(c)'
    <3> SUFFICES ASSUME NEW y \in Ids, NEW z \in AllIds, z # y, Claims(c, z, customers[y].email)'
                 PROVE  Excused(c, customers[y].setBy)'
      BY <2>3 DEF ClaimInv
    <3>1. /\ z = x /\ customers[y].email = req[c].email /\ customers[x].email # req[c].email
      BY <1>1, <1>2, <1>3, <1>5, <2>1 DEF Claims
    <3>2. x \notin Holders(req[c].email) /\ y \in Holders(req[c].email)
      BY <3>1 DEF Holders, RowInv
    <3>3. blind
      BY <1>5, <3>2 DEF Free
    <3>4. QED
      BY <1>3, <3>3 DEF Excused, Blind
  <2>6. QED
    BY <1>3, <1>4, <1>5, <2>1, <2>2, <2>4, <2>5, MoveStep DEF Stopped, Ended
<1>6. CASE pc' = [pc EXCEPT ![c] = "failed"] /\ Release(c)
  <2>1. copy' \in [Calls -> {NoRow} \cup Row] /\ \A d \in Calls \ {c} : copy'[d] = copy[d]
    BY <1>6 DEF Release, TypeOK
  <2>2. QED
    BY <1>3, <1>4, <1>6, <2>1, QuietStep
<1>7. QED
  BY <1>1, <1>5, <1>6 DEF UpdateLookup, Goto

LEMMA DeleteReadStep ==
  ASSUME IInv, NEW c \in Calls, DeleteRead(c)
  PROVE  IInv'
<1> USE DEF IInv
<1>1. PICK x : x = req[c].id
  OBVIOUS
<1>2. pc[c] = "delete" /\ req[c].op \in ChangeOps /\ x \in Ids /\ customers[x] \in Row
  BY <1>1, IdRow DEF DeleteRead, CallInv
<1> DEFINE old == customers[x]
           row == Changed([old EXCEPT !.status = "deleted", !.deletedAt = TRUE], c)
           ok == old.status # "deleted"
<1>3. UNCHANGED <<customers, req, met>> /\ Hold(c, ok, row)
      /\ pc' = [pc EXCEPT ![c] = IF ok THEN "write" ELSE "failed"]
  BY <1>1 DEF DeleteRead, Goto
<1>4. /\ row \in Row /\ row.version = old.version /\ row.edits = old.edits \cup {c}
      /\ row.email = old.email /\ row.setBy = old.setBy
  <2>1. row = [old EXCEPT !.status = "deleted", !.deletedAt = TRUE, !.edits = old.edits \cup {c}]
    BY <1>2 DEF Changed, Row
  <2>2. old.edits \cup {c} \in SUBSET Calls
    BY <1>2 DEF Row
  <2>3. row \in Row
    BY <1>2, <2>1, <2>2 DEF Row
  <2>4. /\ row.version = old.version /\ row.edits = old.edits \cup {c}
        /\ row.email = old.email /\ row.setBy = old.setBy
    BY <1>2, <2>1 DEF Row
  <2>5. QED
    BY <2>3, <2>4
<1> HIDE DEF row, ok
<1>5. /\ copy' \in [Calls -> {NoRow} \cup Row] /\ (ok => copy'[c] = row)
      /\ \A d \in Calls \ {c} : copy'[d] = copy[d]
  BY <1>3, <1>4 DEF Hold, TypeOK
<1>6. pc[c] \notin Stopped /\ Ids' = Ids
  BY <1>2, <1>3 DEF Stopped, Ended, Ids
<1>7. CASE ~ok
  BY <1>3, <1>5, <1>6, <1>7, QuietStep DEF Blind, TypeOK, RequestRow
<1>8. CASE ok
  <2>1. pc'[c] = "write" /\ \A d \in Calls \ {c} : pc'[d] = pc[d]
    BY <1>3, <1>8 DEF TypeOK
  <2>2. TypeOK'
    BY <1>3, <1>5, <1>8 DEF TypeOK
  <2>3. Fresh(c, x)'
    BY <1>2, <1>3, <1>4, <1>5, <1>8 DEF Fresh, Row
  <2>4. CallInv(c)'
    BY <1>1, <1>2, <1>3, <1>6, <2>1, <2>3 DEF CallInv, Fresh
  <2>5. ClaimInv(c)'
    BY <1>1, <1>3, <1>4, <1>5, <1>8, <2>1 DEF ClaimInv, Claims
  <2>6. Blind(c) => Blind(c)'
    BY <1>3 DEF Blind
  <2>7. QED
    BY <1>3, <1>5, <1>6, <2>1, <2>2, <2>4, <2>5, <2>6, MoveStep DEF Stopped, Ended
<1>9. QED
  BY <1>7, <1>8

LEMMA CreateInsertStep ==
  ASSUME IInv, NEW c \in Calls, CreateInsert(c)
  PROVE  IInv'
<1> USE DEF IInv
<1> DEFINE row == NewCustomer(c, req[c].email)
<1>1. /\ pc[c] = "create" /\ req[c].op = "create" /\ c \notin Ids /\ req[c].email \in Emails
      /\ c \in AllIds
  BY IdsAreIds DEF CreateInsert, CallInv
<1>2. /\ row \in Row /\ row.version = 1 /\ row.edits = {} /\ ~row.deletedAt
      /\ row.email = req[c].email /\ row.setBy = c
  BY <1>1 DEF NewCustomer, Row
<1>3. /\ customers' = [customers EXCEPT ![c] = row]
      /\ pc' = [pc EXCEPT ![c] = "done"]
      /\ UNCHANGED <<req, copy, met>>
  BY DEF CreateInsert, Goto
<1> HIDE DEF row
<1>4. customers'[c] = row /\ pc'[c] = "done" /\ \A d \in Calls \ {c} : pc'[d] = pc[d]
  BY <1>1, <1>3 DEF TypeOK
<1>5. TypeOK'
  BY <1>2, <1>3 DEF TypeOK
<1>6. \A y : ChangesOf(y)' = ChangesOf(y)
  BY <1>1, <1>3, <1>4 DEF ChangesOf, ChangeOps
<1>7. ChangesOf(c) = {}
  BY <1>1 DEF ChangesOf, CallInv
<1>8. RowInv(c)'
  <2>1. ChangesOf(c)' = {} /\ IsFiniteSet({}) /\ Cardinality({}) = 0
    BY <1>6, <1>7, FS_EmptySet
  <2>2. QED
    BY <1>2, <1>4, <2>1 DEF RowInv
<1>9. Claims(c, c, row.email)
  BY <1>1, <1>2 DEF Claims
<1>10. pc[c] \notin Stopped
  BY <1>1 DEF Stopped, Ended
<1>11. QED
  BY <1>1, <1>2, <1>3, <1>4, <1>5, <1>6, <1>8, <1>9, <1>10, RowStep

(* The statement with the version in its WHERE clause. *)
LEMMA WriteStep ==
  ASSUME IInv, NEW c \in Calls, Write(c)
  PROVE  IInv'
<1> USE DEF IInv
<1>1. PICK x : x = req[c].id
  OBVIOUS
<1>2. /\ pc[c] = "write" /\ req[c].op \in ChangeOps /\ Fresh(c, x) /\ x \in Ids /\ x \in AllIds
      /\ customers[x] \in Row /\ copy[c] \in Row /\ pc[c] \notin Stopped
  BY <1>1, IdRow, IdsAreIds DEF Write, CallInv, Fresh, Stopped, Ended
<1>3. /\ UNCHANGED <<req, met>>
      /\ copy' \in [Calls -> {NoRow} \cup Row] /\ \A d \in Calls \ {c} : copy'[d] = copy[d]
  BY DEF Write, Release, TypeOK
<1>4. CASE customers[x].version # copy[c].version
  <2>1. pc' = [pc EXCEPT ![c] = "failed"] /\ UNCHANGED customers
    BY <1>1, <1>4 DEF Write, Goto
  <2>2. QED
    BY <1>2, <1>3, <2>1, QuietStep DEF Blind, TypeOK, RequestRow
<1>5. CASE customers[x].version = copy[c].version
  <2> DEFINE row == [copy[c] EXCEPT !.deletedAt = customers[x].deletedAt, !.version = copy[c].version + 1]
  <2>1. customers' = [customers EXCEPT ![x] = row] /\ pc' = [pc EXCEPT ![c] = "done"]
    BY <1>1, <1>2, <1>5 DEF Write, Goto, Row
  <2>2. /\ row \in Row /\ ~row.deletedAt /\ row.version = customers[x].version + 1
        /\ row.edits = customers[x].edits \cup {c}
        /\ row.email = copy[c].email /\ row.setBy = copy[c].setBy
    <3>1. /\ copy[c].edits = customers[x].edits \cup {c}
          /\ customers[x].deletedAt = FALSE
      <4>1. RowInv(x)
        BY <1>2
      <4>2. customers[x].deletedAt \in BOOLEAN /\ ~customers[x].deletedAt
        BY <1>2, <4>1 DEF RowInv, Row
      <4>3. QED
        BY <1>2, <1>5, <4>2 DEF Fresh
    <3>2. /\ row \in Row /\ row.deletedAt = customers[x].deletedAt /\ row.version = copy[c].version + 1
          /\ row.edits = copy[c].edits /\ row.email = copy[c].email /\ row.setBy = copy[c].setBy
      <4>1. /\ copy[c] \in Row /\ customers[x].deletedAt \in BOOLEAN
            /\ copy[c].version \in Nat /\ copy[c].version + 1 \in Nat
        BY <1>2 DEF Row
      <4>2. row \in Row
        BY <4>1 DEF Row
      <4>3. row.deletedAt = customers[x].deletedAt /\ row.version = copy[c].version + 1
        BY <4>1 DEF Row
      <4>4. row.edits = copy[c].edits /\ row.email = copy[c].email /\ row.setBy = copy[c].setBy
        BY <4>1 DEF Row
      <4>5. QED
        BY <4>2, <4>3, <4>4
    <3> HIDE DEF row
    <3>3. QED
      BY <1>5, <3>1, <3>2
  <2> HIDE DEF row
  <2>3. /\ customers'[x] = row /\ pc'[c] = "done"
        /\ \A d \in Calls \ {c} : pc'[d] = pc[d]
    BY <1>2, <2>1 DEF TypeOK
  <2>4. TypeOK'
    BY <1>3, <2>1, <2>2 DEF TypeOK
  <2>5. /\ ChangesOf(x)' = ChangesOf(x) \cup {c} /\ c \notin ChangesOf(x)
        /\ \A y \in Ids \ {x} : ChangesOf(y)' = ChangesOf(y)
    BY <1>1, <1>2, <1>3, <2>3 DEF ChangesOf
  <2>6. /\ IsFiniteSet(ChangesOf(x) \cup {c})
        /\ Cardinality(ChangesOf(x) \cup {c}) = Cardinality(ChangesOf(x)) + 1
        /\ Cardinality(ChangesOf(x)) \in Nat
    BY <1>2, <2>5, FS_AddElement, FS_CardinalityType DEF RowInv
  <2>7. RowInv(x)'
    <3>1. RowInv(x)
      BY <1>2
    <3>2. customers'[x].edits = ChangesOf(x)'
      BY <2>2, <2>3, <2>5, <3>1 DEF RowInv
    <3>3. customers'[x].version = 1 + Cardinality(ChangesOf(x)')
      BY <2>2, <2>3, <2>5, <2>6, <3>1 DEF RowInv
    <3>4. QED
      BY <2>2, <2>3, <2>5, <2>6, <3>2, <3>3 DEF RowInv
  <2>8. row.version > customers[x].version
    BY <1>2, <2>2 DEF Row
  <2>9. \/ row.email = customers[x].email /\ row.setBy = customers[x].setBy
        \/ row.setBy = c /\ Claims(c, x, row.email)
    BY <1>1, <1>2, <1>5, <2>2 DEF Fresh, Claims
  <2>10. QED
    BY <1>2, <1>3, <2>1, <2>2, <2>3, <2>4, <2>5, <2>7, <2>8, <2>9, RowStep
<1>6. QED
  BY <1>4, <1>5

LEMMA StepIInv == IInv /\ [Next]_vars => IInv'
<1> SUFFICES ASSUME IInv, [Next]_vars PROVE IInv'
  OBVIOUS
<1>0. copy \in [Calls -> {NoRow} \cup Row] /\ req \in [Calls -> RequestRow]
  BY DEF IInv, TypeOK, RequestRow
<1>1. ASSUME NEW c \in Calls, Arrive(c)
      PROVE  IInv'
  BY <1>1, CreateLookupStep, UpdateReadStep, StatusReadStep, DeleteCheckStep, WalkBeginStep DEF Arrive
<1>2. ASSUME NEW c \in Calls, WalkPage(c)
      PROVE  IInv'
  <2>1. pc[c] = "walking" /\ req[c].op = "list" /\ pc[c] \notin Stopped
    BY <1>2 DEF WalkPage, IInv, CallInv, Stopped, Ended
  <2>2. UNCHANGED <<customers, req, copy, met>>
    BY <1>2 DEF WalkPage
  <2>3. PICK l \in {"walking", "done"} : pc' = [pc EXCEPT ![c] = l]
    BY <1>2 DEF WalkPage, Goto
  <2>4. QED
    BY <1>0, <2>1, <2>2, <2>3, QuietStep DEF Blind
<1>3. ASSUME NEW c \in Calls, Abort(c)
      PROVE  IInv'
  <2>1. pc[c] \notin Stopped /\ pc' = [pc EXCEPT ![c] = "failed"] /\ UNCHANGED <<customers, req, met>>
    BY <1>3 DEF Abort, Goto, Busy, Stopped
  <2>2. copy' \in [Calls -> {NoRow} \cup Row] /\ \A d \in Calls \ {c} : copy'[d] = copy[d]
    BY <1>0, <1>3 DEF Abort, Release
  <2>3. QED
    BY <1>0, <2>1, <2>2, QuietStep DEF Blind
<1>4. ASSUME NEW c \in Calls, Step(c)
      PROVE  IInv'
  BY <1>2, <1>4, CreateInsertStep, UpdateLookupStep, DeleteReadStep, WriteStep DEF Step
<1>5. CASE UNCHANGED vars
  <2>1. /\ Ids' = Ids /\ TypeOK'
        /\ \A x : ChangesOf(x)' = ChangesOf(x)
        /\ \A c, d : (Blind(c)' <=> Blind(c)) /\ (Overlapped(c, d)' <=> Overlapped(c, d))
    BY <1>5 DEF vars, IInv, TypeOK, Ids, ChangesOf, Blind, Overlapped
  <2>2. \A c, d : Excused(c, d)' <=> Excused(c, d)
    BY <2>1 DEF Excused
  <2>3. \A x \in Ids' : RowInv(x)'
    BY <1>5, <2>1 DEF vars, IInv, RowInv
  <2>4. \A c \in Calls : CallInv(c)'
    BY <1>5, <2>1 DEF vars, IInv, CallInv, Fresh
  <2>5. \A c \in Calls : ClaimInv(c)'
    <3> SUFFICES ASSUME NEW c \in Calls, NEW y \in Ids, NEW x \in AllIds, x # y,
                        Claims(c, x, customers[y].email)'
                 PROVE  Excused(c, customers[y].setBy)'
      BY <2>1 DEF ClaimInv
    <3>1. Claims(c, x, customers[y].email)
      BY <1>5 DEF vars, Claims
    <3>2. Excused(c, customers[y].setBy)
      BY <3>1 DEF IInv, ClaimInv
    <3>3. QED
      BY <1>5, <3>2 DEF vars, Excused, Blind, Overlapped
  <2>6. BusyInv' /\ EmailsDistinct'
    BY <1>5 DEF vars, IInv, BusyInv, EmailsDistinct, Ids, Blind, Overlapped
  <2>7. QED
    BY <2>1, <2>3, <2>4, <2>5, <2>6 DEF IInv
<1>6. QED
  BY <1>1, <1>3, <1>4, <1>5 DEF Next, Rest

-----------------------------------------------------------------------------
(* The theorems *)

(* The inductive invariant holds always. *)
THEOREM Invariance == Spec => []IInv
BY InitIInv, StepIInv, PTL DEF Spec

(* Rows and calls keep their types. *)
THEOREM TypeCorrect == Spec => []TypeOK
<1>1. IInv => TypeOK
  BY DEF IInv
<1>2. QED
  BY <1>1, Invariance, PTL

(* Two customers share an email only through lookups that overlapped or failed. *)
THEOREM EmailsAreDistinct == Spec => []EmailsDistinct
<1>1. IInv => EmailsDistinct
  BY DEF IInv
<1>2. QED
  BY <1>1, Invariance, PTL

(* The version check loses no change that was reported to succeed. *)
THEOREM EditsAreKept == Spec => []EditsKept
<1>1. IInv => EditsKept
  BY DEF IInv, RowInv, ChangesOf, ChangeOps, EditsKept
<1>2. QED
  BY <1>1, Invariance, PTL

-----------------------------------------------------------------------------
(* Walks through the list *)

(* The table is finite, and a walk that goes on still has in the table all it
   began with; one that is over has seen it. *)
WalkOf(c) ==
  /\ Walking(walk[c])
  /\ pc[c] = "walking" => walk[c].start \subseteq Ids
  /\ pc[c] = "done" /\ req[c].op = "list" => walk[c].start \subseteq walk[c].seen

WalkInv ==
  /\ IsFiniteSet(Ids)
  /\ walk \in [Calls -> WalkRecord]
  /\ \A c \in Calls : WalkOf(c)

(* The list is the whole table: deleted_at is never set. *)
LEMMA ListedAreIds ==
  ASSUME IInv
  PROVE  {x \in Ids : ~customers[x].deletedAt} = Ids /\ Ids \in SUBSET (Nat \ {0})
<1>1. {x \in Ids : ~customers[x].deletedAt} = Ids
  BY DEF IInv, RowInv
<1>2. Ids \subseteq Nat \ {0}
  BY CallsAssumption DEF Ids, AllIds
<1>3. QED
  BY <1>1, <1>2

(* Nobody leaves the table, and at most one customer joins it. *)
LEMMA IdsGrow ==
  ASSUME IInv, [Next]_vars
  PROVE  Ids \subseteq Ids' /\ \E c : Ids' \subseteq Ids \cup {c}
<1> USE DEF IInv, TypeOK
<1>1. ASSUME NEW c \in Calls, CreateInsert(c)
      PROVE  Ids \subseteq Ids' /\ Ids' \subseteq Ids \cup {c}
  <2>1. c \in AllIds /\ customers' = [customers EXCEPT ![c] = NewCustomer(c, req[c].email)]
    BY <1>1 DEF CreateInsert, AllIds
  <2>2. NewCustomer(c, req[c].email).status = "active"
    BY DEF NewCustomer
  <2>3. QED
    BY <2>1, <2>2 DEF Ids
<1>2. ASSUME NEW c \in Calls, Write(c)
      PROVE  Ids' = Ids
  <2> DEFINE x == req[c].id
  <2>1. pc[c] = "write" /\ req[c].op \in ChangeOps
    BY <1>2 DEF Write, CallInv
  <2>2. x \in Ids /\ copy[c] \in Row
    BY <2>1 DEF CallInv, Fresh
  <2> DEFINE row == [copy[c] EXCEPT !.deletedAt = customers[x].deletedAt, !.version = @ + 1]
  <2>3. row.status # "none"
    BY <2>2 DEF Row
  <2>4. customers' = customers \/ customers' = [customers EXCEPT ![x] = row]
    BY <1>2 DEF Write
  <2>5. customers[x].status # "none" /\ x \in AllIds
    BY <2>2 DEF Ids
  <2> HIDE DEF row, x
  <2>6. QED
    BY <2>3, <2>4, <2>5 DEF Ids
<1>3. ASSUME UNCHANGED customers
      PROVE  Ids' = Ids
  BY <1>3 DEF Ids
<1>4. ASSUME NEW c \in Calls, Arrive(c) \/ Abort(c)
      PROVE  UNCHANGED customers
  BY <1>4 DEF Arrive, Abort, CreateLookup, UpdateRead, StatusRead, DeleteCheck, WalkBegin
<1>5. ASSUME NEW c \in Calls, Step(c)
      PROVE  UNCHANGED customers \/ CreateInsert(c) \/ Write(c)
  BY <1>5 DEF Step, UpdateLookup, DeleteRead, WalkPage
<1>6. QED
  BY <1>1, <1>2, <1>3, <1>4, <1>5 DEF Next, Rest, vars

LEMMA InitWalks == Init => WalkInv
<1> SUFFICES ASSUME Init PROVE WalkInv
  OBVIOUS
<1>1. Ids = DOMAIN Seeds
  BY DEF Init, Ids, AllIds, NoRow, NewCustomer
<1>2. \A c \in Calls : walk[c] = StartWalk({}) /\ pc[c] = "idle"
  BY DEF Init
<1>3. Walking(StartWalk({})) /\ walk = [c \in Calls |-> StartWalk({})]
  BY WalkStarts DEF Init
<1>4. \A c \in Calls : WalkOf(c)
  BY <1>2, <1>3 DEF WalkOf
<1>5. QED
  BY <1>1, <1>3, <1>4, TableAssumption DEF WalkInv, Walking

(* Walks that are not begun or continued stay as they are, and calls that are
   not walks end as such. *)
LEMMA OtherWalks ==
  ASSUME IInv, WalkInv, NEW c \in Calls, Ids \subseteq Ids', UNCHANGED walk,
         \A d \in Calls \ {c} : pc'[d] = pc[d] /\ req'[d] = req[d],
         pc'[c] # "walking", pc'[c] = "done" => req'[c].op # "list"
  PROVE  \A d \in Calls : WalkOf(d)'
<1> SUFFICES ASSUME NEW d \in Calls PROVE WalkOf(d)'
  OBVIOUS
<1>1. WalkOf(d) /\ walk'[d] = walk[d]
  BY DEF WalkInv
<1>2. CASE d = c
  BY <1>1, <1>2 DEF WalkOf
<1>3. CASE d # c
  BY <1>1, <1>3 DEF WalkOf
<1>4. QED
  BY <1>2, <1>3

LEMMA StepWalks == IInv /\ WalkInv /\ [Next]_vars => WalkInv'
<1> SUFFICES ASSUME IInv, WalkInv, [Next]_vars PROVE WalkInv'
  OBVIOUS
<1>0. /\ pc \in [Calls -> {"idle", "create", "lookup", "delete", "write", "walking", "done", "failed"}]
      /\ req \in [Calls -> RequestRow]
      /\ walk \in [Calls -> WalkRecord] /\ IsFiniteSet(Ids)
      /\ \A c \in Calls : CallInv(c)
  BY DEF IInv, TypeOK, RequestRow, WalkInv
<1>1. Ids \subseteq Ids' /\ IsFiniteSet(Ids')
  <2>1. PICK c : Ids' \in SUBSET (Ids \cup {c})
    BY IdsGrow
  <2>2. IsFiniteSet(Ids \cup {c})
    BY <1>0, FS_AddElement
  <2>3. IsFiniteSet(Ids')
    BY <2>1, <2>2, FS_Subset
  <2>4. QED
    BY <2>3, IdsGrow
<1>2. ASSUME NEW c \in Calls, WalkBegin(c)
      PROVE  WalkInv'
  <2> DEFINE start == StartWalk({x \in Ids : ~customers[x].deletedAt})
  <2>1. Walking(start) /\ start.start = Ids
    BY ListedAreIds, WalkStarts
  <2>2. walk' = [walk EXCEPT ![c] = start] /\ pc' = [pc EXCEPT ![c] = "walking"]
        /\ \A d \in Calls \ {c} : req'[d] = req[d]
    BY <1>0, <1>2 DEF WalkBegin, Begin, Goto
  <2> HIDE DEF start
  <2>3. walk' \in [Calls -> WalkRecord]
    BY <1>0, <2>1, <2>2 DEF Walking
  <2>4. \A d \in Calls : WalkOf(d)'
    BY <1>0, <1>1, <2>1, <2>2 DEF WalkOf, WalkInv
  <2>5. QED
    BY <1>1, <2>3, <2>4 DEF WalkInv
<1>3. ASSUME NEW c \in Calls, WalkPage(c)
      PROVE  WalkInv'
  <2> DEFINE fetched == Fetched({x \in Ids : ~customers[x].deletedAt}, walk[c].after, PageSize + 1)
             next == Turn(walk[c], Shown(fetched, PageSize))
  <2>1. pc[c] = "walking" /\ req[c].op = "list" /\ WalkOf(c)
    BY <1>0, <1>3 DEF WalkPage, CallInv, WalkInv
  <2>2. /\ Walking(next)
        /\ next.start = walk[c].start
        /\ ~HasMore(fetched, PageSize) => next.start \subseteq next.seen
    <3>1. PageSize \in Nat /\ PageSize + 1 \in Nat /\ PageSize <= PageSize + 1
      BY PageSizeAssumption
    <3>2. Walking(walk[c]) /\ walk[c].start \subseteq Ids
      BY <2>1 DEF WalkOf
    <3>3. fetched = Fetched(Ids, walk[c].after, PageSize + 1)
      BY ListedAreIds
    <3>4. Ids \in SUBSET (Nat \ {0})
      BY ListedAreIds
    <3> DEFINE rows == Fetched(Ids, walk[c].after, PageSize + 1)
               turned == Turn(walk[c], Shown(rows, PageSize))
    <3>5. /\ Walking(turned)
          /\ turned.start = walk[c].start
          /\ ~HasMore(rows, PageSize) => turned.start \subseteq turned.seen
      BY <1>0, <3>1, <3>2, <3>4, WalkTurns
    <3>6. fetched = rows /\ next = turned
      BY <3>3
    <3> HIDE DEF fetched, next, rows, turned
    <3>7. QED
      BY <3>5, <3>6
  <2>3. /\ walk' = [walk EXCEPT ![c] = next]
        /\ pc' = [pc EXCEPT ![c] = IF HasMore(fetched, PageSize) THEN "walking" ELSE "done"]
        /\ req' = req
    BY <1>3 DEF WalkPage, Goto
  <2> HIDE DEF next, fetched
  <2>4. walk' \in [Calls -> WalkRecord]
    BY <1>0, <2>2, <2>3 DEF Walking
  <2>5. WalkOf(c)'
    <3>1. walk'[c] = next /\ req'[c] = req[c] /\ pc'[c] = IF HasMore(fetched, PageSize) THEN "walking" ELSE "done"
      BY <1>0, <2>3
    <3>2. walk[c].start \subseteq Ids
      BY <2>1 DEF WalkOf
    <3>3. QED
      BY <1>1, <2>2, <3>1, <3>2 DEF WalkOf
  <2>6. ASSUME NEW d \in Calls, d # c
        PROVE  WalkOf(d)'
    <3>1. walk'[d] = walk[d] /\ pc'[d] = pc[d] /\ req'[d] = req[d]
      BY <1>0, <2>3, <2>6
    <3>2. WalkOf(d)
      BY DEF WalkInv
    <3>3. QED
      BY <1>1, <3>1, <3>2 DEF WalkOf
  <2>7. QED
    BY <1>1, <2>4, <2>5, <2>6 DEF WalkInv
<1>4. ASSUME NEW c \in Calls, NEW l, NEW r \in RequestRow, UNCHANGED walk,
             pc' = [pc EXCEPT ![c] = l], l # "walking",
             req' = [req EXCEPT ![c] = r], l = "done" => r.op # "list"
      PROVE  WalkInv'
  <2>1. /\ \A d \in Calls \ {c} : pc'[d] = pc[d] /\ req'[d] = req[d]
        /\ pc'[c] = l /\ req'[c] = r
    BY <1>0, <1>4
  <2>2. \A d \in Calls : WalkOf(d)'
    BY <1>1, <1>4, <2>1, OtherWalks
  <2>3. QED
    BY <1>0, <1>1, <1>4, <2>2 DEF WalkInv
<1>5. ASSUME NEW c \in Calls, NEW r, NEW l, Begin(c, r, l), UNCHANGED walk, l \notin {"walking", "done"}
      PROVE  WalkInv'
  <2>1. pc' = [pc EXCEPT ![c] = l] /\ req' = [req EXCEPT ![c] = r]
    BY <1>5 DEF Begin, Goto
  <2>2. \A d \in Calls \ {c} : pc'[d] = pc[d] /\ req'[d] = req[d]
    BY <1>0, <2>1
  <2>3. pc'[c] = l
    BY <1>0, <2>1
  <2>4. \A d \in Calls : WalkOf(d)'
    BY <1>1, <1>5, <2>2, <2>3, OtherWalks
  <2>5. QED
    BY <1>0, <1>1, <1>5, <2>4 DEF WalkInv
<1>6. ASSUME NEW c \in Calls, Arrive(c), ~WalkBegin(c)
      PROVE  WalkInv'
  <2>1. ASSUME NEW email, NEW blind, CreateLookup(c, email, blind)
        PROVE  WalkInv'
    BY <1>5, <2>1 DEF CreateLookup
  <2>2. ASSUME NEW x, NEW email, UpdateRead(c, x, email)
        PROVE  WalkInv'
    <3>1. UNCHANGED walk /\ \E l \in {"failed", "lookup", "write"} : Begin(c, Request("update", x, email), l)
      BY <2>2 DEF UpdateRead
    <3>2. QED
      BY <1>5, <3>1
  <2>3. ASSUME NEW x, NEW op, StatusRead(c, x, op)
        PROVE  WalkInv'
    <3>1. UNCHANGED walk /\ \E l \in {"failed", "write"} : Begin(c, Request(op, x, NoEmail), l)
      BY <2>3 DEF StatusRead
    <3>2. QED
      BY <1>5, <3>1
  <2>4. ASSUME NEW x, DeleteCheck(c, x)
        PROVE  WalkInv'
    <3>1. UNCHANGED walk /\ \E l \in {"failed", "delete"} : Begin(c, Request("delete", x, NoEmail), l)
      BY <2>4 DEF DeleteCheck
    <3>2. QED
      BY <1>5, <3>1
  <2>5. QED
    BY <1>6, <2>1, <2>2, <2>3, <2>4 DEF Arrive
<1>7. ASSUME NEW c \in Calls, UNCHANGED <<req, walk>>, NEW l \in {"write", "failed"}, Goto(c, l)
      PROVE  WalkInv'
  <2>1. pc' = [pc EXCEPT ![c] = l] /\ req' = [req EXCEPT ![c] = req[c]] /\ req[c] \in RequestRow
    BY <1>0, <1>7 DEF Goto
  <2>2. QED
    BY <1>4, <1>7, <2>1
<1>8. ASSUME NEW c \in Calls, Step(c) \/ Abort(c), ~WalkPage(c)
      PROVE  WalkInv'
  <2>1. CASE CreateInsert(c)
    <3>1. UNCHANGED <<req, walk>> /\ pc' = [pc EXCEPT ![c] = "done"] /\ pc[c] = "create"
      BY <2>1 DEF CreateInsert, Goto
    <3>2. req[c].op = "create" /\ req[c] \in RequestRow /\ req' = [req EXCEPT ![c] = req[c]]
      BY <1>0, <3>1 DEF CallInv
    <3>3. QED
      BY <1>4, <3>1, <3>2
  <2>2. ASSUME NEW blind \in BOOLEAN, UpdateLookup(c, blind)
        PROVE  WalkInv'
    <3>1. UNCHANGED walk /\ req' = [req EXCEPT ![c].blind = blind]
      BY <2>2 DEF UpdateLookup
    <3>2. PICK l \in {"write", "failed"} : pc' = [pc EXCEPT ![c] = l]
      BY <2>2 DEF UpdateLookup, Goto
    <3>3. PICK r \in RequestRow : req' = [req EXCEPT ![c] = r]
      BY <1>0, <3>1 DEF RequestRow
    <3>4. QED
      BY <1>4, <3>1, <3>2, <3>3
  <2>3. CASE DeleteRead(c)
    <3>1. UNCHANGED <<req, walk>> /\ \E l \in {"write", "failed"} : Goto(c, l)
      BY <2>3 DEF DeleteRead
    <3>2. QED
      BY <1>7, <3>1
  <2>4. CASE Write(c)
    <3>1. UNCHANGED <<req, walk>> /\ pc[c] = "write"
      BY <2>4 DEF Write
    <3>2. req[c].op \in ChangeOps /\ req[c] \in RequestRow /\ req' = [req EXCEPT ![c] = req[c]]
      BY <1>0, <3>1 DEF CallInv
    <3>3. PICK l \in {"done", "failed"} : pc' = [pc EXCEPT ![c] = l]
      BY <2>4 DEF Write, Goto
    <3>4. QED
      BY <1>4, <3>1, <3>2, <3>3 DEF ChangeOps
  <2>5. CASE Abort(c)
    BY <1>7, <2>5 DEF Abort
  <2>6. QED
    BY <1>8, <2>1, <2>2, <2>3, <2>4, <2>5 DEF Step
<1>9. CASE UNCHANGED vars
  <2>1. Ids' = Ids /\ walk' = walk /\ pc' = pc /\ req' = req
    BY <1>9 DEF vars, Ids
  <2>2. QED
    BY <2>1 DEF WalkInv, WalkOf
<1>10. QED
  BY <1>2, <1>3, <1>6, <1>8, <1>9 DEF Next, Rest

(* A walk through the customers shows none twice and every one that was there
   when it began, however many join and whatever else is written meanwhile. *)
THEOREM WalksAreExact == Spec => []WalkExact
<1>1. WalkInv => WalkExact
  BY DEF WalkInv, WalkOf, Walking, WalkExact, Exact
<1>2. Init => IInv /\ WalkInv
  BY InitIInv, InitWalks
<1>3. (IInv /\ WalkInv) /\ [Next]_vars => (IInv /\ WalkInv)'
  BY StepIInv, StepWalks
<1>4. QED
  BY <1>1, <1>2, <1>3, PTL DEF Spec
=============================================================================

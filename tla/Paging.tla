-------------------------------- MODULE Paging --------------------------------
(***************************************************************************)
(* How the list endpoints cut a table into pages: the query of a           *)
(* repository and what a handler makes of its rows.  A row is its id; ids  *)
(* are numbers, 0 comes before all of them.                                *)
(***************************************************************************)
EXTENDS Integers, FiniteSets

\* Deviation: the row the client names is part of the answer.
QueryFrom(ids, after, limit) ==
  {i \in ids : i >= after /\ Cardinality({j \in ids : after <= j /\ j < i}) < limit}

\* ... AND id > after ORDER BY id ASC LIMIT limit.
Query(ids, after, limit) ==
  {i \in ids : i > after /\ Cardinality({j \in ids : after < j /\ j < i}) < limit}

\* A handler asks for one row more than it shows.
Fetched(ids, after, size) == Query(ids, after, size + 1)

HasMore(fetched, size) == Cardinality(fetched) > size

\* The page is cut after its first rows if there are more.
Shown(fetched, size) == IF HasMore(fetched, size) THEN Query(fetched, 0, size) ELSE fetched

\* A client's walk through a list: the last id it was shown, which it names in
\* its next request; what it has seen, and how many rows that was; and what was
\* there when it began.
StartWalk(ids) == [after |-> 0, seen |-> {}, shown |-> 0, start |-> ids]

Turn(w, page) ==
  [w EXCEPT !.seen = @ \cup page,
            !.shown = @ + Cardinality(page),
            !.after = IF page = {} THEN @ ELSE CHOOSE i \in page : \A j \in page : j <= i]

\* No row was shown twice; if the walk is over it showed all there was at first.
Exact(w, over) == w.shown = Cardinality(w.seen) /\ (over => w.start \subseteq w.seen)
===============================================================================

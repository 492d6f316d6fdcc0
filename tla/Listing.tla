------------------------------ MODULE Listing ------------------------------
(***************************************************************************)
(* A client walks through a listing page by page while other requests      *)
(* change the table: findAll of the user, role and permission repositories,*)
(* as their controllers call it.                                           *)
(*                                                                         *)
(* A page is two queries sent together, on connections of their own, so    *)
(* either may run first and a write may fall between them.  The client asks*)
(* for page 1, 2, ... until a page comes short.  A row stands in the table *)
(* by the value of the one column sorted by, or does not count: it is not  *)
(* there, soft-deleted, or a text or enum filter leaves it out.            *)
(***************************************************************************)
EXTENDS Query

CONSTANTS
    Rows,      \* ids of rows
    Values,    \* the values of the column sorted by; instants if it is a date
    Queries,   \* the queries a client may send; those with a date filter sort by it
    Zones,     \* values of APP_TIMEZONE
    MaxPages,  \* bound: after this page the table is left alone
    None

ASSUME ListingAssumption ==
    /\ IsFiniteSet(Rows) /\ MaxPages \in Nat
    /\ Values \cup Zones \subseteq Int /\ None \notin Int

(* A walk begins with the first page, or the driver throws on its page.  A *)
(* negative limit, which the driver counts from the end of the table, is   *)
(* left out.                                                               *)
ASSUME QueriesAssumption ==
    \A q \in Queries :
        /\ q.resource \in DOMAIN Sortable
        /\ q.page = Odd \/ (q.page \in Int /\ PageOf(q) <= 1)
        /\ q.limit = Odd \/ q.limit \in Nat
        /\ \A k \in Dates \cap FilterOf(q) : q.filter[k] \in Seq(Int \cup {Blank, Junk})

VARIABLES
    value,      \* value[x]: the sort value of row x, or None if x does not count
    zone,       \* the APP_TIMEZONE the server runs with
    query,      \* what the client asks
    status,     \* of the response, or None
    page,       \* the page the client asks for next, or 0 when it asks for none
    count,      \* what count returned for this page, or None
    found,      \* what findMany returned for this page, or None
    pages       \* the responses so far: their rows and their meta

(* History: what the walk is measured against.                             *)
VARIABLES
    stayed,     \* the rows that have stood where they are since the walk began
    alone,      \* those of them that no row has stood beside; none once a row came in
    left,       \* a row has left its place since then
    quiet       \* nothing has been written since then

asked == <<zone, query, status>>
walk  == <<page, count, found, pages>>
vars  == <<value, asked, walk, stayed, alone, left, quiet>>

Matching == {x \in Rows : value[x] # None /\ Admitted(query, zone, value[x])}

Init ==
    /\ value \in [Rows -> Values \cup {None}]
    /\ zone \in Zones /\ query \in Queries /\ status = None
    /\ page = 0 /\ count = None /\ found = None /\ pages = << >>
    /\ stayed = {} /\ alone = {} /\ left = FALSE /\ quiet = TRUE

(* A row whose place in the order is its own.                              *)
Distinct(x) == \A y \in Matching \ {x} : value[y] # value[x]

---------------------------------------------------------------------------
(* findAll *)

(* The query is checked before anything is read.                           *)
Ask ==
    /\ status = None
    /\ status' = Status(query, zone)
    /\ \/ /\ status' = 200 /\ page' = PageOf(query) /\ stayed' = Matching
          /\ alone' = {x \in Matching : Distinct(x)}
       \/ status' # 200 /\ UNCHANGED <<page, stayed, alone>>
    /\ UNCHANGED <<value, zone, query, count, found, pages, left, quiet>>

Limit == LimitOf(query)

Before(x, y) == IF Direction(query) = "asc" THEN value[x] < value[y]
                                     ELSE value[x] > value[y]

(* orderBy on one column leaves the order of equal values open.            *)
Orders == {s \in [1..Cardinality(Matching) -> Matching] :
             /\ \A i, j \in DOMAIN s : s[i] = s[j] => i = j
             /\ \A i, j \in DOMAIN s : Before(s[i], s[j]) => i < j}

Page(s, p) ==
    LET skip == Skip(p, Limit)
    IN  SubSeq(s, skip + 1, IF skip + Limit < Len(s) THEN skip + Limit ELSE Len(s))

(* Mutant: a last page that is not full is not counted.                    *)
TotalPagesFloored(n) == n \div Limit

(* Math.ceil(totalCount / finalLimit)                                      *)
TotalPages(n) == (n + Limit - 1) \div Limit

Count ==
    /\ page # 0 /\ count = None
    /\ count' = Cardinality(Matching)
    /\ UNCHANGED <<value, asked, page, found, pages, stayed, alone, left, quiet>>

FindMany ==
    /\ page # 0 /\ found = None
    /\ \E s \in Orders : found' = Page(s, page)
    /\ UNCHANGED <<value, asked, page, count, pages, stayed, alone, left, quiet>>

Respond ==
    /\ count # None /\ found # None
    /\ pages' = Append(pages, [data |-> found, totalCount |-> count,
                               totalPages |-> TotalPages(count)])
    /\ page' = IF Len(found) < Limit THEN 0 ELSE page + 1
    /\ count' = None /\ found' = None
    /\ UNCHANGED <<value, asked, stayed, alone, left, quiet>>

---------------------------------------------------------------------------
(* Other requests, while the walk goes on.                                 *)

Walking == page \in 1..MaxPages

(* A row is created, or changed so that it matches: it comes in anywhere   *)
(* in the order, beside its equals if there are any.                       *)
Enter(x) ==
    /\ Walking /\ x \notin Matching
    /\ \E v \in {w \in Values : Admitted(query, zone, w)} :
            value' = [value EXCEPT ![x] = v]
    /\ alone' = {} /\ quiet' = FALSE
    /\ UNCHANGED <<asked, walk, stayed, left>>

(* A row is deleted or changed: it no longer matches, or no longer stands  *)
(* where it stood.                                                         *)
Leave(x) ==
    /\ Walking /\ x \in Matching
    /\ \E v \in (Values \cup {None}) \ {value[x]} :
            /\ value' = [value EXCEPT ![x] = v]
            /\ alone' = IF v # None /\ Admitted(query, zone, v) THEN {} ELSE alone \ {x}
    /\ stayed' = stayed \ {x}
    /\ left' = TRUE /\ quiet' = FALSE
    /\ UNCHANGED <<asked, walk>>

Next ==
    \/ Ask \/ Count \/ FindMany \/ Respond
    \/ \E x \in Rows : Enter(x) \/ Leave(x)

Spec == Init /\ [][Next]_vars

---------------------------------------------------------------------------

Seen == UNION {{p.data[i] : i \in DOMAIN p.data} :
                 p \in {pages[k] : k \in DOMAIN pages}}

Ended == page = 0 /\ status = 200

(* Rows that come in while a client pages through a listing push others to *)
(* later pages, never past him: unless a row has left its place, a walk    *)
(* that has ended has returned every row that matched all along and shares *)
(* its sort value with no other.                                           *)
NothingMissed ==
    Ended /\ ~left => \A x \in stayed : Distinct(x) => x \in Seen

(* Rows that go pull others to earlier pages, never to a page still to     *)
(* come: as long as no row comes in, a walk returns no row twice that has  *)
(* stood in its place, alone with its value, since the walk began.         *)
NothingRepeated ==
    \A x \in alone :
        \A k, m \in DOMAIN pages :
            \A i \in DOMAIN pages[k].data, j \in DOMAIN pages[m].data :
                pages[k].data[i] = x /\ pages[m].data[j] = x => k = m /\ i = j

(* On a table nobody writes to, each response's totalPages is the number of*)
(* the last page that holds a row, whatever the limit.                     *)
MetaNamesLastPage ==
    Ended /\ quiet =>
        \A k \in DOMAIN pages :
            \A m \in DOMAIN pages :
                pages[m].data # << >> <=> m <= pages[k].totalPages

(* What the calendar says of a date filter: the rows whose day, by the     *)
(* clocks of APP_TIMEZONE, is that of its first date or its last, or lies  *)
(* between.                                                                *)
OfTheDaysAsked ==
    {x \in Rows :
        /\ value[x] # None
        /\ \A k \in Dates : Given(query, k) =>
               LET first == FirstPart(query.filter[k]) \div DayLength
                   last  == LastPart(query.filter[k]) \div DayLength
               IN  (value[x] + zone) \div DayLength \in first..last}

(* A date filter takes in whole days of APP_TIMEZONE, the last one to its  *)
(* end and the days around them not at all, whatever the zone: a walk over *)
(* a table nobody writes to returns rows of those days only, and each of   *)
(* them that shares its sort value with no other.                          *)
RangesAreWholeDays ==
    Ended /\ quiet =>
        /\ Seen \subseteq OfTheDaysAsked
        /\ \A x \in OfTheDaysAsked : Distinct(x) => x \in Seen

=============================================================================

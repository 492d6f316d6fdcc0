------------------------------- MODULE Query -------------------------------
(***************************************************************************)
(* What becomes of a listing's query parameters: the defaults of the three *)
(* controllers' findAll, FilterValidationPipe, the allow-lists of the three*)
(* repositories and parseDateRangeFilter, up to the where, orderBy, skip   *)
(* and take handed to the driver, and what the driver makes of them.       *)
(*                                                                         *)
(* Time is counted in ticks, DayLength of them to a day.  An instant is a  *)
(* tick since the epoch; a zone is how far its clocks are ahead of UTC, so *)
(* they show instant + zone.  A filter's value is the sequence of its      *)
(* comma-separated parts, trimmed, or << >> if it is the empty string; a   *)
(* date among them is what the clocks of APP_TIMEZONE show.  A text or a   *)
(* search term restricts the rows to those that match it and is left out.  *)
(***************************************************************************)
EXTENDS Integers, Sequences, FiniteSets

CONSTANTS
    DayLength,         \* ticks in a day
    PaginationLength,  \* paginationLength: the default limit
    Odd,               \* as a limit, a number that is no integer the driver takes;
                       \* as a page, one whose skip is none
    Known,             \* a part that is a member of UserStatus, or a uuid
    Blank,             \* a part with nothing but spaces, or nothing, in it
    Junk,              \* a part that is no date, no uuid and in no enum
    Repeated           \* the value of a parameter sent more than once

ASSUME QueryAssumption ==
    /\ DayLength \in Nat \ {0} /\ PaginationLength \in Nat \ {0}
    /\ Blank # Junk /\ Odd \notin Int

(* Columns of the three tables a client may sort by, and the keys he may   *)
(* filter by.                                                              *)
Sortable ==
    [users       |-> {"id", "name", "email", "status", "createdAt", "updatedAt"},
     roles       |-> {"id", "name", "createdAt", "updatedAt"},
     permissions |-> {"id", "name", "group", "createdAt", "updatedAt"}]

Filterable ==
    [users       |-> Sortable["users"] \cup {"roles"},
     roles       |-> {"name", "createdAt", "updatedAt"},
     permissions |-> Sortable["permissions"]]

Dates == {"createdAt", "updatedAt"}

---------------------------------------------------------------------------
(* The controllers: a parameter that is absent, no number, or zero takes   *)
(* its default.  Any other number is passed on, fractions and numbers out  *)
(* of range (Odd) included.                                                *)

Absent == 0

PageOf(q) == IF q.page = Absent THEN 1 ELSE q.page
LimitOf(q) == IF q.limit = Absent THEN PaginationLength ELSE q.limit
SortOf(q) == IF q.sort = "" THEN "createdAt" ELSE q.sort

Direction(q) == IF q.direction = "asc" THEN "asc" ELSE "desc"

(* The pipe keeps scalar values only.                                      *)
FilterOf(q) == {k \in DOMAIN q.filter : q.filter[k] # Repeated}

---------------------------------------------------------------------------
(* parseDateRangeFilter *)

Parts(raw) == {i \in DOMAIN raw : raw[i] # Blank}

FirstPart(raw) == raw[CHOOSE i \in Parts(raw) : \A j \in Parts(raw) : i <= j]
LastPart(raw) == raw[CHOOSE i \in Parts(raw) : \A j \in Parts(raw) : j <= i]

ParseInZone(clock, zone) == clock - zone

StartOf(t, zone) == t - ((t + zone) % DayLength)

(* Mutant: the range ends when its last day begins.                        *)
EndOfAtMidnight(t, zone) == t - ((t + zone) % DayLength)

EndOf(t, zone) == StartOf(t, zone) + DayLength - 1

DateRange(raw, zone) ==
    [gte |-> StartOf(ParseInZone(FirstPart(raw), zone), zone),
     lte |-> EndOf(ParseInZone(LastPart(raw), zone), zone)]

(* The status a date filter ends with, if it ends the request: parseInZone *)
(* throws a RangeError of its own on a text that is no date, before anybody*)
(* asks whether the date is valid.                                         *)
RangeStatus(raw, zone) ==
    IF Cardinality(Parts(raw)) \notin 1..2 THEN 400
    ELSE IF \E i \in Parts(raw) : raw[i] = Junk THEN 500
    ELSE IF DateRange(raw, zone).gte > DateRange(raw, zone).lte THEN 400
    ELSE 200

---------------------------------------------------------------------------
(* findAll of the repositories *)

(* A value that is not the empty string.                                   *)
Given(q, k) == k \in FilterOf(q) /\ q.filter[k] # << >>

(* What is refused before the dates are looked at.                         *)
Refused(q) ==
    \/ SortOf(q) \notin Sortable[q.resource]
    \/ ~ FilterOf(q) \subseteq Filterable[q.resource]
    \/ q.resource = "users" /\ Given(q, "status") /\ q.filter["status"] # <<Known>>

DateStatus(q, k, zone) ==
    IF Given(q, k) THEN RangeStatus(q.filter[k], zone) ELSE 200

(* The rows whose createdAt or updatedAt, whichever is filtered, is t.     *)
Admitted(q, zone, t) ==
    \A k \in Dates : Given(q, k) =>
        LET range == DateRange(q.filter[k], zone)
        IN  range.gte <= t /\ t <= range.lte

(* Mutants: page is taken to count from zero; skip to count pages.         *)
SkipFromZero(p, limit) == p * limit
SkipInPages(p, limit) == p - 1

Skip(p, limit) == (p - 1) * limit

(* The driver validates skip and take, and the database casts an id to the *)
(* type of its column: either throws.                                      *)
DriverThrows(q) ==
    \/ Odd \in {PageOf(q), LimitOf(q)}
    \/ Odd \notin {PageOf(q), LimitOf(q)} /\ Skip(PageOf(q), LimitOf(q)) < 0
    \/ q.resource = "permissions" /\ Given(q, "id") /\ q.filter["id"] # <<Known>>

(* What findAll ends with, its first failure counting, and what            *)
(* ResponseHandler.handleError makes of it: only an HttpException keeps its*)
(* status.                                                                 *)
Status(q, zone) ==
    IF Refused(q) THEN 400
    ELSE IF DateStatus(q, "createdAt", zone) # 200 THEN DateStatus(q, "createdAt", zone)
    ELSE IF DateStatus(q, "updatedAt", zone) # 200 THEN DateStatus(q, "updatedAt", zone)
    ELSE IF DriverThrows(q) THEN 500
    ELSE 200

=============================================================================

--------------------------- MODULE Listing_proofs ---------------------------
(***************************************************************************)
(* That a walk through a listing misses nothing that stayed and returns    *)
(* nothing twice that stood alone, and that its meta data and its date     *)
(* ranges are right, for any finite table, any limit and any zone.         *)
(***************************************************************************)
EXTENDS Listing, FiniteSetTheorems, SequenceTheorems, TLAPS

(* Queries *)

(* What is true of a query that is answered with rows.                     *)
LEMMA Accepted ==
  ASSUME NEW q \in Queries, NEW z, Status(q, z) = 200
  PROVE  /\ PageOf(q) = 1 /\ LimitOf(q) \in Nat \ {0}
         /\ \A k \in Dates : Given(q, k) => RangeStatus(q.filter[k], z) = 200
<1>1. /\ ~ Refused(q) /\ ~ DriverThrows(q)
      /\ DateStatus(q, "createdAt", z) = 200 /\ DateStatus(q, "updatedAt", z) = 200
  BY DEF Status
<1>2. \A k \in Dates : Given(q, k) => RangeStatus(q.filter[k], z) = 200
  BY <1>1 DEF Dates, DateStatus
<1>3. PageOf(q) # Odd /\ LimitOf(q) # Odd /\ ~ (Skip(PageOf(q), LimitOf(q)) < 0)
  BY <1>1 DEF DriverThrows
<1>4. PageOf(q) \in Int /\ PageOf(q) <= 1
  BY <1>3, QueriesAssumption, QueryAssumption DEF PageOf, Absent
<1>5. LimitOf(q) \in Nat \ {0}
  BY <1>3, QueriesAssumption, QueryAssumption DEF LimitOf, Absent
<1>6. \A p \in Int, l \in Nat \ {0} : p <= 1 /\ ~ ((p - 1) * l < 0) => p = 1
  OBVIOUS
<1> QED
  BY <1>2, <1>3, <1>4, <1>5, <1>6 DEF Skip

LEMMA StatusType ==
  ASSUME NEW q, NEW z
  PROVE  Status(q, z) \in {200, 400, 500}
  BY DEF Status, DateStatus, RangeStatus

(* Date ranges *)

(* The parts of a filter have a first and a last, and between them no gap  *)
(* that a range of one or two dates would have.                            *)
LEMMA EndsOfAFilter ==
  ASSUME NEW raw \in Seq(Int \cup {Blank, Junk}), NEW z \in Int,
         RangeStatus(raw, z) = 200
  PROVE  FirstPart(raw) \in Int /\ LastPart(raw) \in Int
<1> DEFINE S == Parts(raw)
<1>1. S \subseteq 1..Len(raw) /\ Len(raw) \in Nat
  BY DEF Parts
<1>2. IsFiniteSet(S)
  <2>1. IsFiniteSet(1..Len(raw))
    BY <1>1, FS_Interval
  <2> QED
    BY <1>1, <2>1, FS_Subset
<1>3. Cardinality(S) \in 1..2
  BY DEF RangeStatus
<1>4. \E i, j \in S : S = {i, j}
  <2>1. PICK i \in S : TRUE
    BY <1>2, <1>3, FS_EmptySet
  <2>2. IsFiniteSet(S \ {i}) /\ Cardinality(S \ {i}) \in 0..1
    <3>1. IsFiniteSet(S \ {i}) /\ Cardinality(S \ {i}) = Cardinality(S) - 1
      BY <1>2, FS_RemoveElement
    <3> QED
      BY <1>3, <3>1
  <2>3. CASE Cardinality(S \ {i}) = 0
    <3>1. S \ {i} = {}
      BY <2>2, <2>3, FS_EmptySet
    <3> QED
      BY <3>1, <2>1
  <2>4. CASE Cardinality(S \ {i}) = 1
    <3>1. PICK j : S \ {i} = {j}
      BY <2>2, <2>4, FS_Singleton
    <3> QED
      BY <3>1, <2>1
  <2> QED
    BY <2>2, <2>3, <2>4
<1>5. \A i \in S : raw[i] \in Int
  BY <1>1 DEF Parts, RangeStatus
<1>6. /\ \E i \in S : \A j \in S : i <= j
      /\ \E i \in S : \A j \in S : j <= i
  <2>1. PICK i, j \in S : S = {i, j}
    BY <1>4
  <2>2. i \in Int /\ j \in Int
    BY <1>1
  <2>3. CASE i <= j
    BY <2>1, <2>2, <2>3
  <2>4. CASE j <= i
    BY <2>1, <2>2, <2>4
  <2> QED
    BY <2>2, <2>3, <2>4
<1> QED
  BY <1>5, <1>6 DEF FirstPart, LastPart

(* An instant is in the range of two dates just if its day, by the clocks  *)
(* of the zone, is between theirs.                                         *)
LEMMA RangeIsDays ==
  ASSUME NEW c \in Int, NEW d \in Int, NEW t \in Int, NEW z \in Int
  PROVE  /\ StartOf(ParseInZone(c, z), z) <= t <=>
               c \div DayLength <= (t + z) \div DayLength
         /\ t <= EndOf(ParseInZone(d, z), z) <=>
               (t + z) \div DayLength <= d \div DayLength
<1>1. DayLength \in Nat \ {0}
  BY QueryAssumption
<1>2. \A a \in Int : /\ a \div DayLength \in Int
                     /\ a % DayLength \in 0..(DayLength - 1)
                     /\ a = DayLength * (a \div DayLength) + (a % DayLength)
  BY <1>1
<1>3. \A a, q \in Int : q <= a \div DayLength <=> DayLength * q <= a
  BY <1>1
<1> DEFINE Midnight(a) == DayLength * (a \div DayLength)
<1>m. /\ \A a \in Int : Midnight(a) \in Int /\ a - (a % DayLength) = Midnight(a)
      /\ DayLength * (d \div DayLength + 1) = Midnight(d) + DayLength
  BY <1>1, <1>2
<1>s. \A a \in Int : StartOf(ParseInZone(a, z), z) = Midnight(a) - z
  <2> SUFFICES ASSUME NEW a \in Int
               PROVE  StartOf(ParseInZone(a, z), z) = Midnight(a) - z
    OBVIOUS
  <2>1. ((a - z) + z) % DayLength = a % DayLength
    <3>1. (a - z) + z = a
      OBVIOUS
    <3> QED
      BY <3>1
  <2>2. a % DayLength \in Int
    BY <1>1
  <2>3. StartOf(ParseInZone(a, z), z) = (a - z) - (a % DayLength)
    BY <2>1 DEF StartOf, ParseInZone
  <2> HIDE DEF Midnight
  <2> QED
    BY <1>m, <2>2, <2>3
<1>4. StartOf(ParseInZone(c, z), z) = DayLength * (c \div DayLength) - z
  BY <1>s
<1>5. EndOf(ParseInZone(d, z), z) = DayLength * (d \div DayLength + 1) - 1 - z
  <2>1. /\ Midnight(d) \in Int
        /\ StartOf(ParseInZone(d, z), z) = Midnight(d) - z
    BY <1>m, <1>s
  <2>2. DayLength * (d \div DayLength + 1) = Midnight(d) + DayLength
    BY <1>m
  <2> HIDE DEF Midnight
  <2> QED
    BY <1>1, <2>1, <2>2 DEF EndOf
<1>6. StartOf(ParseInZone(c, z), z) <= t <=>
        c \div DayLength <= (t + z) \div DayLength
  <2>1. DayLength * (c \div DayLength) \in Int
    BY <1>1, <1>2
  <2> QED
    BY <1>2, <1>3, <1>4, <2>1
<1>7. t <= EndOf(ParseInZone(d, z), z) <=>
        (t + z) \div DayLength <= d \div DayLength
  <2>1. DayLength * (d \div DayLength + 1) \in Int
    BY <1>1, <1>2
  <2>2. d \div DayLength + 1 <= (t + z) \div DayLength <=>
          DayLength * (d \div DayLength + 1) <= t + z
    BY <1>2, <1>3
  <2> QED
    BY <1>2, <1>5, <2>1, <2>2
<1> QED
  BY <1>6, <1>7

---------------------------------------------------------------------------
(* States *)

Answer == [data : Seq(Rows), totalCount : Nat, totalPages : Int]

(* Where the walk may be: nothing is read or returned before the query is  *)
(* accepted, nor after a page came short.                                  *)
TypeOK ==
    /\ value \in [Rows -> Values \cup {None}]
    /\ zone \in Zones /\ query \in Queries
    /\ status \in {None, 200, 400, 500}
    /\ page \in Nat /\ pages \in Seq(Answer) /\ stayed \subseteq Rows
    /\ count # None => count \in Nat
    /\ found # None => found \in Seq(Rows)
    /\ page = 0 => count = None /\ found = None
    /\ status # 200 => page = 0 /\ pages = << >> /\ ~ left
    /\ status = 200 => Limit \in Nat \ {0}

(* The status is the one the query deserves.                               *)
Judged == status \in {None, Status(query, zone)}

LEMMA MatchingRows ==
  ASSUME TypeOK
  PROVE  /\ Matching \subseteq Rows /\ IsFiniteSet(Matching)
         /\ Cardinality(Matching) \in Nat
         /\ \A x \in Matching : value[x] \in Int
<1>1. Matching \subseteq Rows
  BY DEF Matching
<1>2. IsFiniteSet(Matching)
  BY <1>1, ListingAssumption, FS_Subset
<1>3. \A x \in Matching : value[x] \in Int
  BY ListingAssumption DEF TypeOK, Matching
<1> QED
  BY <1>1, <1>2, <1>3, FS_CardinalityType

LEMMA LimitType ==
  ASSUME TypeOK, page # 0 \/ pages # << >>
  PROVE  Limit \in Nat \ {0}
  BY DEF TypeOK

(* For a query that is accepted, the calendar and the where clause agree.  *)
LEMMA CalendarAgrees ==
  ASSUME TypeOK, Judged, status = 200
  PROVE  OfTheDaysAsked = Matching
<1>1. \A k \in Dates : Given(query, k) => RangeStatus(query.filter[k], zone) = 200
  BY Accepted, ListingAssumption DEF TypeOK, Judged
<1>2. zone \in Int
  BY ListingAssumption DEF TypeOK
<1>3. ASSUME NEW k \in Dates, Given(query, k), NEW t \in Int
      PROVE  LET range == DateRange(query.filter[k], zone)
                 first == FirstPart(query.filter[k]) \div DayLength
                 last  == LastPart(query.filter[k]) \div DayLength
             IN  range.gte <= t /\ t <= range.lte <=>
                   (t + zone) \div DayLength \in first..last
  <2> DEFINE raw == query.filter[k]
             c == FirstPart(raw)
             d == LastPart(raw)
  <2>1. raw \in Seq(Int \cup {Blank, Junk})
    BY <1>3, QueriesAssumption DEF TypeOK, Given
  <2>2. RangeStatus(raw, zone) = 200
    BY <1>1, <1>3
  <2>3. c \in Int /\ d \in Int
    BY <1>2, <2>1, <2>2, EndsOfAFilter
  <2>4. /\ StartOf(ParseInZone(c, zone), zone) <= t <=>
             c \div DayLength <= (t + zone) \div DayLength
        /\ t <= EndOf(ParseInZone(d, zone), zone) <=>
             (t + zone) \div DayLength <= d \div DayLength
    BY <1>2, <1>3, <2>3, RangeIsDays
  <2>5. /\ c \div DayLength \in Int /\ d \div DayLength \in Int
        /\ (t + zone) \div DayLength \in Int
    BY <1>2, <2>3, QueryAssumption
  <2>6. /\ DateRange(raw, zone).gte = StartOf(ParseInZone(c, zone), zone)
        /\ DateRange(raw, zone).lte = EndOf(ParseInZone(d, zone), zone)
    BY DEF DateRange
  <2> HIDE DEF raw, c, d
  <2>7. DateRange(raw, zone).gte <= t /\ t <= DateRange(raw, zone).lte <=>
          (t + zone) \div DayLength \in (c \div DayLength)..(d \div DayLength)
    BY <2>4, <2>5, <2>6
  <2> QED
    BY <2>7 DEF raw, c, d
<1>4. ASSUME NEW x \in Rows, value[x] # None
      PROVE  x \in Matching <=> x \in OfTheDaysAsked
  <2>1. value[x] \in Int
    BY <1>4, ListingAssumption DEF TypeOK
  <2> QED
    BY <1>3, <1>4, <2>1 DEF Matching, Admitted, OfTheDaysAsked
<1> QED
  BY <1>4 DEF Matching, OfTheDaysAsked

(* Pages *)

LEMMA OrderIsASequence ==
  ASSUME TypeOK, NEW s \in Orders
  PROVE  /\ s \in Seq(Matching) /\ Len(s) = Cardinality(Matching)
         /\ DOMAIN s = 1..Cardinality(Matching)
<1>1. s \in [1..Cardinality(Matching) -> Matching]
  BY DEF Orders
<1>2. s \in Seq(Matching)
  BY <1>1, MatchingRows, SeqDef
<1> QED
  BY <1>1, <1>2, MatchingRows, LenProperties

(* What a page holds: the rows from its first place to its last, or to the *)
(* end of the table.                                                       *)
LEMMA PageHolds ==
  ASSUME TypeOK, page # 0, NEW s \in Orders, NEW p \in Nat \ {0}
  PROVE  LET n    == Cardinality(Matching)
             skip == (p - 1) * Limit
             upto == IF skip + Limit < n THEN skip + Limit ELSE n
         IN  /\ skip \in Nat
             /\ Page(s, p) \in Seq(Matching)
             /\ Len(Page(s, p)) = IF skip < n THEN upto - skip ELSE 0
             /\ \A i \in (skip + 1)..upto :
                   /\ i - skip \in DOMAIN Page(s, p)
                   /\ Page(s, p)[i - skip] = s[i]
<1> DEFINE n    == Cardinality(Matching)
           skip == (p - 1) * Limit
           upto == IF skip + Limit < n THEN skip + Limit ELSE n
<1>1. skip \in Nat
  BY LimitType
<1>2. n \in Nat /\ Limit \in Nat \ {0}
  BY MatchingRows, LimitType
<1>3. Page(s, p) = SubSeq(s, skip + 1, upto)
  BY OrderIsASequence DEF Page, Skip
<1> HIDE DEF n, skip, upto
<1>4. upto \in Int /\ upto <= n /\ (skip < n <=> skip + 1 <= upto)
  BY <1>1, <1>2 DEF upto
<1>5. \A i \in (skip + 1)..upto : s[i] \in Matching
  <2>1. \A i \in (skip + 1)..upto : i \in 1..n
    BY <1>1, <1>2, <1>4
  <2> QED
    BY <2>1, OrderIsASequence, ElementOfSeq DEF n
<1>6. /\ SubSeq(s, skip + 1, upto) \in Seq(Matching)
      /\ Len(SubSeq(s, skip + 1, upto)) =
            IF skip + 1 <= upto THEN upto - (skip + 1) + 1 ELSE 0
      /\ \A j \in 1..(upto - (skip + 1) + 1) :
            SubSeq(s, skip + 1, upto)[j] = s[(skip + 1) + j - 1]
  <2>1. skip + 1 \in Int
    BY <1>1
  <2> QED
    BY <1>4, <1>5, <2>1, SubSeqProperties
<1>7. Page(s, p) \in Seq(Matching)
  BY <1>3, <1>6
<1>8. Len(Page(s, p)) = IF skip < n THEN upto - skip ELSE 0
  BY <1>1, <1>3, <1>4, <1>6
<1>9. ASSUME NEW i \in (skip + 1)..upto
      PROVE  i - skip \in DOMAIN Page(s, p) /\ Page(s, p)[i - skip] = s[i]
  <2>1. i - skip \in 1..(upto - (skip + 1) + 1)
    BY <1>1, <1>4
  <2>2. (skip + 1) + (i - skip) - 1 = i
    BY <1>1, <1>4
  <2>3. Page(s, p)[i - skip] = s[i]
    BY <1>3, <1>6, <2>1, <2>2
  <2>4. Len(Page(s, p)) = upto - skip
    BY <1>1, <1>4, <1>8
  <2>5. DOMAIN Page(s, p) = 1..Len(Page(s, p))
    BY <1>7, LenProperties
  <2>6. i - skip \in 1..Len(Page(s, p))
    BY <1>1, <1>4, <2>1, <2>4
  <2> QED
    BY <2>3, <2>5, <2>6
<1> QED
  BY <1>1, <1>7, <1>8, <1>9 DEF n, skip, upto

(* The rows that come before one in every order.                           *)
Ahead(x) == {y \in Matching : Before(y, x)}

LEMMA AheadIsFinite ==
  ASSUME TypeOK, NEW x
  PROVE  IsFiniteSet(Ahead(x)) /\ Cardinality(Ahead(x)) \in Nat
<1>1. Ahead(x) \in SUBSET Matching
  BY DEF Ahead
<1> QED
  BY <1>1, MatchingRows, FS_Subset, FS_CardinalityType

(* A row that shares its value with no other stands, in every order, right *)
(* behind those that come before it.                                       *)
LEMMA Position ==
  ASSUME TypeOK, NEW x \in Matching, Distinct(x), NEW s \in Orders
  PROVE  /\ Cardinality(Ahead(x)) + 1 \in 1..Cardinality(Matching)
         /\ s[Cardinality(Ahead(x)) + 1] = x
<1> DEFINE n == Cardinality(Matching)
<1>1. n \in Nat /\ IsFiniteSet(Matching)
  BY MatchingRows
<1>2. /\ s \in [1..n -> Matching]
      /\ \A i, j \in 1..n : s[i] = s[j] => i = j
      /\ \A i, j \in 1..n : Before(s[i], s[j]) => i < j
  BY DEF Orders
<1>3. s \in Surjection(1..n, Matching)
  <2>1. s \in Injection(1..n, Matching)
    BY <1>2 DEF Injection, IsInjective
  <2>2. Cardinality(1..n) = n
    BY <1>1, FS_Interval
  <2> QED
    BY <1>1, <2>1, <2>2, FS_Injection
<1>4. PICK i \in 1..n : s[i] = x
  BY <1>3 DEF Surjection
<1>5. \A j \in 1..n : s[j] \in Ahead(x) <=> j < i
  <2> SUFFICES ASSUME NEW j \in 1..n
               PROVE  s[j] \in Ahead(x) <=> j < i
    OBVIOUS
  <2>1. s[j] \in Ahead(x) => j < i
    BY <1>2, <1>4 DEF Ahead
  <2>2. ASSUME j < i
        PROVE  s[j] \in Ahead(x)
    <3>1. s[j] \in Matching /\ s[j] # x
      BY <1>1, <1>2, <1>4, <2>2
    <3>2. value[s[j]] # value[x] /\ value[s[j]] \in Int /\ value[x] \in Int
      BY <3>1, MatchingRows DEF Distinct
    <3>3. Before(s[j], x) \/ Before(x, s[j])
      BY <3>2 DEF Before
    <3>4. ~ Before(x, s[j])
      BY <1>1, <1>2, <1>4, <2>2
    <3> QED
      BY <3>1, <3>3, <3>4 DEF Ahead
  <2> QED
    BY <2>1, <2>2
<1>6. Cardinality(Ahead(x)) = i - 1
  <2> DEFINE f == [j \in 1..(i - 1) |-> s[j]]
  <2>1. \A j \in 1..(i - 1) : j \in 1..n /\ j < i
    BY <1>1, <1>4
  <2>2. f \in [1..(i - 1) -> Ahead(x)]
    BY <1>5, <2>1
  <2>3. \A j, k \in 1..(i - 1) : f[j] = f[k] => j = k
    BY <1>2, <2>1
  <2>4. \A y \in Ahead(x) : \E j \in 1..(i - 1) : f[j] = y
    <3> SUFFICES ASSUME NEW y \in Ahead(x)
                 PROVE  \E j \in 1..(i - 1) : f[j] = y
      OBVIOUS
    <3>1. PICK j \in 1..n : s[j] = y
      BY <1>3 DEF Surjection, Ahead
    <3>2. j \in 1..(i - 1)
      BY <1>1, <1>4, <1>5, <3>1
    <3> QED
      BY <3>1, <3>2
  <2> HIDE DEF f
  <2>5. f \in Bijection(1..(i - 1), Ahead(x))
    BY <2>2, <2>3, <2>4 DEF Bijection, Injection, IsInjective, Surjection
  <2>6. ExistsBijection(1..(i - 1), Ahead(x)) /\ i - 1 \in Nat
    BY <1>1, <1>4, <2>5 DEF ExistsBijection
  <2> QED
    BY <2>6, FS_CountingElements
<1>7. Cardinality(Ahead(x)) + 1 = i
  BY <1>1, <1>4, <1>6
<1> QED
  BY <1>4, <1>7

---------------------------------------------------------------------------
(* Types *)

LEMMA FoundRows ==
  ASSUME TypeOK, FindMany
  PROVE  found' \in Seq(Rows) /\ \A i \in DOMAIN found' : found'[i] \in Matching
<1>1. PICK s \in Orders : found' = Page(s, page)
  BY DEF FindMany
<1>2. page \in Nat \ {0}
  BY DEF FindMany, TypeOK
<1>3. found' \in Seq(Matching)
  BY <1>1, <1>2, PageHolds
<1> QED
  BY <1>3, MatchingRows, SeqMonotonic, LenProperties, ElementOfSeq

(* The response of a page.                                                 *)
LEMMA Answers ==
  ASSUME TypeOK, Respond
  PROVE  LET answer == [data |-> found, totalCount |-> count,
                        totalPages |-> TotalPages(count)]
         IN  /\ answer \in Answer /\ pages' = Append(pages, answer)
             /\ status = 200 /\ page \in Nat \ {0} /\ Len(found) \in Nat
<1>1. count \in Nat /\ found \in Seq(Rows) /\ page # 0
  BY DEF TypeOK, Respond
<1>2. TotalPages(count) \in Int
  BY <1>1, LimitType DEF TotalPages
<1>3. status = 200 /\ page \in Nat \ {0}
  BY <1>1 DEF TypeOK
<1>4. Len(found) \in Nat
  BY <1>1, LenProperties
<1>5. [data |-> found, totalCount |-> count, totalPages |-> TotalPages(count)]
        \in Answer
  BY <1>1, <1>2 DEF Answer
<1> QED
  BY <1>3, <1>4, <1>5 DEF Respond

LEMMA TypesHold == Spec => []TypeOK
<1>1. Init => TypeOK
  BY EmptySeq, ListingAssumption DEF Init, TypeOK
<1>2. TypeOK /\ [Next]_vars => TypeOK'
  <2> SUFFICES ASSUME TypeOK, [Next]_vars
               PROVE  TypeOK'
    OBVIOUS
  <2>1. CASE Ask
    <3>1. status' \in {200, 400, 500}
      BY <2>1, StatusType DEF Ask
    <3>2. status' = 200 => /\ page' = 1 /\ stayed' \subseteq Rows
                           /\ Limit' \in Nat \ {0}
      <4>1. Status(query, zone) = 200 =>
              PageOf(query) = 1 /\ LimitOf(query) \in Nat \ {0}
        BY Accepted DEF TypeOK
      <4>2. Matching \subseteq Rows
        BY MatchingRows
      <4> QED
        BY <2>1, <4>1, <4>2 DEF Ask, Limit
    <3>3. page = 0 /\ pages = << >> /\ ~ left
      BY <2>1, ListingAssumption DEF Ask, TypeOK
    <3>4. CASE status' = 200
      BY <2>1, <3>2, <3>3, <3>4 DEF Ask, TypeOK
    <3>5. CASE status' # 200
      BY <2>1, <3>1, <3>3, <3>5 DEF Ask, TypeOK
    <3> QED
      BY <3>4, <3>5
  <2>2. CASE Count
    BY <2>2, MatchingRows DEF Count, TypeOK, asked, Limit
  <2>3. CASE FindMany
    BY <2>3, FoundRows DEF FindMany, TypeOK, asked, Limit
  <2>4. CASE Respond
    <3>1. pages' \in Seq(Answer)
      BY <2>4, Answers, AppendProperties DEF TypeOK
    <3>2. status = 200 /\ page' \in Nat
      BY <2>4, Answers DEF Respond
    <3>3. count' = None /\ found' = None
      BY <2>4 DEF Respond
    <3> QED
      BY <2>4, <3>1, <3>2, <3>3 DEF Respond, TypeOK, asked, Limit
  <2>5. ASSUME NEW x \in Rows, Enter(x)
        PROVE  TypeOK'
    BY <2>5 DEF Enter, TypeOK, asked, walk, Limit
  <2>6. ASSUME NEW x \in Rows, Leave(x)
        PROVE  TypeOK'
    <3>1. page # 0
      BY <2>6 DEF Leave, Walking
    <3> QED
      BY <2>6, <3>1 DEF Leave, TypeOK, asked, walk, Limit
  <2>7. CASE UNCHANGED vars
    BY <2>7 DEF vars, TypeOK, asked, walk, Limit
  <2> QED
    BY <2>1, <2>2, <2>3, <2>4, <2>5, <2>6, <2>7 DEF Next
<1> QED
  BY <1>1, <1>2, PTL DEF Spec

LEMMA JudgedHolds == Spec => []Judged
<1>1. Init => Judged
  BY DEF Init, Judged
<1>2. Judged /\ [Next]_vars => Judged'
  <2> SUFFICES ASSUME Judged, [Next]_vars
               PROVE  Judged'
    OBVIOUS
  <2>1. CASE Ask
    BY <2>1 DEF Ask, Judged
  <2>2. CASE UNCHANGED asked
    BY <2>2 DEF Judged, asked
  <2>3. Next => Ask \/ UNCHANGED asked
    BY DEF Next, Count, FindMany, Respond, Enter, Leave
  <2> QED
    BY <2>1, <2>2, <2>3 DEF vars
<1> QED
  BY <1>1, <1>2, PTL DEF Spec

---------------------------------------------------------------------------
(* Walks *)

(* A row that has not been returned is not behind the client: it is on the *)
(* page just read, or as many rows come before it as the pages he has been *)
(* through hold.                                                           *)
ToCome(x) ==
    \/ x \in Seen
    \/ page # 0 /\ found = None /\ (page - 1) * Limit <= Cardinality(Ahead(x))
    \/ /\ page # 0 /\ found # None
       /\ \/ \E i \in DOMAIN found : found[i] = x
          \/ Len(found) >= Limit /\ page * Limit <= Cardinality(Ahead(x))

OnTheWay ==
    status = 200 /\ ~ left =>
        \A x \in stayed : x \in Matching /\ (Distinct(x) => ToCome(x))

LEMMA SameTable ==
  ASSUME UNCHANGED <<value, asked>>
  PROVE  /\ Matching' = Matching /\ Limit' = Limit
         /\ \A x : Ahead(x)' = Ahead(x)
         /\ \A x : Distinct(x)' <=> Distinct(x)
<1>1. value' = value /\ zone' = zone /\ query' = query
  BY DEF asked
<1>2. Matching' = Matching /\ Limit' = Limit
  BY <1>1 DEF Matching, Limit
<1>3. \A x, y : Before(x, y)' <=> Before(x, y)
  BY <1>1 DEF Before
<1> QED
  BY <1>1, <1>2, <1>3 DEF Ahead, Distinct

LEMMA SeenRows ==
  ASSUME NEW x
  PROVE  x \in Seen <=> \E k \in DOMAIN pages : \E i \in DOMAIN pages[k].data :
                           pages[k].data[i] = x
  BY DEF Seen

LEMMA SeenAfterRespond ==
  ASSUME TypeOK, Respond
  PROVE  /\ Seen \subseteq Seen'
         /\ \A i \in DOMAIN found : found[i] \in Seen'
<1> DEFINE answer == [data |-> found, totalCount |-> count,
                      totalPages |-> TotalPages(count)]
<1>1. /\ pages' = Append(pages, answer) /\ answer \in Answer
      /\ pages \in Seq(Answer)
  BY Answers DEF TypeOK
<1>2. /\ DOMAIN pages = 1..Len(pages) /\ DOMAIN pages' = 1..(Len(pages) + 1)
      /\ Len(pages) \in Nat
      /\ \A k \in DOMAIN pages : k \in DOMAIN pages' /\ pages'[k] = pages[k]
      /\ Len(pages) + 1 \in DOMAIN pages' /\ pages'[Len(pages) + 1] = answer
  <2> HIDE DEF answer
  <2>1. pages' \in Seq(Answer) /\ Len(pages') = Len(pages) + 1
    BY <1>1, AppendProperties
  <2>2. /\ \A k \in 1..Len(pages) : pages'[k] = pages[k]
        /\ pages'[Len(pages) + 1] = answer
    BY <1>1, AppendProperties
  <2>3. /\ DOMAIN pages = 1..Len(pages) /\ DOMAIN pages' = 1..(Len(pages) + 1)
        /\ Len(pages) \in Nat
    BY <1>1, <2>1, LenProperties
  <2> QED
    BY <2>2, <2>3
<1>3. ASSUME NEW x \in Seen
      PROVE  x \in Seen'
  <2>1. PICK k \in DOMAIN pages : \E i \in DOMAIN pages[k].data : pages[k].data[i] = x
    BY SeenRows
  <2>2. k \in DOMAIN pages' /\ pages'[k] = pages[k]
    BY <1>2
  <2> QED
    BY <2>1, <2>2 DEF Seen
<1>4. ASSUME NEW i \in DOMAIN found
      PROVE  found[i] \in Seen'
  <2>1. pages'[Len(pages) + 1].data = found /\ Len(pages) + 1 \in DOMAIN pages'
    BY <1>2
  <2> QED
    BY <2>1 DEF Seen
<1> QED
  BY <1>3, <1>4

LEMMA FindManyKeepsComing ==
  ASSUME TypeOK, FindMany, NEW x \in Matching, Distinct(x), ToCome(x)
  PROVE  ToCome(x)'
<1> DEFINE n    == Cardinality(Matching)
           skip == (page - 1) * Limit
           upto == IF skip + Limit < n THEN skip + Limit ELSE n
           c    == Cardinality(Ahead(x))
<1>1. /\ page # 0 /\ found = None /\ page' = page /\ Seen' = Seen
      /\ UNCHANGED <<value, asked>>
  BY DEF FindMany, Seen
<1>2. Ahead(x)' = Ahead(x) /\ Limit' = Limit
  BY <1>1, SameTable
<1>3. CASE x \in Seen
  BY <1>1, <1>3 DEF ToCome
<1>4. CASE found' = None
  BY <1>1, <1>2, <1>4 DEF ToCome
<1>5. CASE x \notin Seen /\ found' # None
  <2>1. skip <= c
    BY <1>1, <1>5 DEF ToCome
  <2>2. PICK s \in Orders : found' = Page(s, page)
    BY DEF FindMany
  <2>3. c + 1 \in 1..n /\ s[c + 1] = x
    BY Position
  <2>4. page \in Nat \ {0} /\ Limit \in Nat \ {0} /\ n \in Nat /\ c \in Nat
    BY <1>1, LimitType, MatchingRows, AheadIsFinite DEF TypeOK
  <2>5. /\ skip \in Nat
        /\ Len(found') = IF skip < n THEN upto - skip ELSE 0
        /\ \A i \in (skip + 1)..upto :
              i - skip \in DOMAIN found' /\ found'[i - skip] = s[i]
    BY <2>2, <2>4, PageHolds
  <2>6. skip + Limit = page * Limit
    <3>1. \A p \in Nat, l \in Nat : (p - 1) * l + l = p * l
      OBVIOUS
    <3> QED
      BY <2>4, <3>1
  <2> HIDE DEF n, skip, c
  <2>7. CASE c < skip + Limit
    <3>1. c + 1 \in (skip + 1)..upto
      BY <2>1, <2>3, <2>4, <2>5, <2>7
    <3>2. c + 1 - skip \in DOMAIN found' /\ found'[c + 1 - skip] = x
      BY <2>3, <2>4, <2>5, <3>1
    <3> QED
      BY <1>1, <1>5, <3>2 DEF ToCome
  <2>8. CASE skip + Limit <= c
    <3>1. Len(found') = Limit
      BY <2>3, <2>4, <2>5, <2>8
    <3>2. page' * Limit' <= Cardinality(Ahead(x)')
      BY <1>1, <1>2, <2>6, <2>8 DEF c
    <3> QED
      BY <1>1, <1>2, <1>5, <2>4, <3>1, <3>2 DEF ToCome
  <2> QED
    BY <2>4, <2>5, <2>7, <2>8
<1> QED
  BY <1>3, <1>4, <1>5

LEMMA RespondKeepsComing ==
  ASSUME TypeOK, Respond, NEW x, ToCome(x)
  PROVE  ToCome(x)'
<1>1. /\ found # None /\ found' = None /\ UNCHANGED <<value, asked>>
      /\ page' = IF Len(found) < Limit THEN 0 ELSE page + 1
  BY DEF Respond
<1>2. Ahead(x)' = Ahead(x) /\ Limit' = Limit
  BY <1>1, SameTable
<1>3. CASE x \in Seen
  BY <1>3, SeenAfterRespond DEF ToCome
<1>4. CASE \E i \in DOMAIN found : found[i] = x
  BY <1>4, SeenAfterRespond DEF ToCome
<1>5. CASE Len(found) >= Limit /\ page * Limit <= Cardinality(Ahead(x))
  <2>1. page \in Nat /\ Limit \in Nat /\ Len(found) \in Nat
    BY LimitType, Answers
  <2>2. page' = page + 1 /\ page' # 0
    BY <1>1, <1>5, <2>1
  <2>3. page' - 1 = page
    BY <2>1, <2>2
  <2>4. (page' - 1) * Limit' <= Cardinality(Ahead(x)')
    BY <1>2, <1>5, <2>3
  <2> QED
    BY <1>1, <2>2, <2>4 DEF ToCome
<1> QED
  BY <1>1, <1>3, <1>4, <1>5 DEF ToCome

(* A row that comes in may push others back, never forward.                *)
LEMMA EnterKeepsComing ==
  ASSUME TypeOK, NEW y \in Rows, Enter(y), NEW x \in Matching
  PROVE  /\ x \in Matching'
         /\ Distinct(x)' => Distinct(x)
         /\ ToCome(x) => ToCome(x)'
<1>1. PICK v \in Values : Admitted(query, zone, v) /\ value' = [value EXCEPT ![y] = v]
  BY DEF Enter
<1>2. /\ zone' = zone /\ query' = query /\ UNCHANGED walk
      /\ page # 0 /\ y \notin Matching
  BY DEF Enter, asked, Walking
<1>3. \A z \in Matching : z \in Rows /\ value'[z] = value[z]
  BY <1>1, <1>2 DEF Matching, TypeOK
<1>4. Matching \subseteq Matching'
  BY <1>2, <1>3 DEF Matching
<1>5. Limit' = Limit /\ Seen' = Seen /\ page' = page /\ found' = found
  BY <1>2 DEF Limit, Seen, walk
<1>6. Distinct(x)' => Distinct(x)
  BY <1>3, <1>4 DEF Distinct
<1>7. Ahead(x) \subseteq Ahead(x)'
  BY <1>2, <1>3, <1>4 DEF Ahead, Before
<1>8. Cardinality(Ahead(x)) <= Cardinality(Ahead(x)')
  <2>1. Matching' \in SUBSET Rows
    BY DEF Matching
  <2>2. IsFiniteSet(Ahead(x)')
    <3>1. Ahead(x)' \in SUBSET Rows
      BY <2>1 DEF Ahead
    <3> QED
      BY <3>1, ListingAssumption, FS_Subset
  <2> QED
    BY <1>7, <2>2, FS_Subset
<1>9. /\ Cardinality(Ahead(x)) \in Nat /\ Cardinality(Ahead(x)') \in Nat
      /\ (page - 1) * Limit \in Int /\ page * Limit \in Int
  <2>1. Ahead(x)' \in SUBSET Rows
    BY DEF Ahead, Matching
  <2>2. Cardinality(Ahead(x)') \in Nat
    BY <2>1, ListingAssumption, FS_Subset, FS_CardinalityType
  <2>3. page \in Nat /\ Limit \in Nat
    BY <1>2, LimitType DEF TypeOK
  <2> QED
    BY <2>2, <2>3, AheadIsFinite
<1>10. ToCome(x) => ToCome(x)'
  BY <1>5, <1>8, <1>9 DEF ToCome
<1> QED
  BY <1>4, <1>6, <1>10

LEMMA NobodyIsPassed == Spec => []OnTheWay
<1>1. Init => OnTheWay
  BY ListingAssumption DEF Init, OnTheWay
<1>2. TypeOK /\ OnTheWay /\ [Next]_vars => OnTheWay'
  <2> SUFFICES ASSUME TypeOK, OnTheWay, [Next]_vars, status' = 200, ~ left',
                      NEW x \in stayed'
               PROVE  x \in Matching' /\ (Distinct(x)' => ToCome(x)')
    BY DEF OnTheWay
  <2>1. CASE Ask
    <3>1. page' = 1 /\ stayed' = Matching /\ found' = found /\ found = None
      <4>1. Status(query, zone) = 200 => PageOf(query) = 1
        BY Accepted DEF TypeOK
      <4>2. page = 0 /\ found = None
        BY <2>1, ListingAssumption DEF Ask, TypeOK
      <4> QED
        BY <2>1, <4>1, <4>2 DEF Ask
    <3>2. UNCHANGED <<value, zone, query>>
      BY <2>1 DEF Ask
    <3>3. /\ Matching' = Matching /\ Limit' = Limit
          /\ Ahead(x)' = Ahead(x)
      BY <3>2 DEF Matching, Limit, Ahead, Before
    <3>4. (page' - 1) * Limit' <= Cardinality(Ahead(x)')
      <4>1. Limit \in Nat
        BY <2>1, Accepted DEF Ask, TypeOK, Limit
      <4> QED
        BY <3>1, <3>3, <4>1, AheadIsFinite
    <3> QED
      BY <3>1, <3>3, <3>4 DEF ToCome
  <2>2. CASE Count \/ UNCHANGED vars
    <3>1. UNCHANGED <<value, asked, status, page, found, pages, stayed, left>>
      BY <2>2 DEF Count, vars, asked, walk
    <3>2. x \in Matching /\ (Distinct(x) => ToCome(x))
      BY <3>1 DEF OnTheWay
    <3>3. Seen' = Seen
      BY <3>1 DEF Seen
    <3> QED
      BY <3>1, <3>2, <3>3, SameTable DEF ToCome
  <2>3. CASE FindMany
    <3>1. UNCHANGED <<value, asked, status, stayed, left>>
      BY <2>3 DEF FindMany, asked
    <3>2. x \in Matching /\ (Distinct(x) => ToCome(x))
      BY <3>1 DEF OnTheWay
    <3> QED
      BY <2>3, <3>1, <3>2, SameTable, FindManyKeepsComing
  <2>4. CASE Respond
    <3>1. UNCHANGED <<value, asked, status, stayed, left>>
      BY <2>4 DEF Respond, asked
    <3>2. x \in Matching /\ (Distinct(x) => ToCome(x))
      BY <3>1 DEF OnTheWay
    <3> QED
      BY <2>4, <3>1, <3>2, SameTable, RespondKeepsComing
  <2>5. ASSUME NEW y \in Rows, Enter(y)
        PROVE  x \in Matching' /\ (Distinct(x)' => ToCome(x)')
    <3>1. UNCHANGED <<status, stayed, left>>
      BY <2>5 DEF Enter, asked
    <3>2. x \in Matching /\ (Distinct(x) => ToCome(x))
      BY <3>1 DEF OnTheWay
    <3> QED
      BY <2>5, <3>2, EnterKeepsComing
  <2>6. ASSUME NEW y \in Rows, Leave(y)
        PROVE  FALSE
    BY <2>6 DEF Leave
  <2> QED
    BY <2>1, <2>2, <2>3, <2>4, <2>5, <2>6 DEF Next
<1> QED
  BY <1>1, <1>2, TypesHold, PTL DEF Spec

(* However other requests insert rows while a client pages through any     *)
(* table, he is returned every row that was there all along, and alone     *)
(* with its value; only a row that leaves its place can make him miss one. *)
THEOREM WalksMissNothing == Spec => []NothingMissed
<1>1. OnTheWay => NothingMissed
  BY DEF OnTheWay, NothingMissed, Ended, ToCome
<1> QED
  BY <1>1, NobodyIsPassed, PTL

(* Rows that stand alone *)

Single(x) ==
    \A k, m \in DOMAIN pages :
        \A i \in DOMAIN pages[k].data, j \in DOMAIN pages[m].data :
            pages[k].data[i] = x /\ pages[m].data[j] = x => k = m /\ i = j

(* Once returned, or on the page just read, a row is behind the client:    *)
(* fewer rows come before it than the pages up to there hold.              *)
Behind(x) ==
    /\ x \in Matching /\ Distinct(x) /\ Single(x)
    /\ page # 0 /\ x \in Seen => Cardinality(Ahead(x)) < (page - 1) * Limit
    /\ found # None =>
         \A i \in DOMAIN found : found[i] = x =>
            /\ x \notin Seen /\ Cardinality(Ahead(x)) < page * Limit
            /\ \A j \in DOMAIN found : found[j] = x => i = j

OnceOnly == \A x \in alone : Behind(x)

(* A page holds a row that stands alone at its place in every order.       *)
LEMMA PlaceOnPage ==
  ASSUME TypeOK, FindMany, NEW x \in Matching, Distinct(x),
         NEW i \in DOMAIN found', found'[i] = x
  PROVE  /\ i \in 1..Limit /\ Limit \in Nat /\ page \in Nat
         /\ Cardinality(Ahead(x)) + 1 = (page - 1) * Limit + i
<1> DEFINE n    == Cardinality(Matching)
           skip == (page - 1) * Limit
           upto == IF skip + Limit < n THEN skip + Limit ELSE n
           c    == Cardinality(Ahead(x))
<1>1. page \in Nat \ {0}
  BY DEF FindMany, TypeOK
<1>2. Limit \in Nat \ {0} /\ n \in Nat /\ c \in Nat
  BY <1>1, LimitType, MatchingRows, AheadIsFinite
<1>3. PICK s \in Orders : found' = Page(s, page)
  BY DEF FindMany
<1>4. /\ skip \in Nat /\ found' \in Seq(Matching)
      /\ Len(found') = IF skip < n THEN upto - skip ELSE 0
      /\ \A a \in (skip + 1)..upto : found'[a - skip] = s[a]
  BY <1>1, <1>3, PageHolds
<1>5. /\ c + 1 \in 1..n /\ s[c + 1] = x
      /\ \A a, b \in 1..n : s[a] = s[b] => a = b
  BY Position DEF Orders
<1>6. i \in 1..Len(found')
  BY <1>4, LenProperties
<1> HIDE DEF n, skip, c
<1>7. /\ skip + i \in (skip + 1)..upto /\ skip + i \in 1..n
      /\ (skip + i) - skip = i /\ i \in 1..Limit
  BY <1>2, <1>4, <1>6
<1>8. s[skip + i] = x
  BY <1>4, <1>7
<1>9. c + 1 = skip + i
  BY <1>5, <1>7, <1>8
<1> QED
  BY <1>1, <1>2, <1>7, <1>9 DEF c, skip

LEMMA FindManyLeavesBehind ==
  ASSUME TypeOK, FindMany, NEW x, Behind(x)
  PROVE  Behind(x)'
<1>1. /\ page # 0 /\ page' = page /\ pages' = pages
      /\ UNCHANGED <<value, asked>>
  BY DEF FindMany
<1>2. /\ Seen' = Seen /\ (Single(x)' <=> Single(x))
      /\ Matching' = Matching /\ Limit' = Limit /\ Ahead(x)' = Ahead(x)
      /\ Distinct(x)' <=> Distinct(x)
  BY <1>1, SameTable DEF Seen, Single
<1>3. x \in Matching /\ Distinct(x) /\ Single(x)
  BY DEF Behind
<1>4. x \in Seen => Cardinality(Ahead(x)) < (page - 1) * Limit
  BY <1>1 DEF Behind
<1>5. ASSUME NEW i \in DOMAIN found', found'[i] = x
      PROVE  /\ x \notin Seen /\ Cardinality(Ahead(x)) < page * Limit
             /\ \A j \in DOMAIN found' : found'[j] = x => i = j
  <2> DEFINE c == Cardinality(Ahead(x))
             skip == (page - 1) * Limit
  <2>1. i \in 1..Limit /\ Limit \in Nat /\ page \in Nat /\ c + 1 = skip + i
    BY <1>3, <1>5, PlaceOnPage
  <2>2. \A j \in DOMAIN found' : found'[j] = x => j \in 1..Limit /\ c + 1 = skip + j
    BY <1>3, PlaceOnPage
  <2>3. skip \in Int /\ c \in Nat
    BY <2>1, AheadIsFinite
  <2>4. page * Limit = skip + Limit
    <3>1. \A p \in Nat, l \in Nat : (p - 1) * l + l = p * l
      OBVIOUS
    <3> QED
      BY <2>1, <3>1
  <2>5. x \in Seen => c < skip
    BY <1>4
  <2> HIDE DEF c, skip
  <2>6. x \notin Seen /\ c < page * Limit
    BY <2>1, <2>3, <2>4, <2>5
  <2>7. \A j \in DOMAIN found' : found'[j] = x => i = j
    BY <2>1, <2>2, <2>3
  <2> QED
    BY <2>6, <2>7 DEF c
<1> QED
  BY <1>1, <1>2, <1>3, <1>4, <1>5 DEF Behind

LEMMA RespondLeavesBehind ==
  ASSUME TypeOK, Respond, NEW x, Behind(x)
  PROVE  Behind(x)'
<1> DEFINE answer == [data |-> found, totalCount |-> count,
                      totalPages |-> TotalPages(count)]
           last == Len(pages) + 1
<1>1. /\ page \in Nat /\ page # 0 /\ found # None /\ found' = None
      /\ page' = 0 \/ page' = page + 1
      /\ UNCHANGED <<value, asked>>
  BY Answers DEF Respond
<1>2. /\ Matching' = Matching /\ Limit' = Limit /\ Ahead(x)' = Ahead(x)
      /\ Distinct(x)' <=> Distinct(x)
  BY <1>1, SameTable
<1>3. /\ DOMAIN pages' = DOMAIN pages \cup {last} /\ last \notin DOMAIN pages
      /\ \A k \in DOMAIN pages : pages'[k] = pages[k]
      /\ pages'[last].data = found
  <2>1. pages' = Append(pages, answer) /\ answer \in Answer /\ pages \in Seq(Answer)
    BY Answers DEF TypeOK
  <2>2. answer.data = found
    OBVIOUS
  <2> HIDE DEF answer
  <2>3. /\ pages' \in Seq(Answer) /\ Len(pages') = Len(pages) + 1
        /\ \A k \in 1..Len(pages) : pages'[k] = pages[k]
        /\ pages'[Len(pages) + 1] = answer
    BY <2>1, AppendProperties
  <2>4. /\ DOMAIN pages = 1..Len(pages) /\ DOMAIN pages' = 1..(Len(pages) + 1)
        /\ Len(pages) \in Nat
    BY <2>1, <2>3, LenProperties
  <2> QED
    BY <2>2, <2>3, <2>4
<1> HIDE DEF last
<1>4. x \in Seen' <=> x \in Seen \/ \E i \in DOMAIN found : found[i] = x
  BY <1>3 DEF Seen
<1>5. /\ x \in Matching /\ Distinct(x) /\ Single(x)
      /\ x \in Seen => Cardinality(Ahead(x)) < (page - 1) * Limit
      /\ \A i \in DOMAIN found : found[i] = x =>
            /\ x \notin Seen /\ Cardinality(Ahead(x)) < page * Limit
            /\ \A j \in DOMAIN found : found[j] = x => i = j
  BY <1>1 DEF Behind
<1>6. x \in Seen' => Cardinality(Ahead(x)) < page * Limit
  <2>1. Limit \in Nat
    BY <1>1, LimitType
  <2>2. (page - 1) * Limit \in Int /\ (page - 1) * Limit <= page * Limit
    <3>1. \A p \in Nat, l \in Nat : (p - 1) * l \in Int /\ (p - 1) * l + l = p * l
      OBVIOUS
    <3> QED
      BY <1>1, <2>1, <3>1
  <2>3. page * Limit \in Int
    BY <1>1, <2>1
  <2> QED
    BY <1>4, <1>5, <2>2, <2>3, AheadIsFinite
<1>7. Single(x)'
  <2> SUFFICES ASSUME NEW k \in DOMAIN pages', NEW m \in DOMAIN pages',
                      NEW i \in DOMAIN pages'[k].data, NEW j \in DOMAIN pages'[m].data,
                      pages'[k].data[i] = x, pages'[m].data[j] = x
               PROVE  k = m /\ i = j
    BY DEF Single
  <2>1. CASE k = last /\ m = last
    BY <1>3, <1>5, <2>1
  <2>2. CASE k = last /\ m # last
    BY <1>3, <1>5, <2>2 DEF Seen
  <2>3. CASE k # last /\ m = last
    BY <1>3, <1>5, <2>3 DEF Seen
  <2>4. CASE k # last /\ m # last
    BY <1>3, <1>5, <2>4 DEF Single
  <2> QED
    BY <2>1, <2>2, <2>3, <2>4
<1>8. page' # 0 => page' - 1 = page
  BY <1>1
<1> QED
  BY <1>1, <1>2, <1>5, <1>6, <1>7, <1>8 DEF Behind

(* A row that goes may pull others forward, never push them back.          *)
LEMMA LeaveLeavesBehind ==
  ASSUME TypeOK, NEW y \in Rows, Leave(y), NEW x \in alone', Behind(x)
  PROVE  Behind(x)'
<1>1. PICK v \in (Values \cup {None}) \ {value[y]} :
          /\ value' = [value EXCEPT ![y] = v]
          /\ alone' = IF v # None /\ Admitted(query, zone, v) THEN {} ELSE alone \ {y}
  BY DEF Leave
<1>2. x # y /\ (v = None \/ ~ Admitted(query, zone, v))
  BY <1>1
<1>3. /\ zone' = zone /\ query' = query /\ UNCHANGED walk
      /\ page # 0 /\ y \in Matching
  BY DEF Leave, asked, Walking
<1>4. \A z \in Rows : value'[z] = IF z = y THEN v ELSE value[z]
  BY <1>1 DEF TypeOK
<1>5. Matching' = Matching \ {y}
  BY <1>2, <1>3, <1>4 DEF Matching
<1>6. x \in Matching /\ Distinct(x) /\ Single(x)
  BY DEF Behind
<1>7. \A z \in Matching' : z \in Matching /\ value'[z] = value[z]
  BY <1>4, <1>5 DEF Matching
<1>8. x \in Matching' /\ Distinct(x)'
  BY <1>2, <1>5, <1>6, <1>7 DEF Distinct
<1>9. Ahead(x)' \in SUBSET Ahead(x)
  BY <1>3, <1>7, <1>8 DEF Ahead, Before
<1>10. /\ Cardinality(Ahead(x)') \in Nat /\ Cardinality(Ahead(x)) \in Nat
       /\ Cardinality(Ahead(x)') <= Cardinality(Ahead(x))
  BY <1>9, AheadIsFinite, FS_Subset, FS_CardinalityType
<1>11. (page - 1) * Limit \in Int /\ page * Limit \in Int
  <2>1. page \in Nat /\ Limit \in Nat
    BY <1>3, LimitType DEF TypeOK
  <2> QED
    BY <2>1
<1>12. /\ Seen' = Seen /\ (Single(x)' <=> Single(x)) /\ Limit' = Limit
       /\ page' = page /\ found' = found
  BY <1>3 DEF Seen, Single, Limit, walk
<1>13. x \in Seen => Cardinality(Ahead(x)') < (page - 1) * Limit
  BY <1>3, <1>10, <1>11 DEF Behind
<1>14. ASSUME found # None, NEW i \in DOMAIN found, found[i] = x
       PROVE  /\ x \notin Seen /\ Cardinality(Ahead(x)') < page * Limit
              /\ \A j \in DOMAIN found : found[j] = x => i = j
  BY <1>10, <1>11, <1>14 DEF Behind
<1> QED
  BY <1>6, <1>8, <1>12, <1>13, <1>14 DEF Behind

LEMMA AloneIsOnce == Spec => []OnceOnly
<1>1. Init => OnceOnly
  BY DEF Init, OnceOnly
<1>2. TypeOK /\ OnceOnly /\ [Next]_vars => OnceOnly'
  <2> SUFFICES ASSUME TypeOK, OnceOnly, [Next]_vars, NEW x \in alone'
               PROVE  Behind(x)'
    BY DEF OnceOnly
  <2>1. CASE Ask
    <3>1. page = 0 /\ pages = << >> /\ found = None
      BY <2>1, ListingAssumption DEF Ask, TypeOK
    <3>2. UNCHANGED <<value, zone, query, found, pages>>
      BY <2>1 DEF Ask
    <3>3. Matching' = Matching /\ (Distinct(x)' <=> Distinct(x))
      BY <3>2 DEF Matching, Distinct
    <3>4. x \in Matching /\ Distinct(x)
      BY <2>1 DEF Ask, OnceOnly, Behind
    <3>5. DOMAIN pages' = {}
      BY <3>1, <3>2
    <3>6. Seen' = {} /\ Single(x)'
      BY <3>5 DEF Seen, Single
    <3> QED
      BY <3>1, <3>2, <3>3, <3>4, <3>6 DEF Behind
  <2>2. CASE Count \/ UNCHANGED vars
    <3>1. UNCHANGED <<value, asked, page, found, pages, alone>>
      BY <2>2 DEF Count, vars, asked, walk
    <3>2. Behind(x)
      BY <3>1 DEF OnceOnly
    <3>3. Seen' = Seen /\ (Single(x)' <=> Single(x))
      BY <3>1 DEF Seen, Single
    <3> QED
      BY <3>1, <3>2, <3>3, SameTable DEF Behind
  <2>3. CASE FindMany
    BY <2>3, FindManyLeavesBehind DEF FindMany, OnceOnly
  <2>4. CASE Respond
    BY <2>4, RespondLeavesBehind DEF Respond, OnceOnly
  <2>5. ASSUME NEW y \in Rows, Enter(y)
        PROVE  FALSE
    BY <2>5 DEF Enter
  <2>6. ASSUME NEW y \in Rows, Leave(y)
        PROVE  Behind(x)'
    <3>1. x \in alone
      BY <2>6 DEF Leave
    <3> QED
      BY <2>6, <3>1, LeaveLeavesBehind DEF OnceOnly
  <2> QED
    BY <2>1, <2>2, <2>3, <2>4, <2>5, <2>6 DEF Next
<1> QED
  BY <1>1, <1>2, TypesHold, PTL DEF Spec

(* However other requests delete rows while a client pages through any     *)
(* table, no row that stood in its place, alone with its value, is returned*)
(* to him twice; only a row that comes in can push one to a later page.    *)
THEOREM WalksRepeatNothing == Spec => []NothingRepeated
<1>1. OnceOnly => NothingRepeated
  BY DEF OnceOnly, Behind, Single, NothingRepeated
<1> QED
  BY <1>1, AloneIsOnce, PTL

---------------------------------------------------------------------------
(* A quiet table *)

(* What page p of the table as it is holds.                                *)
Holds(data, p) ==
    /\ data # << >> <=> (p - 1) * Limit < Cardinality(Matching)
    /\ \A i \in DOMAIN data : data[i] \in Matching

Calm ==
    status = 200 /\ quiet =>
        /\ ~ left /\ stayed = Matching
        /\ page # 0 => page = Len(pages) + 1
        /\ count # None => count = Cardinality(Matching)
        /\ found # None => Holds(found, page)
        /\ \A k \in DOMAIN pages :
              /\ pages[k].totalPages = TotalPages(Cardinality(Matching))
              /\ Holds(pages[k].data, k)

LEMMA FoundHolds ==
  ASSUME TypeOK, FindMany
  PROVE  Holds(found', page)
<1>1. PICK s \in Orders : found' = Page(s, page)
  BY DEF FindMany
<1>2. page \in Nat \ {0}
  BY DEF FindMany, TypeOK
<1> DEFINE n    == Cardinality(Matching)
           skip == (page - 1) * Limit
           upto == IF skip + Limit < n THEN skip + Limit ELSE n
<1>3. /\ skip \in Nat /\ found' \in Seq(Matching)
      /\ Len(found') = IF skip < n THEN upto - skip ELSE 0
  BY <1>1, <1>2, PageHolds
<1>4. n \in Nat /\ Limit \in Nat \ {0}
  BY <1>2, MatchingRows, LimitType
<1> HIDE DEF n, skip
<1>5. Len(found') # 0 <=> skip < n
  BY <1>3, <1>4
<1>6. found' # << >> <=> Len(found') # 0
  BY <1>3, EmptySeq
<1>7. \A i \in DOMAIN found' : found'[i] \in Matching
  BY FoundRows
<1> QED
  BY <1>5, <1>6, <1>7 DEF Holds, n, skip

LEMMA RespondStaysCalm ==
  ASSUME TypeOK, Calm, Respond, quiet
  PROVE  Calm'
<1> DEFINE answer == [data |-> found, totalCount |-> count,
                      totalPages |-> TotalPages(count)]
<1>1. /\ status = 200 /\ page \in Nat \ {0} /\ Len(found) \in Nat
      /\ answer \in Answer /\ pages' = Append(pages, answer)
      /\ pages \in Seq(Answer)
  BY Answers DEF TypeOK
<1>2. /\ UNCHANGED <<value, asked, stayed, left, quiet>>
      /\ count # None /\ found # None /\ count' = None /\ found' = None
      /\ page' = IF Len(found) < Limit THEN 0 ELSE page + 1
  BY DEF Respond
<1>3. Matching' = Matching /\ Limit' = Limit
  BY <1>2, SameTable
<1>4. /\ ~ left /\ stayed = Matching /\ page = Len(pages) + 1
      /\ count = Cardinality(Matching) /\ Holds(found, page)
      /\ \A k \in DOMAIN pages :
            /\ pages[k].totalPages = TotalPages(Cardinality(Matching))
            /\ Holds(pages[k].data, k)
  BY <1>1, <1>2 DEF Calm
<1>5. /\ Len(pages') = Len(pages) + 1 /\ DOMAIN pages' = 1..(Len(pages) + 1)
      /\ Len(pages) \in Nat /\ DOMAIN pages = 1..Len(pages)
      /\ \A k \in DOMAIN pages : pages'[k] = pages[k]
      /\ pages'[Len(pages) + 1] = answer
  <2> HIDE DEF answer
  <2>1. pages' \in Seq(Answer) /\ Len(pages') = Len(pages) + 1
    BY <1>1, AppendProperties
  <2>2. /\ \A k \in 1..Len(pages) : pages'[k] = pages[k]
        /\ pages'[Len(pages) + 1] = answer
    BY <1>1, AppendProperties
  <2> QED
    BY <1>1, <2>1, <2>2, LenProperties
<1>6. ASSUME NEW k \in DOMAIN pages'
      PROVE  /\ pages'[k].totalPages = TotalPages(Cardinality(Matching))
             /\ Holds(pages'[k].data, k)
  <2>1. CASE k \in DOMAIN pages
    BY <1>4, <1>5, <2>1
  <2>2. CASE k = Len(pages) + 1
    BY <1>4, <1>5, <2>2
  <2> QED
    BY <1>5, <2>1, <2>2
<1>7. page' # 0 => page' = Len(pages') + 1
  BY <1>2, <1>4, <1>5
<1>8. \A k \in DOMAIN pages' :
         /\ pages'[k].totalPages = TotalPages(Cardinality(Matching))'
         /\ Holds(pages[k].data, k)'
  BY <1>3, <1>6 DEF TotalPages, Holds
<1> QED
  BY <1>2, <1>3, <1>4, <1>7, <1>8 DEF Calm

LEMMA QuietIsCalm == Spec => []Calm
<1>1. Init => Calm
  BY ListingAssumption DEF Init, Calm
<1>2. TypeOK /\ Calm /\ [Next]_vars => Calm'
  <2> SUFFICES ASSUME TypeOK, Calm, [Next]_vars, status' = 200, quiet'
               PROVE  Calm'
    BY DEF Calm
  <2>1. CASE Ask
    <3>1. /\ page = 0 /\ pages = << >> /\ ~ left /\ count = None /\ found = None
      BY <2>1, ListingAssumption DEF Ask, TypeOK
    <3>2. page' = 1 /\ stayed' = Matching
      BY <2>1, Accepted DEF Ask, TypeOK
    <3>3. UNCHANGED <<value, zone, query, count, found, pages, left>>
      BY <2>1 DEF Ask
    <3>4. Matching' = Matching
      BY <3>3 DEF Matching
    <3>5. Len(pages') = 0 /\ DOMAIN pages' = {}
      BY <3>1, <3>3
    <3> QED
      BY <3>1, <3>2, <3>3, <3>4, <3>5 DEF Calm
  <2>2. CASE Count \/ FindMany \/ UNCHANGED vars
    <3>1. UNCHANGED <<value, asked, status, page, pages, stayed, left, quiet>>
      BY <2>2 DEF Count, FindMany, vars, asked, walk
    <3>2. Matching' = Matching /\ Limit' = Limit
      BY <3>1, SameTable
    <3>3. count' # None => count' = Cardinality(Matching)
      BY <2>2, <3>1 DEF Calm, Count, FindMany, vars, walk
    <3>4. found' # None => Holds(found', page)
      BY <2>2, <3>1, FoundHolds DEF Calm, Count, vars, walk
    <3>5. found' # None => Holds(found, page)'
      BY <3>1, <3>2, <3>4 DEF Holds
    <3>6. \A k \in DOMAIN pages :
            /\ pages'[k].totalPages = TotalPages(Cardinality(Matching))'
            /\ Holds(pages[k].data, k)'
      BY <3>1, <3>2 DEF Calm, Holds, TotalPages
    <3> QED
      BY <3>1, <3>2, <3>3, <3>5, <3>6 DEF Calm
  <2>3. CASE Respond
    BY <2>3, RespondStaysCalm DEF Respond
  <2>4. (\E x \in Rows : Enter(x) \/ Leave(x)) => ~ quiet'
    BY DEF Enter, Leave
  <2> QED
    BY <2>1, <2>2, <2>3, <2>4 DEF Next
<1> QED
  BY <1>1, <1>2, TypesHold, PTL DEF Spec

(* For any limit and any table, totalPages is the number of the last page  *)
(* that holds a row, as long as nobody writes to the table.                *)
THEOREM TotalPagesIsTheLast == Spec => []MetaNamesLastPage
<1>1. TypeOK /\ Calm => MetaNamesLastPage
  <2> SUFFICES ASSUME TypeOK, Calm, status = 200, quiet,
                      NEW k \in DOMAIN pages, NEW m \in DOMAIN pages
               PROVE  pages[m].data # << >> <=> m <= pages[k].totalPages
    BY DEF MetaNamesLastPage, Ended
  <2> DEFINE n == Cardinality(Matching)
  <2>1. /\ pages[m].data # << >> <=> (m - 1) * Limit < n
        /\ pages[k].totalPages = (n + Limit - 1) \div Limit
    BY DEF Calm, Holds, TotalPages
  <2>2. n \in Nat /\ Limit \in Nat \ {0} /\ m \in Nat \ {0}
    <3>1. m \in 1..Len(pages) /\ Len(pages) \in Nat
      BY LenProperties DEF TypeOK
    <3> QED
      BY <3>1, MatchingRows, LimitType
  <2> HIDE DEF n
  <2>3. m <= (n + Limit - 1) \div Limit <=> Limit * m <= n + Limit - 1
    <3>1. \A a \in Nat, q \in Nat, l \in Nat \ {0} : q <= a \div l <=> l * q <= a
      OBVIOUS
    <3>2. n + Limit - 1 \in Nat
      BY <2>2
    <3> QED
      BY <2>2, <3>1, <3>2
  <2>4. Limit * m <= n + Limit - 1 <=> (m - 1) * Limit < n
    <3> DEFINE before == (m - 1) * Limit
    <3>1. Limit * m = before + Limit /\ before \in Int
      BY <2>2
    <3> HIDE DEF before
    <3>2. before + Limit <= n + Limit - 1 <=> before < n
      BY <2>2, <3>1
    <3> QED
      BY <3>1, <3>2 DEF before
  <2>5. m <= pages[k].totalPages <=> (m - 1) * Limit < n
    BY <2>1, <2>3, <2>4
  <2> QED
    BY <2>1, <2>5
<1> QED
  BY <1>1, TypesHold, QuietIsCalm, PTL

(* A date filter takes in the days asked for, from the first instant of    *)
(* the first to the last of the last by the clocks of the zone, and no     *)
(* other, whatever the zone and however many instants make a day.          *)
THEOREM WholeDays == Spec => []RangesAreWholeDays
<1>1. TypeOK /\ Judged /\ OnTheWay /\ Calm => RangesAreWholeDays
  <2> SUFFICES ASSUME TypeOK, Judged, OnTheWay, Calm, page = 0, status = 200, quiet
               PROVE  /\ Seen \subseteq OfTheDaysAsked
                      /\ \A x \in OfTheDaysAsked : Distinct(x) => x \in Seen
    BY DEF RangesAreWholeDays, Ended
  <2>1. OfTheDaysAsked = Matching
    BY CalendarAgrees
  <2>2. Seen \subseteq Matching
    BY SeenRows DEF Calm, Holds
  <2>3. \A x \in Matching : Distinct(x) => x \in Seen
    BY DEF Calm, OnTheWay, ToCome
  <2> QED
    BY <2>1, <2>2, <2>3
<1> QED
  BY <1>1, TypesHold, JudgedHolds, NobodyIsPassed, QuietIsCalm, PTL

=============================================================================

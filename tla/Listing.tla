------------------------------- MODULE Listing -------------------------------
(***************************************************************************)
(* The pages of runs: GET /api/v1/test-runs (handleListTestRuns) with any  *)
(* limit and offset, and GET /results (handleResultsList) with pages of    *)
(* PerPage.  Each request is two statements, ListTestRuns ORDER BY         *)
(* created_at DESC with LIMIT and OFFSET, then CountTestRuns, and the      *)
(* table changes between them and between requests.  One viewer turns the  *)
(* pages of one filter.                                                    *)
(***************************************************************************)
EXTENDS Integers, FiniteSets

CONSTANTS Runs, Times,          \* runs, and what created_at may be
          PerPage, MaxLimit,    \* 20 and 100 in the code
          MaxInt,               \* math.MaxInt32: 2^(w-1) - 1
          Pages, Limits, Offsets        \* what viewers type
ASSUME ListingAssumption ==
    /\ IsFiniteSet(Runs) /\ Times \subseteq Nat
    /\ {PerPage, MaxLimit, MaxInt} \subseteq Nat \ {0} /\ PerPage <= MaxInt
    /\ Pages \cup Limits \cup Offsets \subseteq Int

VARIABLES created,              \* created_at of each run
          matching,             \* the runs that the filter selects now
          pc, api, limit, offset,       \* the request
          items, total,         \* the results of its two statements
          due, seen, left       \* history: the runs that were there when the
                                \* first page was listed and stayed; the runs
                                \* shown since; whether one left the filter

table == <<created, matching>>
request == <<api, limit, offset>>
vars == <<table, pc, request, items, total, due, seen, left>>

Lesser(m, n) == IF m <= n THEN m ELSE n

Init == /\ created \in [Runs -> Times] /\ matching \in SUBSET Runs
        /\ pc = "idle" /\ api = FALSE /\ limit = PerPage /\ offset = 0
        /\ items = {} /\ total = 0
        /\ due = {} /\ seen = {} /\ left = FALSE

-----------------------------------------------------------------------------
(* Others change the table *)

\* A run is created, or a status changes to the one filtered by.  NOW() is the
\* time a transaction began: a run that appears need not be the latest.
Enter(r) ==
    /\ r \notin matching
    /\ matching' = matching \cup {r}
    /\ UNCHANGED <<created, pc, request, items, total, due, seen, left>>

\* A status changes from the one filtered by.
Leave(r) ==
    /\ r \in matching
    /\ matching' = matching \ {r}
    /\ due' = due \ {r} /\ left' = TRUE
    /\ UNCHANGED <<created, pc, request, items, total, seen>>

-----------------------------------------------------------------------------
(* Requests *)

\* Conversion to int32.
Int32(n) == ((n + MaxInt + 1) % (2 * (MaxInt + 1))) - (MaxInt + 1)

\* Mutant of Clamped: any page that is typed.
ClampedBelow(page) == IF page < 1 THEN 1 ELSE page

\* The page that handleResultsList shows when this one is typed.
Clamped(page) == IF page < 1 THEN 1
                 ELSE Lesser(page, MaxInt \div PerPage)

\* No request is under way.
AtRest == pc \in {"idle", "shown", "failed"}
NoResults == items' = {} /\ total' = 0

\* A new walk begins with this request.
Walk(isApi, n, from) ==
    /\ pc' = "list" /\ NoResults
    /\ api' = isApi /\ limit' = n /\ offset' = Int32(from)
    /\ due' = {} /\ seen' = {} /\ left' = FALSE
    /\ UNCHANGED table

\* The viewer types the address of a page of the results.
OpenResults(page) == AtRest /\ Walk(FALSE, PerPage, (Clamped(page) - 1) * PerPage)

InRange(n, from) == n \in 1..MaxLimit /\ from \in 0..MaxInt

\* A client asks the API.
OpenApi(n, from) == AtRest /\ InRange(n, from) /\ Walk(TRUE, n, from)

\* 400.
RefuseApi(n, from) ==
    /\ AtRest /\ ~InRange(n, from)
    /\ pc' = "idle" /\ NoResults
    /\ UNCHANGED <<table, request, due, seen, left>>

\* page is what LIMIT and OFFSET leave of the matching runs, latest first; runs
\* created at the same time come in any order.
IsPage(page) ==
    \E before \in SUBSET (matching \ page) :
        LET after == matching \ (before \cup page)
            n == Cardinality(matching)
        IN  /\ Cardinality(before) = Lesser(offset, n)
            /\ Cardinality(page) = Lesser(limit, n - Cardinality(before))
            /\ \A r \in before, s \in page \cup after : created[r] >= created[s]
            /\ \A r \in page, s \in after : created[r] >= created[s]

\* ListTestRuns.
List ==
    /\ pc = "list"
    /\ items' \in SUBSET matching /\ IsPage(items')
    /\ pc' = "count"
    /\ IF offset = 0 THEN due' = matching /\ seen' = {} /\ left' = FALSE
                     ELSE UNCHANGED <<due, seen, left>>
    /\ UNCHANGED <<table, request, total>>

\* CountTestRuns, and the page is shown.
Count ==
    /\ pc = "count"
    /\ total' = Cardinality(matching)
    /\ seen' = seen \cup items
    /\ pc' = "shown"
    /\ UNCHANGED <<table, request, items, due, left>>

\* A statement fails: 500.
QueryFails ==
    /\ pc \in {"list", "count"}
    /\ pc' = "failed"
    /\ NoResults
    /\ UNCHANGED <<table, request, due, seen, left>>

-----------------------------------------------------------------------------
(* What the viewer does with a page *)

\* Mutant of TotalPages: rounded down.
TotalPagesDown == IF total < limit THEN 1 ELSE total \div limit

\* Rounded up, and 1 for no runs.
TotalPages == IF total = 0 THEN 1 ELSE (total + limit - 1) \div limit

Page == offset \div limit + 1

\* Mutant of HasNext: a full last page links to one more.
HasNextIfFull == /\ pc = "shown"
                 /\ IF api THEN offset + limit <= total
                           ELSE items # {} /\ Page <= TotalPages

\* The link to the next page, which a page without runs does not have; a client
\* of the API goes by total.
HasNext == /\ pc = "shown"
           /\ IF api THEN offset + limit < total
                     ELSE items # {} /\ Page < TotalPages

\* Another page, by places on: the request begins anew, the walk goes on.
Turn(by) ==
    /\ pc' = "list"
    /\ offset' = Int32(IF api THEN offset + by * limit
                       ELSE (Clamped(Page + by) - 1) * PerPage)
    /\ NoResults
    /\ UNCHANGED <<table, api, limit, due, seen, left>>

\* An offset out of range would be refused.
FollowNext == HasNext /\ (api => offset + limit <= MaxInt) /\ Turn(1)

FollowPrev == /\ pc = "shown"
              /\ IF api THEN offset >= limit
                        ELSE Page > 1 /\ items # {} /\ TotalPages > 1
              /\ Turn(-1)

Reload == /\ pc \in {"shown", "failed"}
          /\ pc' = "list"
          /\ NoResults
          /\ UNCHANGED <<table, request, due, seen, left>>

-----------------------------------------------------------------------------

Next == \/ \E r \in Runs : Enter(r) \/ Leave(r)
        \/ \E page \in Pages : OpenResults(page)
        \/ \E n \in Limits, from \in Offsets :
               OpenApi(n, from) \/ RefuseApi(n, from)
        \/ List \/ Count \/ QueryFails
        \/ FollowNext \/ FollowPrev \/ Reload

Spec == Init /\ [][Next]_vars

-----------------------------------------------------------------------------
(* Properties *)

\* Every variable has its type.
TypeOK ==
    /\ created \in [Runs -> Times] /\ matching \subseteq Runs
    /\ pc \in {"idle", "list", "count", "shown", "failed"}
    /\ api \in BOOLEAN /\ limit \in {PerPage} \cup 1..MaxLimit
    /\ offset \in Int
    /\ items \subseteq Runs /\ Cardinality(items) <= limit
    /\ total \in 0..Cardinality(Runs)
    /\ due \subseteq matching /\ seen \subseteq Runs /\ left \in BOOLEAN

\* No offset is negative or too large for an int32 when it gets to the query,
\* whatever page or offset was typed.
OffsetsFit == offset \in 0..MaxInt

AloneAt(r) == \A s \in Runs \ {r} : created[s] # created[r]

\* Whoever turns the pages from the first to the last, while runs are created,
\* has been shown every run that was there when the first page was listed and
\* stayed, unless one left the filter.  (The table only grows at places before
\* or after a run, so runs move to later pages; and a run that shares its
\* created_at with another has no place of its own, there is no second column
\* in the ORDER BY.)
NothingMissed ==
    pc = "shown" /\ ~HasNext /\ ~left =>
        \A r \in due : AloneAt(r) => r \in seen

\* The link to the next page leads to a page with runs, also later, unless a run
\* left the filter.
NextHasRuns == HasNext /\ ~left => Cardinality(matching) > offset + limit
=============================================================================

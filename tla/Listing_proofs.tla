--------------------------- MODULE Listing_proofs ---------------------------
(***************************************************************************)
(* Listing for any table, any page size and any width of integers: type    *)
(* correctness, and that every offset fits its int32.                      *)
(***************************************************************************)
EXTENDS Listing, FiniteSetTheorems, TLAPS

\* How many runs come before r in the listing.
Later(r) == {s \in matching : created[s] > created[r]}
Rank(r) == Cardinality(Later(r))

\* Of the runs that are due, those before the offset have been shown, and so
\* have those of a page that is.
Covered(r) ==
    /\ Rank(r) < offset => r \in seen
    /\ pc = "count" => /\ Rank(r) < offset + limit => r \in seen \cup items
                       /\ items = {} => r \in seen
    /\ pc = "shown" => /\ Rank(r) < offset + limit => r \in seen
                       /\ items = {} \/ total <= offset + limit => r \in seen

Walked == ~left => \A r \in due : AloneAt(r) => Covered(r)

\* Without a run that leaves, there are at least as many as were counted.
Counted == pc = "shown" /\ ~left => total <= Cardinality(matching)

\* A page of the results begins at a multiple of its size.
Aligned == ~api => limit = PerPage /\ \E k \in Nat : offset = k * PerPage

IInv == TypeOK /\ OffsetsFit /\ Walked /\ Counted /\ Aligned

-----------------------------------------------------------------------------
(* Arithmetic *)

\* The constants are what ListingAssumption says.
LEMMA Sizes ==
  /\ PerPage \in Nat \ {0} /\ MaxLimit \in Nat \ {0} /\ MaxInt \in Nat \ {0}
  /\ PerPage <= MaxInt /\ Pages \subseteq Int /\ Limits \subseteq Int
  /\ Offsets \subseteq Int
  BY ListingAssumption

\* Conversion to int32 changes nothing that fits.
LEMMA Int32Keeps ==
  ASSUME NEW n \in 0..MaxInt
  PROVE  Int32(n) = n
  <1> DEFINE w == 2 * (MaxInt + 1)
  <1>1. MaxInt \in Nat
    BY Sizes
  <1>2. w \in Nat \ {0} /\ n + MaxInt + 1 \in Nat /\ n + MaxInt + 1 < w
    BY <1>1
  <1>3. \A k \in Nat, m \in Nat \ {0} : k < m => k % m = k
    OBVIOUS
  <1>4. (n + MaxInt + 1) % w = n + MaxInt + 1
    BY <1>2, <1>3
  <1> QED BY <1>1, <1>4 DEF Int32

\* Whole division: the quotient times the divisor does not exceed the number,
\* and a number no smaller than the divisor has a quotient.
LEMMA Division ==
  ASSUME NEW a \in Nat, NEW b \in Nat \ {0}
  PROVE  /\ a \div b \in Nat
         /\ (a \div b) * b <= a
         /\ b <= a => a \div b >= 1
  OBVIOUS

\* A product grows with its first factor.
LEMMA TimesMonotone ==
  ASSUME NEW a \in Nat, NEW b \in Nat, NEW c \in Nat, a <= b
  PROVE  a * c \in Nat /\ a * c <= b * c
  <1>1. b * c = a * c + (b - a) * c
    OBVIOUS
  <1>2. (b - a) * c \in Nat /\ a * c \in Nat
    OBVIOUS
  <1> QED BY <1>1, <1>2

\* The offset of the page that is shown is in range, whatever page is asked for;
\* it is never a later page than that.
LEMMA ClampedFits ==
  ASSUME NEW page \in Int
  PROVE  /\ Clamped(page) - 1 \in Nat
         /\ (Clamped(page) - 1) * PerPage \in 0..MaxInt
         /\ page >= 1 => Clamped(page) <= page
  <1> DEFINE last == MaxInt \div PerPage
  <1>1. PerPage \in Nat \ {0} /\ MaxInt \in Nat /\ PerPage <= MaxInt
    BY Sizes
  <1>2. last \in Nat /\ last * PerPage <= MaxInt /\ last >= 1
    BY <1>1, Division
  <1> HIDE DEF last
  <1>3. Clamped(page) \in 1..last /\ (page >= 1 => Clamped(page) <= page)
    <2>1. CASE page < 1
      BY <2>1, <1>2 DEF Clamped
    <2>2. CASE ~(page < 1)
      <3>1. Clamped(page) = Lesser(page, last)
        BY <2>2 DEF Clamped, last
      <3> QED BY <3>1, <2>2, <1>2 DEF Lesser
    <2> QED BY <2>1, <2>2
  <1>4. /\ Clamped(page) - 1 \in Nat /\ Clamped(page) - 1 <= last
        /\ PerPage \in Nat
    BY <1>1, <1>2, <1>3
  <1>5. /\ (Clamped(page) - 1) * PerPage \in Nat
        /\ (Clamped(page) - 1) * PerPage <= last * PerPage
    BY <1>2, <1>4, TimesMonotone
  <1>6. last * PerPage \in Nat
    BY <1>1, <1>2
  <1>7. (Clamped(page) - 1) * PerPage \in 0..MaxInt
    BY <1>1, <1>2, <1>5, <1>6
  <1> QED BY <1>3, <1>4, <1>7

\* A multiple divided.
LEMMA MultipleDivided ==
  ASSUME NEW k \in Nat, NEW b \in Nat \ {0}
  PROVE  (k * b) \div b = k
  OBVIOUS

\* The pages of limit runs are enough for all, and all but one are not.
LEMMA PagesSuffice ==
  ASSUME total \in Nat, limit \in Nat \ {0}
  PROVE  /\ TotalPages \in Nat \ {0}
         /\ total <= TotalPages * limit
         /\ total > 0 => (TotalPages - 1) * limit < total
  <1>1. CASE total = 0
    BY <1>1 DEF TotalPages
  <1>2. CASE total # 0
    <2> DEFINE a == total + limit - 1
               q == a \div limit
    <2>1. a \in Nat /\ limit <= a
      BY <1>2
    <2>2. q \in Nat /\ q >= 1 /\ q * limit <= a
      BY <2>1, Division
    <2>3. a < (q + 1) * limit
      BY <2>1
    <2>4. TotalPages = q
      BY <1>2 DEF TotalPages
    <2>5. a = total + limit - 1
      OBVIOUS
    <2> HIDE DEF q, a
    <2>6. (q + 1) * limit = q * limit + limit /\ (q - 1) * limit = q * limit - limit
      BY <2>2
    <2>7. q * limit \in Nat
      BY <2>2
    <2> QED BY <1>2, <2>2, <2>3, <2>4, <2>5, <2>6, <2>7
  <1> QED BY <1>1, <1>2

-----------------------------------------------------------------------------
(* Cardinalities *)

\* How many runs match is a number up to that of all runs.
LEMMA CountOfRuns ==
  ASSUME NEW S \in SUBSET Runs
  PROVE  /\ Cardinality(S) \in Nat
         /\ Cardinality(S) <= Cardinality(Runs)
  <1>1. IsFiniteSet(Runs) /\ IsFiniteSet(S)
    BY ListingAssumption, FS_Subset
  <1> QED BY <1>1, FS_Subset, FS_CardinalityType

-----------------------------------------------------------------------------
(* What is in a page *)

\* Two parts of a finite set add up.
LEMMA PartsAddUp ==
  ASSUME NEW S \in SUBSET Runs, NEW T \in SUBSET Runs, S \cap T = {}
  PROVE  Cardinality(S \cup T) = Cardinality(S) + Cardinality(T)
  <1>1. IsFiniteSet(S) /\ IsFiniteSet(T)
    BY ListingAssumption, FS_Subset
  <1>2. Cardinality(S \cap T) = 0
    BY FS_EmptySet
  <1>3. Cardinality(S) \in Nat /\ Cardinality(T) \in Nat
    BY CountOfRuns
  <1>4. Cardinality(S \cup T)
           = Cardinality(S) + Cardinality(T) - Cardinality(S \cap T)
    BY <1>1, FS_Union
  <1> QED BY <1>2, <1>3, <1>4

\* A part is no larger than the whole, and one that is as large is the whole.
LEMMA PartOfRuns ==
  ASSUME NEW S \in SUBSET Runs, NEW T \in SUBSET S
  PROVE  /\ Cardinality(T) <= Cardinality(S)
         /\ Cardinality(T) = Cardinality(S) => T = S
  <1>1. IsFiniteSet(S)
    BY ListingAssumption, FS_Subset
  <1> QED BY <1>1, FS_Subset

\* A part that lacks an element is smaller than the whole.
LEMMA ProperPart ==
  ASSUME NEW S \in SUBSET Runs, NEW T \in SUBSET S, NEW r \in S, r \notin T
  PROVE  Cardinality(T) < Cardinality(S)
  <1>1. Cardinality(S) \in Nat /\ Cardinality(T) \in Nat
    BY CountOfRuns
  <1> QED BY <1>1, PartOfRuns

\* A run that matches has a place among those that match.
LEMMA RankBounds ==
  ASSUME TypeOK, NEW r \in matching
  PROVE  Rank(r) \in Nat /\ Rank(r) < Cardinality(matching)
  <1> matching \in SUBSET Runs /\ created[r] \in Nat
    BY ListingAssumption DEF TypeOK
  <1>1. Later(r) \subseteq matching
    BY DEF Later
  <1>2. r \notin Later(r)
    <2> SUFFICES ASSUME r \in Later(r) PROVE FALSE
      OBVIOUS
    <2>1. created[r] > created[r]
      BY DEF Later
    <2> QED BY <2>1
  <1> QED BY <1>1, <1>2, ProperPart, CountOfRuns DEF Rank

\* A page has the run at each of its places, if no other run was created at the
\* same time; and a page without runs is one after the last.
LEMMA PageHolds ==
  ASSUME TypeOK, OffsetsFit, NEW page \in SUBSET matching, IsPage(page)
  PROVE  /\ Cardinality(page) <= limit
         /\ page = {} => Cardinality(matching) <= offset
         /\ \A r \in matching :
               AloneAt(r) /\ offset <= Rank(r) /\ Rank(r) < offset + limit
                  => r \in page
  <1> DEFINE n == Cardinality(matching)
  <1>1. /\ matching \in SUBSET Runs /\ page \in SUBSET Runs
        /\ created \in [Runs -> Times] /\ Times \subseteq Nat
    BY ListingAssumption DEF TypeOK
  <1>2. limit \in Nat \ {0} /\ offset \in Nat
    BY Sizes DEF TypeOK, OffsetsFit
  <1>3. PICK before \in SUBSET (matching \ page) :
           /\ Cardinality(before) = Lesser(offset, n)
           /\ Cardinality(page) = Lesser(limit, n - Cardinality(before))
           /\ \A r \in before, s \in page \cup (matching \ (before \cup page)) :
                 created[r] >= created[s]
           /\ \A r \in page, s \in matching \ (before \cup page) :
                 created[r] >= created[s]
    BY DEF IsPage
  <1>4. n \in Nat
    BY <1>1, CountOfRuns
  <1> HIDE DEF n
  <1>5. /\ Cardinality(before) \in Nat
        /\ Cardinality(before) <= offset /\ Cardinality(before) <= n
        /\ Cardinality(before) = offset \/ Cardinality(before) = n
    BY <1>2, <1>3, <1>4 DEF Lesser
  <1>6. /\ Cardinality(page) \in Nat /\ Cardinality(page) <= limit
        /\ \/ Cardinality(page) = limit
           \/ Cardinality(before) + Cardinality(page) = n
    BY <1>2, <1>3, <1>4, <1>5 DEF Lesser
  <1>7. page = {} => n <= offset
    BY <1>2, <1>4, <1>5, <1>6, FS_EmptySet
  <1>8. ASSUME NEW r \in matching, AloneAt(r),
               offset <= Rank(r), Rank(r) < offset + limit
        PROVE  r \in page
    <2>1. /\ Rank(r) \in Nat /\ Rank(r) < n
          /\ Later(r) \in SUBSET matching
      BY <1>1, RankBounds DEF n, Later
    <2>2. \A s \in Runs : created[s] \in Nat
      BY <1>1
    <2>3. r \notin before
      <3> SUFFICES ASSUME r \in before PROVE FALSE
        OBVIOUS
      <3>1. Later(r) \subseteq before
        BY <1>1, <1>3, <2>2 DEF Later
      <3>2. r \notin Later(r)
        BY <1>1, <2>2 DEF Later
      <3>3. Rank(r) < Cardinality(before)
        BY <1>1, <1>3, <3>1, <3>2, ProperPart DEF Rank
      <3> QED BY <1>2, <1>5, <2>1, <3>3, <1>8
    <2>4. r \notin matching \ (before \cup page)
      <3> SUFFICES ASSUME r \in matching \ (before \cup page) PROVE FALSE
        OBVIOUS
      <3>1. \A s \in before \cup page : created[s] >= created[r]
        BY <1>3
      <3>2. \A s \in before \cup page : s \in Runs /\ s # r
        BY <1>1, <1>3
      <3>3. \A s \in before \cup page : created[s] # created[r]
        BY <3>2, <1>8 DEF AloneAt
      <3>4. before \cup page \subseteq Later(r)
        BY <1>1, <1>3, <2>2, <3>1, <3>2, <3>3 DEF Later
      <3>5. Cardinality(before \cup page) <= Rank(r)
        BY <1>1, <2>1, <3>4, PartOfRuns DEF Rank
      <3>6. Cardinality(before \cup page)
               = Cardinality(before) + Cardinality(page)
        BY <1>1, <1>3, PartsAddUp
      <3>7. Cardinality(before) + Cardinality(page) <= Rank(r)
        BY <3>5, <3>6
      <3> QED BY <1>2, <1>4, <1>5, <1>6, <1>8, <2>1, <3>7
    <2> QED BY <2>3, <2>4, <1>3
  <1> QED BY <1>6, <1>7, <1>8 DEF n

-----------------------------------------------------------------------------
(* The invariant *)

LEMMA InitIInv == Init => IInv
  <1> SUFFICES ASSUME Init PROVE IInv
    OBVIOUS
  <1>1. TypeOK
    <2>1. Cardinality({}) = 0 /\ Cardinality(Runs) \in Nat
      BY ListingAssumption, FS_EmptySet, FS_CardinalityType
    <2>2. total \in 0..Cardinality(Runs)
      BY <2>1 DEF Init
    <2>3. items \subseteq Runs /\ Cardinality(items) <= limit
      BY <2>1, Sizes DEF Init
    <2>4. /\ created \in [Runs -> Times] /\ matching \subseteq Runs
          /\ pc \in {"idle", "list", "count", "shown", "failed"}
          /\ limit \in {PerPage} \cup 1..MaxLimit /\ offset \in Int
          /\ due \subseteq matching /\ seen \subseteq Runs
      BY DEF Init
    <2>5. api \in BOOLEAN /\ left \in BOOLEAN
      BY DEF Init
    <2> QED BY <2>2, <2>3, <2>4, <2>5 DEF TypeOK
  <1>2. OffsetsFit
    BY Sizes DEF Init, OffsetsFit
  <1>3. Walked /\ Counted
    BY DEF Init, Walked, Counted
  <1>4. Aligned
    <2>1. 0 = 0 * PerPage /\ 0 \in Nat
      BY Sizes
    <2> QED BY <2>1 DEF Init, Aligned
  <1> QED BY <1>1, <1>2, <1>3, <1>4 DEF IInv

\* A walk begins: nothing is due.
LEMMA WalkKeepsIInv ==
  ASSUME IInv, NEW isApi \in BOOLEAN, NEW n \in {PerPage} \cup 1..MaxLimit,
         NEW from \in 0..MaxInt, Walk(isApi, n, from),
         ~isApi => n = PerPage /\ \E k \in Nat : from = k * PerPage
  PROVE  IInv'
  <1>1. offset' = from
    BY Int32Keeps DEF Walk
  <1>2. TypeOK'
    <2>1. Cardinality({}) = 0 /\ Cardinality(Runs) \in Nat
      BY ListingAssumption, FS_EmptySet, FS_CardinalityType
    <2>2. api' \in BOOLEAN
      BY DEF Walk
    <2>3. limit' \in {PerPage} \cup 1..MaxLimit /\ limit' \in Nat
      BY Sizes DEF Walk
    <2>4. total' \in 0..Cardinality(Runs)
      BY <2>1 DEF Walk, NoResults
    <2>5. items' \subseteq Runs /\ Cardinality(items') <= limit'
      BY <2>1, <2>3 DEF Walk, NoResults
    <2>6. /\ created' \in [Runs -> Times] /\ matching' \subseteq Runs
          /\ pc' \in {"idle", "list", "count", "shown", "failed"}
          /\ offset' \in Int
          /\ due' \subseteq matching' /\ seen' \subseteq Runs
      BY <1>1, Sizes DEF IInv, TypeOK, Walk, table
    <2>7. left' \in BOOLEAN
      BY DEF Walk
    <2> QED BY <2>2, <2>3, <2>4, <2>5, <2>6, <2>7 DEF TypeOK
  <1>3. OffsetsFit'
    BY <1>1 DEF OffsetsFit
  <1>4. Walked' /\ Counted'
    BY DEF Walked, Counted, Walk
  <1>5. Aligned'
    BY <1>1 DEF Aligned, Walk
  <1> QED BY <1>2, <1>3, <1>4, <1>5 DEF IInv

\* A request for the same page, or for one that does not skip any run, in the
\* same walk.
LEMMA RequestKeepsIInv ==
  ASSUME IInv, pc' \in {"idle", "list", "failed"}, NoResults,
         UNCHANGED <<table, api, limit, due, seen, left>>,
         offset' \in 0..MaxInt,
         offset' <= offset \/ (pc = "shown" /\ offset' <= offset + limit),
         Aligned'
  PROVE  IInv'
  <1>1. TypeOK'
    <2>1. Cardinality({}) = 0 /\ Cardinality(Runs) \in Nat
      BY ListingAssumption, FS_EmptySet, FS_CardinalityType
    <2>2. limit \in Nat
      BY Sizes DEF IInv, TypeOK
    <2> QED BY <2>1, <2>2 DEF IInv, TypeOK, NoResults, table
  <1>2. OffsetsFit'
    BY DEF OffsetsFit
  <1>3. Counted'
    BY DEF Counted
  <1>4. Walked'
    <2> SUFFICES ASSUME ~left, NEW r \in due, AloneAt(r) PROVE Covered(r)'
      BY DEF Walked, AloneAt, table
    <2>1. Covered(r)
      BY DEF IInv, Walked
    <2>2. Rank(r)' = Rank(r)
      BY DEF Rank, Later, table
    <2>3. /\ Rank(r) \in Nat /\ offset \in Nat /\ offset' \in Nat
          /\ limit \in Nat
      <3>1. TypeOK /\ r \in matching
        BY DEF IInv, TypeOK
      <3> QED BY <3>1, Sizes, RankBounds DEF IInv, TypeOK, OffsetsFit
    <2>4. Rank(r) < offset' => r \in seen
      BY <2>1, <2>3 DEF Covered
    <2> QED BY <2>2, <2>4 DEF Covered
  <1> QED BY <1>1, <1>2, <1>3, <1>4 DEF IInv

LEMMA EnterKeepsIInv ==
  ASSUME IInv, NEW e \in Runs, Enter(e)
  PROVE  IInv'
  <1>1. TypeOK'
    BY DEF IInv, TypeOK, Enter, request
  <1>2. OffsetsFit' /\ Aligned'
    BY DEF IInv, OffsetsFit, Aligned, Enter, request
  <1>3. /\ matching \in SUBSET Runs /\ matching' \in SUBSET Runs
        /\ matching \in SUBSET matching'
    BY <1>1 DEF IInv, TypeOK, Enter
  <1>4. Counted'
    <2>1. /\ Cardinality(matching) <= Cardinality(matching')
          /\ Cardinality(matching) \in Nat /\ Cardinality(matching') \in Nat
      BY <1>3, PartOfRuns, CountOfRuns
    <2>2. total \in Nat
      BY CountOfRuns DEF IInv, TypeOK
    <2> QED BY <2>1, <2>2 DEF IInv, Counted, Enter
  <1>5. Walked'
    <2> SUFFICES ASSUME ~left, NEW r \in due, AloneAt(r) PROVE Covered(r)'
      BY DEF Walked, AloneAt, Enter
    <2>1. Covered(r)
      BY DEF IInv, Walked
    <2>2. /\ Later(r) \in SUBSET Later(r)' /\ Later(r)' \in SUBSET Runs
          /\ Later(r) \in SUBSET Runs
      BY <1>3 DEF Later, Enter
    <2>3. Rank(r) <= Rank(r)' /\ Rank(r) \in Nat /\ Rank(r)' \in Nat
      BY <2>2, PartOfRuns, CountOfRuns DEF Rank
    <2>4. offset \in Nat /\ limit \in Nat
      BY Sizes DEF IInv, TypeOK, OffsetsFit
    <2>5. /\ Rank(r)' < offset => Rank(r) < offset
          /\ Rank(r)' < offset + limit => Rank(r) < offset + limit
      BY <2>3, <2>4
    <2> QED BY <2>1, <2>5 DEF Covered, Enter, request
  <1> QED BY <1>1, <1>2, <1>4, <1>5 DEF IInv

LEMMA LeaveKeepsIInv ==
  ASSUME IInv, NEW e \in Runs, Leave(e)
  PROVE  IInv'
  <1>1. TypeOK'
    BY DEF IInv, TypeOK, Leave, request
  <1>2. OffsetsFit' /\ Aligned'
    BY DEF IInv, OffsetsFit, Aligned, Leave, request
  <1>3. Walked' /\ Counted'
    BY DEF Walked, Counted, Leave
  <1> QED BY <1>1, <1>2, <1>3 DEF IInv

LEMMA ListKeepsIInv ==
  ASSUME IInv, List
  PROVE  IInv'
  <1>1. /\ TypeOK /\ OffsetsFit /\ matching \in SUBSET Runs
        /\ items' \in SUBSET matching /\ IsPage(items')
    BY DEF IInv, TypeOK, List
  <1>2. /\ Cardinality(items') <= limit
        /\ items' = {} => Cardinality(matching) <= offset
        /\ \A r \in matching :
              AloneAt(r) /\ offset <= Rank(r) /\ Rank(r) < offset + limit
                 => r \in items'
    BY <1>1, PageHolds
  <1>3. UNCHANGED <<created, matching, api, limit, offset, total>>
    BY DEF List, table, request
  <1>4. TypeOK'
    BY <1>1, <1>2, <1>3 DEF TypeOK, List
  <1>5. OffsetsFit' /\ Aligned' /\ Counted'
    BY <1>3 DEF IInv, OffsetsFit, Aligned, Counted, List
  <1>6. Walked'
    <2> SUFFICES ASSUME ~left', NEW r \in due', AloneAt(r) PROVE Covered(r)'
      BY <1>3 DEF Walked, AloneAt
    <2>1. r \in matching
      BY <1>1 DEF List, TypeOK
    <2>2. /\ Rank(r) \in Nat /\ Rank(r) < Cardinality(matching)
          /\ Cardinality(matching) \in Nat
      BY <1>1, <2>1, RankBounds, CountOfRuns
    <2>3. Rank(r)' = Rank(r)
      BY <1>3 DEF Rank, Later
    <2>4. offset \in Nat /\ limit \in Nat
      BY <1>1, Sizes DEF TypeOK, OffsetsFit
    <2>5. Rank(r) < offset => r \in seen'
      <3>1. CASE offset = 0
        BY <3>1, <2>2
      <3>2. CASE offset # 0
        <4>1. Covered(r) /\ UNCHANGED seen
          BY <3>2 DEF IInv, Walked, List
        <4> QED BY <4>1 DEF Covered
      <3> QED BY <3>1, <3>2
    <2>6. offset <= Rank(r) /\ Rank(r) < offset + limit => r \in items'
      BY <1>2, <2>1
    <2>7. Rank(r) < offset \/ offset <= Rank(r)
      BY <2>2, <2>4
    <2>8. items' = {} => Rank(r) < offset
      BY <1>2, <2>2, <2>4
    <2>9. pc' = "count"
      BY DEF List
    <2> QED BY <1>3, <2>3, <2>5, <2>6, <2>7, <2>8, <2>9 DEF Covered
  <1> QED BY <1>4, <1>5, <1>6 DEF IInv

LEMMA CountKeepsIInv ==
  ASSUME IInv, Count
  PROVE  IInv'
  <1>1. /\ matching \in SUBSET Runs /\ items \subseteq Runs
        /\ due \subseteq matching /\ offset \in Nat /\ limit \in Nat
    BY Sizes DEF IInv, TypeOK, OffsetsFit
  <1>2. /\ total' = Cardinality(matching) /\ Cardinality(matching) \in Nat
        /\ Cardinality(matching) <= Cardinality(Runs)
    BY <1>1, CountOfRuns DEF Count
  <1>3. UNCHANGED <<created, matching, api, limit, offset, items, due, left>>
    BY DEF Count, table, request
  <1>4. TypeOK'
    <2>1. Cardinality(Runs) \in Nat
      BY CountOfRuns
    <2>2. total' \in 0..Cardinality(Runs)
      BY <1>2, <2>1
    <2> QED BY <1>1, <1>3, <2>2 DEF IInv, TypeOK, Count
  <1>5. OffsetsFit' /\ Aligned'
    BY <1>3 DEF IInv, OffsetsFit, Aligned
  <1>6. Counted'
    BY <1>2, <1>3 DEF Counted
  <1>7. Walked'
    <2> SUFFICES ASSUME ~left, NEW r \in due, AloneAt(r) PROVE Covered(r)'
      BY <1>3 DEF Walked, AloneAt
    <2>1. Covered(r) /\ pc = "count" /\ pc' = "shown" /\ seen' = seen \cup items
      BY DEF IInv, Walked, Count
    <2>2. Rank(r)' = Rank(r)
      BY <1>3 DEF Rank, Later
    <2>3. Rank(r) \in Nat /\ Rank(r) < Cardinality(matching)
      BY <1>1, RankBounds DEF IInv
    <2>4. total' <= offset + limit => Rank(r) < offset + limit
      BY <1>1, <1>2, <2>3
    <2> QED BY <1>3, <2>1, <2>2, <2>4 DEF Covered
  <1> QED BY <1>4, <1>5, <1>6, <1>7 DEF IInv

LEMMA TurnKeepsIInv ==
  ASSUME IInv, FollowNext \/ FollowPrev
  PROVE  IInv'
  <1>1. /\ offset \in 0..MaxInt /\ limit \in Nat \ {0}
        /\ PerPage \in Nat \ {0} /\ MaxInt \in Nat
    BY Sizes DEF IInv, TypeOK, OffsetsFit
  <1>2. PICK by \in {1, -1} :
           /\ Turn(by) /\ pc = "shown"
           /\ api => offset + by * limit \in 0..MaxInt
           /\ ~api => Page + by >= 1
    <2>1. CASE FollowNext
      <3>1. ~api => limit = PerPage /\ offset \div PerPage \in Nat
        BY <1>1, Division DEF IInv, Aligned
      <3> QED BY <2>1, <3>1, <1>1 DEF FollowNext, HasNext, Page
    <2>2. CASE FollowPrev
      <3>1. ~api => limit = PerPage /\ offset \div PerPage \in Nat
        BY <1>1, Division DEF IInv, Aligned
      <3> QED BY <2>2, <3>1, <1>1 DEF FollowPrev, Page
    <2> QED BY <2>1, <2>2
  <1>3. CASE api
    <2>1. offset' = offset + by * limit
      BY <1>2, <1>3, Int32Keeps DEF Turn
    <2>2. Aligned'
      BY <1>2, <1>3 DEF Aligned, Turn
    <2>3. offset' \in 0..MaxInt /\ offset' <= offset + limit
      BY <1>1, <1>2, <1>3, <2>1
    <2> QED BY <1>2, <2>2, <2>3, RequestKeepsIInv DEF Turn
  <1>4. CASE ~api
    <2> DEFINE page == Clamped(Page + by) - 1
               places == offset \div PerPage
    <2>1. limit = PerPage /\ places \in Nat /\ places * PerPage <= offset
      BY <1>1, <1>4, Division DEF IInv, Aligned
    <2>2. Page = places + 1
      BY <2>1 DEF Page
    <2>3. Page + by \in Int
      BY <2>1, <2>2
    <2>4. /\ page \in Nat /\ page * PerPage \in 0..MaxInt
          /\ page <= places + by
      <3>1. /\ page \in Nat /\ page * PerPage \in 0..MaxInt
            /\ Clamped(Page + by) <= Page + by
        BY <1>2, <1>4, <2>3, ClampedFits
      <3>2. Clamped(Page + by) - 1 = page /\ Clamped(Page + by) \in Int
        BY Sizes, <2>3 DEF Clamped, Lesser
      <3> HIDE DEF page, places
      <3> QED BY <2>1, <2>2, <3>1, <3>2
    <2>5. offset' = page * PerPage
      BY <1>2, <1>4, <2>4, Int32Keeps DEF Turn
    <2> HIDE DEF page, places
    <2>6. page * PerPage <= (places + 1) * PerPage
      <3>1. page <= places + 1
        BY <2>1, <2>4
      <3> QED BY <1>1, <2>1, <2>4, <3>1, TimesMonotone
    <2>7. (places + 1) * PerPage = places * PerPage + PerPage
      BY <1>1, <2>1
    <2>8. offset' <= offset + limit
      <3>1. places * PerPage \in Nat
        BY <1>1, <2>1
      <3> QED BY <1>1, <2>1, <2>4, <2>5, <2>6, <2>7, <3>1
    <2>9. Aligned'
      BY <1>2, <1>4, <2>1, <2>4, <2>5 DEF Aligned, Turn
    <2> QED BY <1>2, <2>4, <2>5, <2>8, <2>9, RequestKeepsIInv DEF Turn
  <1> QED BY <1>3, <1>4

LEMMA NextKeepsIInv == IInv /\ [Next]_vars => IInv'
  <1> SUFFICES ASSUME IInv, [Next]_vars PROVE IInv'
    OBVIOUS
  <1>1. CASE UNCHANGED vars
    <2>1. UNCHANGED <<created, matching, pc, api, limit, offset, items, total,
                      due, seen, left>>
      BY <1>1 DEF vars, table, request
    <2>2. TypeOK'
      BY <2>1 DEF IInv, TypeOK
    <2>3. OffsetsFit' /\ Counted' /\ Aligned'
      BY <2>1 DEF IInv, OffsetsFit, Counted, Aligned
    <2>4. Walked'
      BY <2>1 DEF IInv, Walked, AloneAt, Covered, Rank, Later
    <2> QED BY <2>2, <2>3, <2>4 DEF IInv
  <1>2. CASE \E r \in Runs : Enter(r) \/ Leave(r)
    BY <1>2, EnterKeepsIInv, LeaveKeepsIInv
  <1>3. CASE \E page \in Pages : OpenResults(page)
    <2> PICK page \in Pages : OpenResults(page)
      BY <1>3
    <2>1. /\ Clamped(page) - 1 \in Nat
          /\ (Clamped(page) - 1) * PerPage \in 0..MaxInt
      BY Sizes, ClampedFits
    <2> QED BY <2>1, WalkKeepsIInv DEF OpenResults
  <1>4. CASE \E n \in Limits, from \in Offsets : OpenApi(n, from)
    BY <1>4, WalkKeepsIInv DEF OpenApi, InRange
  <1>5. CASE \/ QueryFails \/ Reload
             \/ \E n \in Limits, from \in Offsets : RefuseApi(n, from)
    <2>1. /\ pc' \in {"idle", "list", "failed"} /\ NoResults
          /\ UNCHANGED <<table, request, due, seen, left>>
      BY <1>5 DEF QueryFails, Reload, RefuseApi
    <2>2. UNCHANGED <<table, api, limit, offset, due, seen, left>>
      BY <2>1 DEF request
    <2>3. Aligned'
      BY <2>2 DEF IInv, Aligned
    <2>4. offset' \in 0..MaxInt /\ offset' <= offset
      BY <2>2, Sizes DEF IInv, OffsetsFit
    <2>5. offset' <= offset \/ (pc = "shown" /\ offset' <= offset + limit)
      BY <2>4
    <2> QED BY <2>1, <2>2, <2>3, <2>4, <2>5, RequestKeepsIInv
  <1>6. CASE List
    BY <1>6, ListKeepsIInv
  <1>7. CASE Count
    BY <1>7, CountKeepsIInv
  <1>8. CASE FollowNext \/ FollowPrev
    BY <1>8, TurnKeepsIInv
  <1> QED BY <1>1, <1>2, <1>3, <1>4, <1>5, <1>6, <1>7, <1>8 DEF Next

-----------------------------------------------------------------------------
(* Theorems *)

\* IInv holds in every reachable state, for any number of runs and any sizes.
THEOREM InductiveInvariant == Spec => []IInv
  BY InitIInv, NextKeepsIInv, PTL DEF Spec

\* Every variable has its type.
THEOREM TypeCorrect == Spec => []TypeOK
  <1>1. IInv => TypeOK
    BY DEF IInv
  <1> QED BY <1>1, InductiveInvariant, PTL

\* The offset of every query of either handler fits its int32 and is not
\* negative.
THEOREM OffsetsAlwaysFit == Spec => []OffsetsFit
  <1>1. IInv => OffsetsFit
    BY DEF IInv
  <1> QED BY <1>1, InductiveInvariant, PTL

\* Whoever turns the pages to the last one has been shown every run that was
\* there when the first was listed, however many pages there are and however
\* many runs are created meanwhile, unless a run left the filter.
THEOREM WalksAreComplete == Spec => []NothingMissed
  <1>1. IInv => NothingMissed
    <2> SUFFICES ASSUME IInv, pc = "shown", ~HasNext, ~left,
                        NEW r \in due, AloneAt(r)
                 PROVE  r \in seen
      BY DEF NothingMissed
    <2>1. Covered(r)
      BY DEF IInv, Walked
    <2>2. /\ total \in Nat /\ offset \in Nat /\ limit \in Nat \ {0}
          /\ PerPage \in Nat \ {0}
      BY Sizes, CountOfRuns DEF IInv, TypeOK, OffsetsFit
    <2>3. CASE api
      BY <2>1, <2>2, <2>3 DEF HasNext, Covered
    <2>4. CASE items = {}
      BY <2>1, <2>4 DEF Covered
    <2>5. CASE ~api /\ items # {}
      <3> DEFINE places == offset \div limit
      <3>1. places \in Nat /\ places * limit <= offset
        BY <2>2, Division
      <3>2. TotalPages \in Nat \ {0} /\ total <= TotalPages * limit
        BY <2>2, PagesSuffice
      <3>3. Page = places + 1
        BY DEF Page
      <3> HIDE DEF places
      <3>4. TotalPages <= places + 1
        BY <2>5, <3>1, <3>2, <3>3 DEF HasNext
      <3>5. TotalPages * limit <= (places + 1) * limit
        BY <2>2, <3>1, <3>2, <3>4, TimesMonotone
      <3>6. (places + 1) * limit = places * limit + limit
        BY <2>2, <3>1
      <3>7. places * limit \in Nat /\ TotalPages * limit \in Nat
        BY <2>2, <3>1, <3>2
      <3>8. total <= offset + limit
        BY <2>2, <3>1, <3>2, <3>5, <3>6, <3>7
      <3> QED BY <2>1, <3>8 DEF Covered
    <2> QED BY <2>3, <2>4, <2>5
  <1> QED BY <1>1, InductiveInvariant, PTL

\* The link to the next page leads to a page with runs, unless a run left the
\* filter.
THEOREM LinksLeadToRuns == Spec => []NextHasRuns
  <1>1. IInv => NextHasRuns
    <2> SUFFICES ASSUME IInv, HasNext, ~left
                 PROVE  Cardinality(matching) > offset + limit
      BY DEF NextHasRuns
    <2>1. /\ total \in Nat /\ offset \in Nat /\ limit \in Nat \ {0}
          /\ Cardinality(matching) \in Nat
      BY Sizes, CountOfRuns DEF IInv, TypeOK, OffsetsFit
    <2>2. total <= Cardinality(matching)
      BY DEF IInv, Counted, HasNext
    <2>3. total > offset + limit
      <3>1. CASE api
        BY <2>1, <3>1 DEF HasNext
      <3>2. CASE ~api
        <4>1. PICK k \in Nat : offset = k * limit
          BY <3>2 DEF IInv, Aligned
        <4>2. Page = k + 1
          BY <2>1, <4>1, MultipleDivided DEF Page
        <4>3. /\ TotalPages \in Nat \ {0}
              /\ total > 0 => (TotalPages - 1) * limit < total
          BY <2>1, PagesSuffice
        <4>4. k + 1 <= TotalPages - 1
          BY <3>2, <4>2, <4>3 DEF HasNext
        <4>5. total > 0
          BY <2>1, <4>4 DEF TotalPages
        <4>6. (k + 1) * limit <= (TotalPages - 1) * limit
          <5>1. TotalPages - 1 \in Nat /\ k + 1 \in Nat
            BY <4>3
          <5> QED BY <2>1, <4>4, <5>1, TimesMonotone
        <4>7. (k + 1) * limit = offset + limit
          BY <2>1, <4>1
        <4>8. (TotalPages - 1) * limit \in Nat
          BY <2>1, <4>3
        <4> QED BY <2>1, <4>3, <4>5, <4>6, <4>7, <4>8
      <3> QED BY <3>1, <3>2
    <2> QED BY <2>1, <2>2, <2>3
  <1> QED BY <1>1, InductiveInvariant, PTL
=============================================================================

---------------------------- MODULE Names_proofs ----------------------------
(***************************************************************************)
(* Proofs about the names of runs: for every id of the given form, every   *)
(* name of a plugin and all limits the fixed heads fit in, Kubernetes      *)
(* takes the names, and runs share one only if their ids begin alike.      *)
(*                                                                         *)
(* The invariant is that a run has the names NamesOf makes; the work is in *)
(* the operators on strings: what is dropped, cut and trimmed leaves       *)
(* something legal, and leaves what is legal alone.                        *)
(***************************************************************************)
EXTENDS Names, TLAPS, SequenceTheorems, FiniteSetTheorems, WellFoundedInduction

-----------------------------------------------------------------------------
(* Least and greatest *)

\* A set of numbers has a least one.
LEMMA LeastIsIn ==
    ASSUME NEW T \in SUBSET Nat, T # {}
    PROVE  Min(T) \in T /\ \A y \in T : Min(T) <= y
<1>1. PICK x \in T : \A y \in T : ~(<<y, x>> \in OpToRel(<, Nat))
  BY NatLessThanWellFounded, WFMin
<1>2. \A y \in T : ~(y < x)
  BY <1>1 DEF OpToRel
<1>3. \A y \in T : x <= y
  BY <1>2
<1> QED BY <1>3 DEF Min

\* A bounded one also a greatest: the least bound.
LEMMA GreatestIsIn ==
    ASSUME NEW T \in SUBSET Nat, T # {}, NEW n \in Nat, \A y \in T : y <= n
    PROVE  Max(T) \in T /\ \A y \in T : y <= Max(T)
<1> DEFINE Bounds == {u \in Nat : \A y \in T : y <= u}
           u == Min(Bounds)
<1>1. u \in Bounds /\ \A v \in Bounds : u <= v
  <2>1. Bounds \in SUBSET Nat /\ n \in Bounds
    OBVIOUS
  <2> QED BY <2>1, LeastIsIn
<1> HIDE DEF u
<1>2. u \in T
  <2> SUFFICES ASSUME u \notin T PROVE FALSE
    OBVIOUS
  <2>1. u \in Nat /\ \A y \in T : y \in Nat /\ y <= u /\ y # u
    BY <1>1
  <2>2. PICK y \in T : TRUE
    OBVIOUS
  <2>3. u - 1 \in Nat /\ \A z \in T : z <= u - 1
    BY ONLY <2>1, <2>2, y \in T
  <2>4. u - 1 \in Bounds
    BY <2>3
  <2>5. u <= u - 1
    BY <1>1, <2>4
  <2> QED BY ONLY <2>1, <2>5
<1>3. \A y \in T : u >= y
  BY <1>1
<1> QED BY <1>2, <1>3 DEF Max

-----------------------------------------------------------------------------
(* Strings *)

\* The characters of a string that are kept are kept in a string.
LEMMA OnlyTheKept ==
    ASSUME NEW T, NEW S, NEW s \in Seq(T)
    PROVE  Only(s, S) \in Seq(T \cap S)
<1> DEFINE kept == {i \in DOMAIN s : s[i] \in S}
           UpTo(i) == {k \in kept : k <= i}
           n == Cardinality(kept)
           place == [i \in kept |-> Cardinality(UpTo(i))]
<1>1. DOMAIN s = 1..Len(s) /\ Len(s) \in Nat /\ kept \subseteq 1..Len(s)
  BY LenProperties
<1>2. IsFiniteSet(kept) /\ n \in Nat
  <2> HIDE DEF kept
  <2>1. IsFiniteSet(1..Len(s))
    BY <1>1, FS_Interval
  <2>2. IsFiniteSet(kept)
    BY <1>1, <2>1, FS_Subset
  <2> QED BY <2>2, FS_CardinalityType
<1>3. \A i \in kept : /\ IsFiniteSet(UpTo(i)) /\ Cardinality(UpTo(i)) \in 1..n
  <2> SUFFICES ASSUME NEW i \in kept
               PROVE  IsFiniteSet(UpTo(i)) /\ Cardinality(UpTo(i)) \in 1..n
    OBVIOUS
  <2> HIDE DEF kept
  <2>1. UpTo(i) \in SUBSET kept /\ i \in UpTo(i)
    BY <1>1
  <2> HIDE DEF UpTo
  <2>2. /\ IsFiniteSet(UpTo(i)) /\ Cardinality(UpTo(i)) <= n
    BY <1>2, <2>1, FS_Subset
  <2>3. Cardinality(UpTo(i)) \in Nat /\ Cardinality(UpTo(i)) # 0
    BY <2>1, <2>2, FS_CardinalityType, FS_EmptySet
  <2> QED BY <1>2, <2>2, <2>3
<1>4. \A i, j \in kept : i < j => Cardinality(UpTo(i)) # Cardinality(UpTo(j))
  <2> SUFFICES ASSUME NEW i \in kept, NEW j \in kept, i < j
               PROVE  Cardinality(UpTo(i)) # Cardinality(UpTo(j))
    OBVIOUS
  <2>1. IsFiniteSet(UpTo(j))
    BY <1>3
  <2> HIDE DEF kept
  <2>2. i \in Nat /\ j \in Nat /\ \A k \in kept : k \in Nat
    BY <1>1
  <2>3. \A k \in kept : k <= i => k <= j
    BY <2>2
  <2>4. j <= j /\ ~(j <= i)
    BY <2>2
  <2>5. UpTo(i) \in SUBSET UpTo(j) /\ j \in UpTo(j) /\ j \notin UpTo(i)
    BY <2>3, <2>4
  <2> HIDE DEF UpTo
  <2> QED BY <2>1, <2>5, FS_Subset
<1>5. place \in Injection(kept, 1..n)
  <2> HIDE DEF kept, UpTo, n
  <2>1. place \in [kept -> 1..n]
    BY <1>3
  <2>2. \A i, j \in kept : place[i] = place[j] => i = j
    BY <1>1, <1>4
  <2> QED BY <2>1, <2>2 DEF Injection, IsInjective
<1>6. \A k \in 1..n : \E i \in kept : place[i] = k
  <2>1. IsFiniteSet(1..n) /\ Cardinality(1..n) = n
    BY <1>2, FS_Interval
  <2>2. place \in Surjection(kept, 1..n)
    <3> HIDE DEF kept, n, place
    <3> QED BY <1>2, <1>5, <2>1, FS_Injection DEF n
  <2> HIDE DEF kept, n, place
  <2> QED BY <2>2 DEF Surjection
<1>7. Only(s, S) = [k \in 1..n |-> s[CHOOSE i \in kept : Cardinality(UpTo(i)) = k]]
  BY DEF Only
<1>8. \A k \in 1..n : s[CHOOSE i \in kept : Cardinality(UpTo(i)) = k] \in T \cap S
  <2> TAKE k \in 1..n
  <2>1. \E i \in kept : Cardinality(UpTo(i)) = k
    BY <1>6
  <2>2. \A i \in kept : s[i] \in T \cap S
    BY <1>1, ElementOfSeq
  <2> HIDE DEF kept, UpTo
  <2> QED BY <2>1, <2>2
<1>9. Only(s, S) \in [1..n -> T \cap S]
  <2> HIDE DEF kept, UpTo, n
  <2> QED BY <1>7, <1>8
<1> HIDE DEF n
<1> QED BY <1>2, <1>9, SeqDef

\* When all are kept the string stays as it is.
LEMMA OnlyKeepsAll ==
    ASSUME NEW S, NEW s \in Seq(S)
    PROVE  Only(s, S) = s
<1> DEFINE kept == {i \in DOMAIN s : s[i] \in S}
           UpTo(i) == {k \in kept : k <= i}
<1>1. DOMAIN s = 1..Len(s) /\ Len(s) \in Nat /\ s \in [1..Len(s) -> S]
  BY LenProperties
<1>2. kept = 1..Len(s)
  BY <1>1
<1>3. \A n \in Nat : Cardinality(1..n) = n
  <2> TAKE n \in Nat
  <2>1. Cardinality(1..n) = IF 1 > n THEN 0 ELSE n - 1 + 1
    BY FS_Interval
  <2> QED BY <2>1
<1>4. \A i \in kept : Cardinality(UpTo(i)) = i
  <2> SUFFICES ASSUME NEW i \in 1..Len(s) PROVE Cardinality(UpTo(i)) = i
    BY <1>2
  <2>1. UpTo(i) = 1..i
    BY <1>1, <1>2
  <2> HIDE DEF UpTo
  <2> QED BY <1>3, <2>1
<1>5. Only(s, S) = [k \in 1..Cardinality(kept) |->
                       s[CHOOSE i \in kept : Cardinality(UpTo(i)) = k]]
  BY DEF Only
<1>6. \A k \in 1..Len(s) : (CHOOSE i \in kept : Cardinality(UpTo(i)) = k) = k
  <2> HIDE DEF kept, UpTo
  <2> QED BY <1>2, <1>4
<1>7. Only(s, S) = [k \in 1..Len(s) |-> s[k]]
  <2> HIDE DEF kept, UpTo
  <2>1. Cardinality(kept) = Len(s)
    BY <1>1, <1>2, <1>3
  <2> QED BY <1>5, <1>6, <2>1
<1> QED BY <1>1, <1>7

\* Lowering works on each character.
LEMMA LoweredIn ==
    ASSUME NEW T, NEW s \in Seq({c \in Chars : Lower[c] \in T})
    PROVE  ToLower(s) \in Seq(T) /\ Len(ToLower(s)) = Len(s)
<1>1. /\ DOMAIN s = 1..Len(s) /\ Len(s) \in Nat
      /\ s \in [1..Len(s) -> {c \in Chars : Lower[c] \in T}]
  BY LenProperties
<1>2. ToLower(s) \in [1..Len(s) -> T]
  BY <1>1 DEF ToLower
<1>3. ToLower(s) \in Seq(T)
  BY <1>1, <1>2, SeqDef
<1>4. DOMAIN ToLower(s) = 1..Len(ToLower(s)) /\ Len(ToLower(s)) \in Nat
  BY <1>3, LenProperties
<1>5. 1..Len(ToLower(s)) = 1..Len(s)
  BY <1>2, <1>4
<1>6. \A m, n \in Nat : 1..m = 1..n => m = n
  <2> SUFFICES ASSUME NEW m \in Nat, NEW n \in Nat, 1..m = 1..n PROVE m = n
    OBVIOUS
  <2>1. \A i \in Nat : i \in 1..m <=> i \in 1..n
    OBVIOUS
  <2>2. m \in 1..m <=> m \in 1..n
    BY <2>1
  <2>3. n \in 1..m <=> n \in 1..n
    BY <2>1
  <2> QED BY <2>2, <2>3
<1> QED BY <1>1, <1>3, <1>4, <1>5, <1>6

\* What is legal in a label is lowered to itself.
LEMMA LoweredAlready ==
    ASSUME NEW s \in Seq(Allowed)
    PROVE  ToLower(s) = s
<1>1. DOMAIN s = 1..Len(s) /\ s \in [1..Len(s) -> Allowed]
  BY LenProperties
<1>2. \A c \in Allowed : Lower[c] = c
  BY NamesAssumption
<1> QED BY <1>1, <1>2 DEF ToLower

\* A string is cut at the limit and nowhere else.
LEMMA TruncateKeeps ==
    ASSUME NEW S, NEW s \in Seq(S), NEW n \in Nat
    PROVE  /\ Truncate(s, n) \in Seq(S)
           /\ Len(Truncate(s, n)) = IF Len(s) > n THEN n ELSE Len(s)
           /\ \A i \in 1..Len(Truncate(s, n)) : Truncate(s, n)[i] = s[i]
           /\ Len(s) <= n => Truncate(s, n) = s
<1>1. Len(s) \in Nat /\ s \in [1..Len(s) -> S]
  BY LenProperties
<1>2. CASE Len(s) > n
  <2>1. Truncate(s, n) = SubSeq(s, 1, n)
    BY <1>2 DEF Truncate
  <2>2. \A i \in 1..n : s[i] \in S
    BY <1>1, <1>2
  <2>3. /\ SubSeq(s, 1, n) \in Seq(S)
        /\ Len(SubSeq(s, 1, n)) = IF 1 <= n THEN n - 1 + 1 ELSE 0
        /\ \A i \in 1..n - 1 + 1 : SubSeq(s, 1, n)[i] = s[1 + i - 1]
    BY <2>2, SubSeqProperties
  <2>4. Len(SubSeq(s, 1, n)) = n
    BY <2>3
  <2>5. \A i \in 1..n : SubSeq(s, 1, n)[i] = s[i]
    BY <2>3
  <2>6. ~(Len(s) <= n)
    BY <1>1, <1>2
  <2> QED BY <1>2, <2>1, <2>3, <2>4, <2>5, <2>6
<1>3. CASE ~(Len(s) > n)
  BY <1>1, <1>3 DEF Truncate
<1> QED BY <1>2, <1>3

\* The characters that are not dashes have a first and a last.
LEMMA SolidEnds ==
    ASSUME NEW S, NEW s \in Seq(S), Solid(s) # {}
    PROVE  LET a == Min(Solid(s))  b == Max(Solid(s))
           IN  /\ a \in 1..Len(s) /\ b \in a..Len(s)
               /\ s[a] # Dash /\ s[b] # Dash
               /\ \A i \in Solid(s) : a <= i /\ i <= b
<1>1. Len(s) \in Nat /\ DOMAIN s = 1..Len(s)
  BY LenProperties
<1>2. Solid(s) \in SUBSET Nat /\ \A i \in Solid(s) : i \in 1..Len(s) /\ s[i] # Dash
  BY <1>1 DEF Solid
<1>3. Min(Solid(s)) \in Solid(s) /\ \A i \in Solid(s) : Min(Solid(s)) <= i
  BY <1>2, LeastIsIn
<1>4. \A i \in Solid(s) : i <= Len(s)
  BY <1>1, <1>2
<1>5. Max(Solid(s)) \in Solid(s) /\ \A i \in Solid(s) : i <= Max(Solid(s))
  BY <1>1, <1>2, <1>4, GreatestIsIn
<1> QED BY <1>1, <1>2, <1>3, <1>5

\* Trimming takes dashes from the ends.
LEMMA TrimKeeps ==
    ASSUME NEW S, NEW s \in Seq(S)
    PROVE  /\ Trim(s) \in Seq(S) /\ Len(Trim(s)) <= Len(s)
           /\ Trim(s) # <<>> => Trim(s)[1] # Dash /\ Trim(s)[Len(Trim(s))] # Dash
<1>1. Len(s) \in Nat /\ s \in [1..Len(s) -> S]
  BY LenProperties
<1>2. CASE Solid(s) = {}
  BY <1>1, <1>2, EmptySeq DEF Trim
<1>3. CASE Solid(s) # {}
  <2> DEFINE a == Min(Solid(s))
             b == Max(Solid(s))
  <2>1. a \in 1..Len(s) /\ b \in a..Len(s) /\ s[a] # Dash /\ s[b] # Dash
    BY <1>3, SolidEnds
  <2>2. Trim(s) = SubSeq(s, a, b)
    BY <1>3 DEF Trim
  <2> HIDE DEF a, b
  <2>3. /\ a \in Int /\ b \in Int /\ a <= b /\ \A i \in a..b : s[i] \in S
    BY <1>1, <2>1
  <2>4. /\ SubSeq(s, a, b) \in Seq(S)
        /\ Len(SubSeq(s, a, b)) = IF a <= b THEN b - a + 1 ELSE 0
        /\ \A i \in 1..b - a + 1 : SubSeq(s, a, b)[i] = s[a + i - 1]
    BY <2>3, SubSeqProperties
  <2>5. SubSeq(s, a, b)[1] = s[a] /\ SubSeq(s, a, b)[b - a + 1] = s[b]
    BY <2>3, <2>4
  <2> QED BY <1>1, <2>1, <2>2, <2>3, <2>4, <2>5
<1> QED BY <1>2, <1>3

\* A string with no dash at its ends is trimmed to itself.
LEMMA TrimmedAlready ==
    ASSUME NEW S, NEW s \in Seq(S), Len(s) > 0, s[1] # Dash, s[Len(s)] # Dash
    PROVE  Trim(s) = s
<1>1. Len(s) \in Nat /\ DOMAIN s = 1..Len(s)
  BY LenProperties
<1>2. 1 \in Solid(s) /\ Len(s) \in Solid(s)
  BY <1>1 DEF Solid
<1>3. Min(Solid(s)) = 1 /\ Max(Solid(s)) = Len(s)
  BY <1>1, <1>2, SolidEnds
<1> QED BY <1>2, <1>3, SubSeqFull DEF Trim

\* Dashes taken from the end only leave the beginning.
LEMMA TrimRightKeeps ==
    ASSUME NEW S, NEW s \in Seq(S), Len(s) > 0, s[1] # Dash
    PROVE  TrimRight(s) \in Seq(S) /\ Len(TrimRight(s)) \in 1..Len(s)
<1>1. Len(s) \in Nat /\ s \in [1..Len(s) -> S] /\ DOMAIN s = 1..Len(s)
  BY LenProperties
<1>2. 1 \in Solid(s)
  BY <1>1 DEF Solid
<1> DEFINE b == Max(Solid(s))
<1>3. b \in 1..Len(s) /\ TrimRight(s) = SubSeq(s, 1, b)
  BY <1>1, <1>2, SolidEnds DEF TrimRight
<1> HIDE DEF b
<1>4. \A i \in 1..b : s[i] \in S
  BY <1>1, <1>3
<1>5. /\ SubSeq(s, 1, b) \in Seq(S)
      /\ Len(SubSeq(s, 1, b)) = IF 1 <= b THEN b - 1 + 1 ELSE 0
  BY <1>3, <1>4, SubSeqProperties
<1> QED BY <1>1, <1>3, <1>5

-----------------------------------------------------------------------------
(* Names *)

\* What the names are made of.
LEMMA Limits ==
    /\ MaxLabel \in Nat /\ MaxLabel > 0 /\ PrefixLen \in Nat /\ PrefixLen > 0
    /\ MaxPluginLen \in Nat /\ MaxPluginLen > 0
    /\ Len(NamespaceHead) + MaxPluginLen + 1 + PrefixLen = MaxLabel
    /\ NamespaceHead \in Seq(Allowed) /\ Len(NamespaceHead) \in Nat
    /\ Len(NamespaceHead) > 0 /\ NamespaceHead[1] # Dash
<1>1. /\ MaxLabel \in Nat /\ MaxLabel > 0 /\ PrefixLen \in Nat /\ PrefixLen > 0
      /\ Len(NamespaceHead) + 1 + PrefixLen < MaxLabel
  BY NamesAssumption
<1>2. /\ NamespaceHead \in Seq(Allowed)
      /\ Len(NamespaceHead) > 0 /\ NamespaceHead[1] # Dash
  BY NamesAssumption
<1>3. Len(NamespaceHead) \in Nat
  BY <1>2, LenProperties
<1>4. /\ MaxPluginLen \in Nat /\ MaxPluginLen > 0
      /\ Len(NamespaceHead) + MaxPluginLen + 1 + PrefixLen = MaxLabel
  BY ONLY <1>1, <1>3 DEF MaxPluginLen
<1> QED BY <1>1, <1>2, <1>3, <1>4

\* Whatever was asked for, a label is legal.
LEMMA LabelsAreLegal ==
    ASSUME NEW s \in Seq(Chars)
    PROVE  DnsLabel(s) \in Seq(Allowed) /\ Legal(DnsLabel(s))
<1> DEFINE Lowered == {Lower[c] : c \in Chars}
           low == ToLower(s)
           cut == Truncate(Only(low, Allowed), MaxLabel)
           label == Trim(cut)
<1>1. low \in Seq(Lowered)
  <2>1. {c \in Chars : Lower[c] \in Lowered} = Chars
    OBVIOUS
  <2> HIDE DEF Lowered
  <2> QED BY <2>1, LoweredIn
<1> HIDE DEF low
<1>2. Only(low, Allowed) \in Seq(Allowed)
  <2>1. Only(low, Allowed) \in Seq(Lowered \cap Allowed)
    BY <1>1, OnlyTheKept
  <2>2. Lowered \cap Allowed \subseteq Allowed
    OBVIOUS
  <2> HIDE DEF Lowered
  <2> QED BY <2>1, <2>2, SeqMonotonic
<1>3. cut \in Seq(Allowed) /\ Len(cut) \in Nat /\ Len(cut) <= MaxLabel
  <2>1. Len(Only(low, Allowed)) \in Nat
    BY <1>2, LenProperties
  <2>2. /\ cut \in Seq(Allowed)
        /\ Len(cut) = IF Len(Only(low, Allowed)) > MaxLabel
                      THEN MaxLabel ELSE Len(Only(low, Allowed))
    BY <1>2, Limits, TruncateKeeps
  <2> HIDE DEF cut
  <2> QED BY <2>1, <2>2, Limits
<1> HIDE DEF cut
<1>4. /\ label \in Seq(Allowed) /\ Len(label) <= Len(cut)
      /\ label # <<>> => label[1] # Dash /\ label[Len(label)] # Dash
  BY <1>3, TrimKeeps
<1>5. DnsLabel(s) = IF label = <<>> THEN X ELSE label
  BY DEF DnsLabel, label, cut, low
<1> HIDE DEF label
<1>6. CASE label = <<>>
  <2>1. X \in Seq(Letters) /\ Len(X) \in 1..MaxLabel
    BY NamesAssumption
  <2>2. X \in Seq(Allowed)
    BY <2>1, SeqMonotonic DEF Allowed
  <2>3. DOMAIN X = 1..Len(X) /\ \A i \in 1..Len(X) : X[i] \in Letters
    BY <2>1, LenProperties, ElementOfSeq
  <2>4. \A i \in 1..Len(X) : X[i] \in Allowed /\ X[i] # Dash
    BY <2>3, NamesAssumption DEF Allowed
  <2>5. 1 \in 1..Len(X) /\ Len(X) \in 1..Len(X)
    BY <2>1, Limits
  <2> QED BY <1>5, <1>6, <2>1, <2>2, <2>3, <2>4, <2>5 DEF Legal
<1>7. CASE label # <<>>
  <2>1. Len(label) \in Nat \ {0}
    BY <1>4, <1>7, EmptySeq
  <2>2. Len(label) \in 1..MaxLabel
    BY <1>3, <1>4, <2>1, Limits
  <2>3. DOMAIN label = 1..Len(label) /\ \A i \in 1..Len(label) : label[i] \in Allowed
    BY <1>4, LenProperties, ElementOfSeq
  <2> QED BY <1>4, <1>5, <1>7, <2>2, <2>3 DEF Legal
<1> QED BY <1>6, <1>7

\* What is legal already is taken as it is.
LEMMA LegalStays ==
    ASSUME NEW s \in Seq(Allowed), Legal(s)
    PROVE  DnsLabel(s) = s
<1>1. Only(ToLower(s), Allowed) = s
  BY LoweredAlready, OnlyKeepsAll
<1>2. Len(s) \in Nat /\ Len(s) > 0 /\ Len(s) <= MaxLabel /\ s[1] # Dash /\ s[Len(s)] # Dash
  BY Limits DEF Legal
<1>3. Truncate(s, MaxLabel) = s
  BY <1>2, Limits, TruncateKeeps
<1>4. Trim(s) = s
  BY <1>2, TrimmedAlready
<1>5. s # <<>>
  BY <1>2, EmptySeq
<1> QED BY <1>1, <1>3, <1>4, <1>5 DEF DnsLabel

\* The prefix of an id is one of letters and not empty.
LEMMA PrefixOfLetters ==
    ASSUME NEW id \in Ids
    PROVE  RunIDPrefix(id) \in Seq(Letters) /\ Len(RunIDPrefix(id)) \in 1..PrefixLen
<1> DEFINE Written == {c \in Chars : c # Dash => Lower[c] \in Letters}
           InId == {c \in Chars : Lower[c] \in Letters}
           clean == ToLower(Only(id, Chars \ {Dash}))
<1>1. id \in Seq(Written)
  BY NamesAssumption
<1>2. Only(id, Chars \ {Dash}) \in Seq(InId)
  <2>1. Only(id, Chars \ {Dash}) \in Seq(Written \cap (Chars \ {Dash}))
    BY <1>1, OnlyTheKept
  <2>2. Written \cap (Chars \ {Dash}) \subseteq InId
    OBVIOUS
  <2> HIDE DEF Written, InId
  <2> QED BY <2>1, <2>2, SeqMonotonic
<1>3. clean \in Seq(Letters)
  BY <1>2, LoweredIn
<1>4. RunIDPrefix(id) = IF clean = <<>> THEN Unknown ELSE Truncate(clean, PrefixLen)
  BY DEF RunIDPrefix
<1> HIDE DEF clean
<1>5. CASE clean = <<>>
  BY <1>4, <1>5, NamesAssumption
<1>6. CASE clean # <<>>
  <2>1. Len(clean) \in Nat \ {0}
    BY <1>3, <1>6, EmptySeq
  <2>2. /\ Truncate(clean, PrefixLen) \in Seq(Letters)
        /\ Len(Truncate(clean, PrefixLen)) = IF Len(clean) > PrefixLen
                                             THEN PrefixLen ELSE Len(clean)
    BY <1>3, Limits, TruncateKeeps
  <2> QED BY <1>4, <1>6, <2>1, <2>2, Limits
<1> QED BY <1>5, <1>6

\* What stands before the prefix in a name.
Front(b) == /\ b \in Seq(Allowed) /\ Len(b) > 0
            /\ b[1] # Dash /\ b[Len(b)] = Dash

\* A front with a prefix that fits the limit is a legal name, and stays as it is.
LEMMA FrontAndPrefix ==
    ASSUME NEW b, Front(b), NEW p \in Seq(Letters), Len(p) > 0,
           Len(b) + Len(p) <= MaxLabel
    PROVE  Legal(b \o p) /\ DnsLabel(b \o p) = b \o p
<1>1. b \in Seq(Allowed) /\ p \in Seq(Allowed)
  BY SeqMonotonic DEF Front, Allowed
<1>2. Len(b) \in Nat /\ Len(p) \in Nat /\ Len(b) > 0 /\ Len(p) > 0
  BY <1>1, LenProperties DEF Front
<1>3. /\ b \o p \in Seq(Allowed)
      /\ Len(b \o p) = Len(b) + Len(p)
      /\ \A i \in 1..Len(b) + Len(p) :
            (b \o p)[i] = IF i <= Len(b) THEN b[i] ELSE p[i - Len(b)]
  BY <1>1, ConcatProperties
<1>4. DOMAIN (b \o p) = 1..Len(b \o p) /\ \A i \in 1..Len(b \o p) : (b \o p)[i] \in Allowed
  BY <1>3, LenProperties, ElementOfSeq
<1>5. (b \o p)[1] # Dash
  BY <1>2, <1>3 DEF Front
<1>6. (b \o p)[Len(b \o p)] # Dash
  <2>1. /\ Len(b) + Len(p) \in 1..Len(b) + Len(p) /\ ~(Len(b) + Len(p) <= Len(b))
        /\ Len(b) + Len(p) - Len(b) = Len(p) /\ Len(p) \in 1..Len(p)
    BY <1>2
  <2>2. (b \o p)[Len(b \o p)] = p[Len(p)]
    BY <1>3, <2>1
  <2>3. p[Len(p)] \in Letters
    BY <2>1, ElementOfSeq
  <2> QED BY <2>2, <2>3, NamesAssumption
<1>7. Len(b \o p) \in 1..MaxLabel
  BY <1>2, <1>3, Limits
<1>8. Legal(b \o p)
  BY <1>4, <1>5, <1>6, <1>7 DEF Legal
<1> QED BY <1>3, <1>8, LegalStays

\* The last dash of a name is where its prefix begins.
LEMMA PrefixIsRead ==
    ASSUME NEW b, NEW c, Front(b), Front(c),
           NEW p \in Seq(Letters), NEW q \in Seq(Letters), b \o p = c \o q
    PROVE  p = q
<1>1. /\ b \in Seq(Allowed) /\ c \in Seq(Allowed)
      /\ p \in Seq(Allowed) /\ q \in Seq(Allowed)
  BY SeqMonotonic DEF Front, Allowed
<1>2. /\ Len(b) \in Nat /\ Len(c) \in Nat /\ Len(p) \in Nat /\ Len(q) \in Nat
      /\ Len(b) > 0 /\ Len(c) > 0
  BY <1>1, LenProperties DEF Front
<1>3. /\ Len(b \o p) = Len(b) + Len(p)
      /\ \A i \in 1..Len(b) + Len(p) :
            (b \o p)[i] = IF i <= Len(b) THEN b[i] ELSE p[i - Len(b)]
  BY <1>1, ConcatProperties
<1>4. /\ Len(c \o q) = Len(c) + Len(q)
      /\ \A i \in 1..Len(c) + Len(q) :
            (c \o q)[i] = IF i <= Len(c) THEN c[i] ELSE q[i - Len(c)]
  BY <1>1, ConcatProperties
<1>5. Len(b) + Len(p) = Len(c) + Len(q)
  BY <1>3, <1>4
<1>6. b[Len(b)] = Dash /\ c[Len(c)] = Dash
  BY DEF Front
<1>7. (\A i \in 1..Len(p) : p[i] # Dash) /\ (\A i \in 1..Len(q) : q[i] # Dash)
  BY ElementOfSeq, NamesAssumption
<1>8. ~(Len(b) < Len(c))
  <2> SUFFICES ASSUME Len(b) < Len(c) PROVE FALSE
    OBVIOUS
  <2>1. /\ Len(c) \in 1..Len(b) + Len(p) /\ Len(c) \in 1..Len(c) + Len(q)
        /\ ~(Len(c) <= Len(b)) /\ Len(c) <= Len(c)
        /\ Len(c) - Len(b) \in 1..Len(p)
    BY ONLY <1>2, <1>5, Len(b) < Len(c)
  <2>2. p[Len(c) - Len(b)] = Dash
    BY <1>3, <1>4, <1>6, <2>1
  <2> QED BY <1>7, <2>1, <2>2
<1>9. ~(Len(c) < Len(b))
  <2> SUFFICES ASSUME Len(c) < Len(b) PROVE FALSE
    OBVIOUS
  <2>1. /\ Len(b) \in 1..Len(b) + Len(p) /\ Len(b) \in 1..Len(c) + Len(q)
        /\ ~(Len(b) <= Len(c)) /\ Len(b) <= Len(b)
        /\ Len(b) - Len(c) \in 1..Len(q)
    BY ONLY <1>2, <1>5, Len(c) < Len(b)
  <2>2. q[Len(b) - Len(c)] = Dash
    BY <1>3, <1>4, <1>6, <2>1
  <2> QED BY <1>7, <2>1, <2>2
<1>10. Len(b) = Len(c) /\ Len(p) = Len(q)
  BY ONLY <1>2, <1>5, <1>8, <1>9
<1>11. \A i \in 1..Len(p) : p[i] = q[i]
  <2> TAKE i \in 1..Len(p)
  <2>1. /\ Len(b) + i \in 1..Len(b) + Len(p) /\ ~(Len(b) + i <= Len(b))
        /\ Len(b) + i - Len(b) = i
    BY <1>2
  <2>2. (b \o p)[Len(b) + i] = p[i]
    BY <1>3, <2>1
  <2>3. (c \o q)[Len(b) + i] = q[i]
    BY <1>4, <1>10, <2>1
  <2> QED BY <2>2, <2>3
<1> QED BY <1>10, <1>11, SeqEqual

\* A namespace: the fixed head, what fits of the plugin's label, and the prefix.
LEMMA NamespaceIsFrontAndPrefix ==
    ASSUME NEW id \in Ids, NEW plugin \in Plugins
    PROVE  /\ Legal(NamespaceName(id, plugin))
           /\ \E b : Front(b) /\ NamespaceName(id, plugin) = b \o RunIDPrefix(id)
<1> DEFINE label == DnsLabel(plugin)
           cut == Truncate(label, MaxPluginLen)
           piece == TrimRight(cut)
           front == NamespaceHead \o piece \o <<Dash>>
           p == RunIDPrefix(id)
<1>1. label \in Seq(Allowed) /\ Len(label) \in Nat /\ Len(label) > 0 /\ label[1] # Dash
  <2>1. plugin \in Seq(Chars)
    BY NamesAssumption
  <2>2. label \in Seq(Allowed) /\ Legal(label)
    BY <2>1, LabelsAreLegal
  <2> HIDE DEF label
  <2>3. Len(label) \in Nat
    BY <2>2, LenProperties
  <2> QED BY <2>2, <2>3, Limits DEF Legal
<1> HIDE DEF label
<1>2. /\ cut \in Seq(Allowed)
      /\ Len(cut) \in Nat /\ Len(cut) > 0 /\ Len(cut) <= MaxPluginLen /\ cut[1] # Dash
  <2>1. /\ cut \in Seq(Allowed)
        /\ Len(cut) = IF Len(label) > MaxPluginLen THEN MaxPluginLen ELSE Len(label)
        /\ \A i \in 1..Len(cut) : cut[i] = label[i]
    BY <1>1, Limits, TruncateKeeps
  <2> HIDE DEF cut
  <2>2. Len(cut) \in Nat /\ Len(cut) > 0 /\ Len(cut) <= MaxPluginLen
    BY <1>1, <2>1, Limits
  <2>3. 1 \in 1..Len(cut)
    BY <2>2
  <2> QED BY <1>1, <2>1, <2>2, <2>3
<1> HIDE DEF cut
<1>3. piece \in Seq(Allowed) /\ Len(piece) \in 1..Len(cut)
  BY <1>2, TrimRightKeeps
<1> HIDE DEF piece
<1>4. /\ NamespaceHead \o piece \in Seq(Allowed)
      /\ Len(NamespaceHead \o piece) = Len(NamespaceHead) + Len(piece)
      /\ (NamespaceHead \o piece)[1] = NamespaceHead[1]
  <2>1. /\ NamespaceHead \o piece \in Seq(Allowed)
        /\ Len(NamespaceHead \o piece) = Len(NamespaceHead) + Len(piece)
        /\ \A i \in 1..Len(NamespaceHead) + Len(piece) : (NamespaceHead \o piece)[i] =
              IF i <= Len(NamespaceHead) THEN NamespaceHead[i]
              ELSE piece[i - Len(NamespaceHead)]
    BY <1>3, Limits, ConcatProperties
  <2>2. 1 \in 1..Len(NamespaceHead) + Len(piece) /\ 1 <= Len(NamespaceHead)
    BY <1>2, <1>3, Limits
  <2> QED BY <2>1, <2>2
<1>5. /\ Front(front)
      /\ Len(front) = Len(NamespaceHead) + Len(piece) + 1
  <2> DEFINE head == NamespaceHead \o piece
  <2> HIDE DEF head
  <2>1. <<Dash>> \in Seq(Allowed) /\ Len(<<Dash>>) = 1 /\ <<Dash>>[1] = Dash
    BY DEF Allowed
  <2>2. /\ head \o <<Dash>> \in Seq(Allowed)
        /\ Len(head \o <<Dash>>) = Len(head) + 1
        /\ \A i \in 1..Len(head) + 1 : (head \o <<Dash>>)[i] =
              IF i <= Len(head) THEN head[i] ELSE <<Dash>>[i - Len(head)]
    <3>1. head \in Seq(Allowed)
      BY <1>4 DEF head
    <3>2. /\ head \o <<Dash>> \in Seq(Allowed)
          /\ Len(head \o <<Dash>>) = Len(head) + Len(<<Dash>>)
          /\ \A i \in 1..Len(head) + Len(<<Dash>>) : (head \o <<Dash>>)[i] =
                IF i <= Len(head) THEN head[i] ELSE <<Dash>>[i - Len(head)]
      BY <2>1, <3>1, ConcatProperties
    <3> QED BY <2>1, <3>2
  <2>3. /\ Len(head) = Len(NamespaceHead) + Len(piece) /\ Len(head) \in Nat
        /\ Len(head) > 0 /\ head[1] # Dash
    BY <1>2, <1>3, <1>4, Limits DEF head
  <2>4. /\ 1 \in 1..Len(head) + 1 /\ 1 <= Len(head)
        /\ Len(head) + 1 \in 1..Len(head) + 1 /\ ~(Len(head) + 1 <= Len(head))
        /\ Len(head) + 1 - Len(head) = 1 /\ Len(head) + 1 > 0
    BY ONLY <2>3
  <2>5. (head \o <<Dash>>)[1] = head[1]
    BY <2>2, <2>4
  <2>6. (head \o <<Dash>>)[Len(head) + 1] = Dash
    BY <2>1, <2>2, <2>4
  <2>7. front = head \o <<Dash>>
    BY DEF head
  <2> HIDE DEF front
  <2> QED BY <2>2, <2>3, <2>4, <2>5, <2>6, <2>7 DEF Front
<1>6. NamespaceName(id, plugin) = DnsLabel(front \o p)
  BY DEF NamespaceName, label, cut, piece
<1> HIDE DEF front
<1>7. p \in Seq(Letters) /\ Len(p) \in 1..PrefixLen
  BY PrefixOfLetters
<1> HIDE DEF p
<1>8. Len(front) + Len(p) <= MaxLabel /\ Len(p) > 0
  <2>1. Len(piece) <= MaxPluginLen /\ Len(piece) \in Nat
    BY <1>2, <1>3, Limits
  <2>2. Len(p) \in Nat /\ Len(p) > 0 /\ Len(p) <= PrefixLen
    BY <1>7, Limits
  <2> QED BY <1>5, <2>1, <2>2, Limits
<1>9. Legal(front \o p) /\ DnsLabel(front \o p) = front \o p
  BY <1>5, <1>7, <1>8, FrontAndPrefix
<1> QED BY <1>5, <1>6, <1>9 DEF p

\* A Job's name: its head and the prefix.
LEMMA JobIsFrontAndPrefix ==
    ASSUME NEW id \in Ids, NEW j \in DOMAIN JobHeads
    PROVE  /\ Legal(JobName(j, id))
           /\ \E b : Front(b) /\ JobName(j, id) = b \o RunIDPrefix(id)
<1>1. Front(JobHeads[j]) /\ Len(JobHeads[j]) + PrefixLen <= MaxLabel
  BY NamesAssumption DEF Front
<1>2. RunIDPrefix(id) \in Seq(Letters) /\ Len(RunIDPrefix(id)) \in 1..PrefixLen
  BY PrefixOfLetters
<1>3. Len(JobHeads[j]) \in Nat
  BY <1>1, LenProperties DEF Front
<1>4. Len(RunIDPrefix(id)) > 0 /\ Len(JobHeads[j]) + Len(RunIDPrefix(id)) <= MaxLabel
  BY <1>1, <1>2, <1>3, Limits
<1>5. /\ Legal(JobHeads[j] \o RunIDPrefix(id))
      /\ DnsLabel(JobHeads[j] \o RunIDPrefix(id)) = JobHeads[j] \o RunIDPrefix(id)
  BY <1>1, <1>2, <1>4, FrontAndPrefix
<1> QED BY <1>1, <1>5 DEF JobName

-----------------------------------------------------------------------------
(* The runs *)

\* A run that has names has those of an id and a plugin.
NamesInv ==
    \A r \in DOMAIN names : \E id \in Ids, plugin \in Plugins : names[r] = NamesOf(id, plugin)

\* Naming a run leaves the names of the others (Handle).
LEMMA NamesAreMade == Spec => []NamesInv
<1>1. Init => NamesInv
  BY DEF Init, NamesInv
<1>2. NamesInv /\ [Next]_vars => NamesInv'
  <2> SUFFICES ASSUME NamesInv, [Next]_vars PROVE NamesInv'
    OBVIOUS
  <2>1. CASE UNCHANGED vars
    BY <2>1 DEF vars, NamesInv
  <2>2. ASSUME NEW r \in Runs, NEW id \in Ids, NEW plugin \in Plugins, Handle(r, id, plugin)
        PROVE  NamesInv'
    <3>1. /\ DOMAIN names' = DOMAIN names \cup {r}
          /\ names'[r] = NamesOf(id, plugin)
          /\ \A s \in DOMAIN names : names'[s] = names[s]
      BY <2>2 DEF Handle
    <3> QED BY <3>1 DEF NamesInv
  <2> QED BY <2>1, <2>2 DEF Next
<1> QED BY <1>1, <1>2, PTL DEF Spec

\* Kubernetes takes every name a run gets, and a namespace or a Job's name that
\* two runs share has the prefix of both: whatever the plugin is called and
\* however long that is (namespaceNameWithPlugin, seederJobName, smokeJobName,
\* integrationJobName).
THEOREM NamesAreOwn == Spec => []OwnNames
<1>1. NamesInv => OwnNames
  <2> SUFFICES ASSUME NamesInv PROVE OwnNames
    OBVIOUS
  <2>1. \A r \in DOMAIN names : \E id \in Ids, plugin \in Plugins :
           /\ names[r].prefix = RunIDPrefix(id)
           /\ names[r].namespace = NamespaceName(id, plugin)
           /\ \A j \in DOMAIN JobHeads : names[r].job[j] = JobName(j, id)
           /\ names[r].pluginLabel = DnsLabel(plugin)
    BY DEF NamesInv, NamesOf
  <2>2. ASSUME NEW r \in DOMAIN names
        PROVE  /\ Legal(names[r].namespace) /\ Legal(names[r].pluginLabel)
               /\ \A j \in DOMAIN JobHeads : Legal(names[r].job[j])
               /\ names[r].prefix \in Seq(Letters)
               /\ \E b : Front(b) /\ names[r].namespace = b \o names[r].prefix
               /\ \A j \in DOMAIN JobHeads :
                     \E b : Front(b) /\ names[r].job[j] = b \o names[r].prefix
    <3>1. PICK id \in Ids, plugin \in Plugins :
             /\ names[r].prefix = RunIDPrefix(id)
             /\ names[r].namespace = NamespaceName(id, plugin)
             /\ \A j \in DOMAIN JobHeads : names[r].job[j] = JobName(j, id)
             /\ names[r].pluginLabel = DnsLabel(plugin)
      BY <2>1
    <3>2. Legal(DnsLabel(plugin))
      BY NamesAssumption, LabelsAreLegal
    <3> QED BY <3>1, <3>2, PrefixOfLetters, NamespaceIsFrontAndPrefix, JobIsFrontAndPrefix
  <2>3. ASSUME NEW r \in DOMAIN names, NEW s \in DOMAIN names,
               \/ names[r].namespace = names[s].namespace
               \/ \E j, k \in DOMAIN JobHeads : names[r].job[j] = names[s].job[k]
        PROVE  names[r].prefix = names[s].prefix
    <3> DEFINE p == names[r].prefix
               q == names[s].prefix
    <3>1. p \in Seq(Letters) /\ q \in Seq(Letters)
      BY <2>2
    <3>2. CASE names[r].namespace = names[s].namespace
      <4>1. PICK b : Front(b) /\ names[r].namespace = b \o p
        BY <2>2
      <4>2. PICK c : Front(c) /\ names[s].namespace = c \o q
        BY <2>2
      <4> HIDE DEF p, q
      <4>3. b \o p = c \o q
        BY <3>2, <4>1, <4>2
      <4>4. p = q
        BY <3>1, <4>1, <4>2, <4>3, PrefixIsRead
      <4> QED BY <4>4 DEF p, q
    <3>3. CASE \E j, k \in DOMAIN JobHeads : names[r].job[j] = names[s].job[k]
      <4>1. PICK j \in DOMAIN JobHeads, k \in DOMAIN JobHeads :
               names[r].job[j] = names[s].job[k]
        BY <3>3
      <4>2. PICK b : Front(b) /\ names[r].job[j] = b \o p
        BY <2>2
      <4>3. PICK c : Front(c) /\ names[s].job[k] = c \o q
        BY <2>2
      <4> HIDE DEF p, q
      <4>4. b \o p = c \o q
        BY <4>1, <4>2, <4>3
      <4>5. p = q
        BY <3>1, <4>2, <4>3, <4>4, PrefixIsRead
      <4> QED BY <4>5 DEF p, q
    <3> QED BY <2>3, <3>2, <3>3
  <2> QED BY <2>2, <2>3 DEF OwnNames
<1> QED BY <1>1, NamesAreMade, PTL
=============================================================================

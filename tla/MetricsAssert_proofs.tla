------------------------ MODULE MetricsAssert_proofs ------------------------
(***************************************************************************)
(* Proofs about MetricMatch and MetricsAssert, for any number of family    *)
(* names, of metrics in a family and of places in the channel.  A family   *)
(* that is accepted has an actual metric for every expected one, and is    *)
(* refused only for its size, for a metric of the wrong type or because    *)
(* the first has no match: the searches of the others never reach          *)
(* maxIndex, as an index never leaves the list.  Metrics that are accepted *)
(* hold what is expected and nothing that is forbidden, and without a      *)
(* forbidden family they are refused for a reason only.                    *)
(***************************************************************************)
EXTENDS MetricsAssert, FiniteSetTheorems, TLAPS

-----------------------------------------------------------------------------
(* The metrics of one family.                                              *)

\* The sizes and indices, as numbers.
Numbers ==
  /\ expectedSize \in 0..MaxMetrics /\ actualSize \in 0..MaxMetrics
  /\ expectedIndex \in Nat /\ actualIndex \in Nat
  /\ chosen \in [Index -> Index]

\* While there is something to search for, both indices are within the lists.
Within ==
  expectedSize <= actualSize =>
    /\ expectedIndex <= expectedSize
    /\ expectedIndex < expectedSize => actualIndex <= actualSize

\* The expected metrics that are passed have the wanted type and a match.
Got ==
  expectedSize <= actualSize =>
    \A e \in Index : e < expectedIndex =>
      e \notin mistyped /\ chosen[e] < actualSize /\ <<e, chosen[e]>> \in match

\* The search for the first one has refused every metric it has passed.
FirstRefused ==
  expectedIndex = 0 /\ actualIndex > 0 =>
    err = TRUE /\ \A a \in 0..(actualIndex - 1) : <<0, a>> \notin match

\* The answer is given for a reason.
Answered ==
  /\ verdict = "nil" => expectedSize <= actualSize /\ expectedIndex = expectedSize
  /\ ErrMeansRefused

\* The inductive invariant.
MetricInv == Numbers /\ Within /\ Got /\ FirstRefused /\ Answered

\* At the start nothing has been passed.
LEMMA MetricInit == Init => MetricInv
<1>. SUFFICES ASSUME Init PROVE MetricInv
  OBVIOUS
<1>1. MaxMetrics \in Nat
  BY MetricAssumption DEF MetricAssumption
<1>2. chosen \in [Index -> Index]
  BY <1>1 DEF Init, Index
<1>3. Numbers /\ Within /\ FirstRefused /\ Answered
  BY <1>1, <1>2 DEF Init, Numbers, Within, FirstRefused, Answered, ErrMeansRefused
<1>4. Got
  BY <1>1 DEF Init, Got, Index
<1>. QED
  BY <1>3, <1>4 DEF MetricInv

\* A match moves on to the next expected metric.
LEMMA AcceptInv == ASSUME MetricInv, Accept, verdict = "none" PROVE MetricInv'
<1>. DEFINE w == Wrapped
<1>1. /\ MaxMetrics \in Nat /\ Numbers /\ Within /\ Got
      /\ UNCHANGED <<match, mistyped, expectedSize, actualSize, verdict>>
      /\ expectedSize <= actualSize /\ expectedIndex < expectedSize
      /\ expectedIndex \notin mistyped /\ <<expectedIndex, w>> \in match
      /\ chosen' = [chosen EXCEPT ![expectedIndex] = w]
      /\ expectedIndex' = expectedIndex + 1 /\ actualIndex' = expectedIndex + 1
  BY MetricAssumption DEF MetricAssumption, MetricInv, Accept, Comparing, Searching, lists
<1>2. w \in Nat /\ w < actualSize
  BY <1>1 DEF Numbers, Within, Wrapped
<1>. HIDE DEF w
<1>3. w \in Index /\ expectedIndex \in Index
  BY <1>1, <1>2 DEF Numbers, Index
<1>4. chosen' \in [Index -> Index]
  BY <1>1, <1>3 DEF Numbers
<1>5. chosen'[expectedIndex] = w
      /\ \A e \in Index : e # expectedIndex => chosen'[e] = chosen[e]
  BY <1>1, <1>3 DEF Numbers
<1>6. Numbers' /\ Within' /\ FirstRefused'
  BY <1>1, <1>4 DEF Numbers, Within, FirstRefused
<1>7. Got'
  <2>. SUFFICES ASSUME NEW e \in Index, e < expectedIndex + 1
                PROVE  /\ e \notin mistyped /\ chosen'[e] < actualSize
                       /\ <<e, chosen'[e]>> \in match
    BY <1>1 DEF Got
  <2>1. CASE e = expectedIndex
    BY <1>1, <1>2, <1>5, <2>1
  <2>2. CASE e # expectedIndex
    <3>1. e < expectedIndex
      BY <1>1, <1>3, <2>2 DEF Numbers, Index
    <3>. QED
      BY <1>1, <1>5, <2>2, <3>1 DEF Got
  <2>. QED
    BY <2>1, <2>2
<1>8. Answered'
  BY <1>1 DEF MetricInv, Answered, ErrMeansRefused
<1>. QED
  BY <1>6, <1>7, <1>8 DEF MetricInv

\* A refusal moves on to the next actual metric, from where it has wrapped to.
LEMMA RefuseInv == ASSUME MetricInv, Refuse, verdict = "none" PROVE MetricInv'
<1>. DEFINE w == Wrapped
<1>1. /\ MaxMetrics \in Nat /\ Numbers /\ Within /\ Got /\ FirstRefused
      /\ UNCHANGED <<match, mistyped, expectedSize, actualSize, verdict, expectedIndex,
                     chosen>>
      /\ expectedSize <= actualSize /\ expectedIndex < expectedSize
      /\ actualIndex < maxIndex /\ <<expectedIndex, w>> \notin match
      /\ actualIndex' = w + 1 /\ err' = TRUE
  BY MetricAssumption DEF MetricAssumption, MetricInv, Refuse, Comparing, Searching, lists
<1>2. w \in Nat /\ w < actualSize
  BY <1>1 DEF Numbers, Within, Wrapped
<1>3. expectedIndex = 0 => w = actualIndex
  BY <1>1 DEF Numbers, Wrapped, maxIndex
<1>. HIDE DEF w
<1>4. Numbers' /\ Within' /\ Got'
  BY <1>1, <1>2 DEF Numbers, Within, Got
<1>5. FirstRefused'
  <2>. SUFFICES ASSUME expectedIndex = 0, NEW a \in 0..w PROVE <<0, a>> \notin match
    BY <1>1, <1>2 DEF FirstRefused
  <2>1. a = w \/ (a \in 0..(actualIndex - 1) /\ actualIndex > 0)
    BY <1>1, <1>2, <1>3 DEF Numbers
  <2>. QED
    BY <1>1, <2>1 DEF FirstRefused
<1>6. Answered'
  BY <1>1 DEF MetricInv, Answered, ErrMeansRefused
<1>. QED
  BY <1>4, <1>5, <1>6 DEF MetricInv

\* What precedes the metric that has come up has had its matches.
LEMMA EarlierMatched ==
  ASSUME MetricInv, expectedSize <= actualSize, expectedIndex < expectedSize
  PROVE  /\ expectedIndex \in ExpectedIndex
         /\ \A e \in 0..(expectedIndex - 1) : e \notin mistyped /\ HasMatch(e)
<1>1. /\ Numbers /\ Got /\ MaxMetrics \in Nat
  BY MetricAssumption DEF MetricAssumption, MetricInv
<1>2. expectedIndex \in ExpectedIndex
  BY <1>1 DEF Numbers, ExpectedIndex
<1>3. ASSUME NEW e \in 0..(expectedIndex - 1) PROVE e \notin mistyped /\ HasMatch(e)
  <2>1. e \in Index /\ e < expectedIndex
    BY <1>1, <1>3 DEF Numbers, Index
  <2>2. e \notin mistyped /\ chosen[e] < actualSize /\ <<e, chosen[e]>> \in match
    BY <1>1, <2>1 DEF Got
  <2>3. chosen[e] \in ActualIndex
    BY <1>1, <2>1, <2>2 DEF Numbers, Index, ActualIndex
  <2>. QED
    BY <2>2, <2>3 DEF HasMatch
<1>. QED
  BY <1>2, <1>3

\* A metric of another type is refused whichever it is.
LEMMA TypeErrorInv == ASSUME MetricInv, TypeError, verdict = "none" PROVE MetricInv'
<1>1. /\ UNCHANGED <<match, mistyped, expectedSize, actualSize, expectedIndex, actualIndex,
                     err, chosen>>
      /\ expectedSize <= actualSize /\ expectedIndex < expectedSize
      /\ expectedIndex \in mistyped /\ verdict' = "err"
  BY DEF TypeError, Searching, lists
<1>2. ErrMeansRefused'
  BY <1>1, EarlierMatched DEF ErrMeansRefused, ExpectedIndex, HasMatch, ActualIndex
<1>3. Answered'
  BY <1>1, <1>2 DEF Answered
<1>. QED
  BY <1>1, <1>3 DEF MetricInv, Numbers, Within, Got, FirstRefused

\* Only the first search can come to maxIndex, and then nothing matches.
LEMMA ExhaustedInv == ASSUME MetricInv, Exhausted, verdict = "none" PROVE MetricInv'
<1>1. /\ Numbers /\ Within /\ FirstRefused
      /\ UNCHANGED <<match, mistyped, expectedSize, actualSize, expectedIndex, actualIndex,
                     err, chosen>>
      /\ expectedSize <= actualSize /\ expectedIndex < expectedSize
      /\ actualIndex >= actualSize + expectedIndex
      /\ verdict' = IF err THEN "err" ELSE "nil"
  BY DEF MetricInv, Exhausted, lists, maxIndex
<1>2. expectedIndex = 0 /\ actualIndex = actualSize /\ actualIndex > 0
  BY <1>1 DEF Numbers, Within
<1>3. err = TRUE /\ ~HasMatch(0)
  BY <1>1, <1>2 DEF FirstRefused, HasMatch, ActualIndex
<1>4. ErrMeansRefused'
  BY <1>1, <1>2, <1>3, EarlierMatched DEF ErrMeansRefused, ExpectedIndex, HasMatch, ActualIndex
<1>5. Answered'
  BY <1>1, <1>3, <1>4 DEF Answered
<1>. QED
  BY <1>1, <1>5 DEF MetricInv, Numbers, Within, Got, FirstRefused

\* The answer after the last search.
LEMMA AnswerInv == ASSUME MetricInv, Answer, verdict = "none" PROVE MetricInv'
<1>1. /\ Numbers /\ Within
      /\ UNCHANGED <<match, mistyped, expectedSize, actualSize, expectedIndex, actualIndex,
                     err, chosen>>
      /\ expectedSize > actualSize \/ expectedIndex = expectedSize
      /\ verdict' = IF expectedSize > actualSize THEN "err" ELSE "nil"
  BY DEF MetricInv, Answer, lists
<1>2. Answered'
  BY <1>1 DEF Numbers, Answered, ErrMeansRefused
<1>. QED
  BY <1>1, <1>2 DEF MetricInv, Numbers, Within, Got, FirstRefused

\* Every step of a comparison preserves the invariant.
LEMMA NextInv == ASSUME MetricInv, Next PROVE MetricInv'
BY AcceptInv, RefuseInv, TypeErrorInv, ExhaustedInv, AnswerInv DEF Next

\* So does a step that leaves it alone.
LEMMA StutterInv == ASSUME MetricInv, UNCHANGED vars PROVE MetricInv'
BY DEF MetricInv, Numbers, Within, Got, FirstRefused, Answered,
       ErrMeansRefused, ExpectedIndex, HasMatch, ActualIndex, vars, lists

\* A comparison that begins later begins like the first.
LEMMA BeginInv ==
  ASSUME NEW e \in 0..MaxMetrics, NEW a \in 0..MaxMetrics, NEW m, NEW t,
         Begin(e, a, m, t)
  PROVE  MetricInv' /\ TypeOK'
<1>1. MaxMetrics \in Nat
  BY MetricAssumption DEF MetricAssumption
<1>2. chosen' \in [Index -> Index]
  BY <1>1 DEF Begin, Index
<1>3. Numbers' /\ Within' /\ FirstRefused' /\ Answered'
  BY <1>1, <1>2 DEF Begin, Numbers, Within, FirstRefused, Answered, ErrMeansRefused
<1>4. Got'
  BY <1>1 DEF Begin, Got, Index
<1>5. err' \in BOOLEAN
  BY Zenon DEF Begin
<1>6. TypeOK'
  BY <1>1, <1>2, <1>5 DEF Begin, TypeOK
<1>. QED
  BY <1>3, <1>4, <1>6 DEF MetricInv

\* The indices stay in their lists.
LEMMA TypeStep == ASSUME MetricInv, TypeOK, Next PROVE TypeOK'
<1>1. MaxMetrics \in Nat /\ Numbers /\ Within /\ MetricInv'
  BY NextInv, MetricAssumption DEF MetricAssumption, MetricInv
<1>2. chosen' \in [Index -> Index]
  BY <1>1 DEF MetricInv, Numbers
<1>3. CASE Accept
  <2>1. err' \in BOOLEAN
    BY <1>3, Zenon DEF Accept
  <2>2. expectedIndex + 1 \in 0..MaxMetrics /\ expectedIndex + 1 <= actualSize
    BY <1>1, <1>3 DEF Accept, Comparing, Searching, Numbers
  <2>. QED
    BY <1>1, <1>2, <1>3, <2>1, <2>2 DEF Accept, TypeOK, Numbers, lists
<1>4. CASE Refuse
  <2>1. Wrapped + 1 \in 0..MaxMetrics /\ Wrapped + 1 <= actualSize
    BY <1>1, <1>4 DEF Refuse, Comparing, Searching, Numbers, Within, Wrapped
  <2>2. err' \in BOOLEAN
    BY <1>4, Zenon DEF Refuse
  <2>. QED
    BY <1>1, <1>2, <1>4, <2>1, <2>2 DEF Refuse, TypeOK, Numbers, lists
<1>5. CASE TypeError \/ Exhausted \/ Answer
  BY <1>1, <1>2, <1>5 DEF TypeError, Exhausted, Answer, TypeOK, Numbers, lists
<1>. QED
  BY <1>3, <1>4, <1>5 DEF Next

\* A family that is accepted has its matches.
LEMMA MatchedFromInv == MetricInv => OkMeansMatched
<1>. SUFFICES ASSUME MetricInv, verdict = "nil", NEW e \in ExpectedIndex
              PROVE  /\ e \notin mistyped /\ chosen[e] \in ActualIndex
                     /\ <<e, chosen[e]>> \in match
  BY DEF OkMeansMatched
<1>1. e \in Index /\ e < expectedIndex /\ expectedSize <= actualSize
  BY MetricAssumption
     DEF MetricAssumption, MetricInv, Numbers, Answered, ExpectedIndex, Index
<1>2. /\ e \notin mistyped /\ chosen[e] \in Index /\ chosen[e] < actualSize
      /\ <<e, chosen[e]>> \in match
  BY <1>1 DEF MetricInv, Numbers, Got
<1>. QED
  BY <1>2, MetricAssumption
     DEF MetricAssumption, MetricInv, Numbers, ActualIndex, Index

\* The invariant holds in every reachable state.
LEMMA MetricInvHolds == Spec => []MetricInv
<1>1. MetricInv /\ [Next]_vars => MetricInv'
  BY NextInv, StutterInv
<1>. QED
  BY <1>1, MetricInit, PTL DEF Spec

\* doAssertFunc accepts a family only with an actual metric for every
\* expected one, however often its searches wrap around.
THEOREM AcceptedIsMatched == Spec => []OkMeansMatched
<1>1. MetricInv => OkMeansMatched
  BY MatchedFromInv
<1>. QED
  BY <1>1, MetricInvHolds, PTL

\* doAssertFunc refuses a family only for its size, for the metric it has come
\* to having the wrong type, or because the first has no match: no search for
\* another one ever returns without a match.
THEOREM RefusedForAReason == Spec => []ErrMeansRefused
<1>1. MetricInv => ErrMeansRefused
  BY DEF MetricInv, Answered
<1>. QED
  BY <1>1, MetricInvHolds, PTL

\* The answer of doAssertFunc is right in both directions: the metrics of an
\* accepted family have the wanted type and a match; a refused one is too
\* small, or the metric it has come to has the wrong type, or it is the first
\* and has no match, those before it having theirs.
THEOREM AnswersAreRight == Spec => []AnswerIsRight
BY AcceptedIsMatched, RefusedForAReason, PTL DEF AnswerIsRight

-----------------------------------------------------------------------------
(* Sorting: the members of a finite set of names, each once and in order.  *)

Below(S, n) == Cardinality({m \in S : m < n})

\* Fewer members are below a smaller one.
LEMMA BelowGrows ==
  ASSUME NEW S \in SUBSET Nat, IsFiniteSet(S)
  PROVE  \A m, n \in S :
           /\ Below(S, n) \in 0..(Cardinality(S) - 1)
           /\ m < n <=> Below(S, m) < Below(S, n)
<1>1. ASSUME NEW n \in S PROVE Below(S, n) \in 0..(Cardinality(S) - 1)
  <2>. DEFINE B == {x \in S : x < n}
  <2>1. B \in SUBSET S /\ n \notin B
    BY <1>1
  <2>2. /\ IsFiniteSet(B) /\ Cardinality(B) <= Cardinality(S)
        /\ Cardinality(S) = Cardinality(B) => S = B
    BY <2>1, FS_Subset
  <2>3. Cardinality(B) \in Nat /\ Cardinality(S) \in Nat
    BY <2>2, FS_CardinalityType
  <2>4. Cardinality(B) # Cardinality(S)
    BY <1>1, <2>1, <2>2
  <2>. HIDE DEF B
  <2>5. Cardinality(B) \in 0..(Cardinality(S) - 1)
    BY <2>2, <2>3, <2>4
  <2>. QED
    BY <2>5 DEF Below, B
<1>2. ASSUME NEW m \in S, NEW n \in S, m < n PROVE Below(S, m) < Below(S, n)
  <2>. DEFINE A == {x \in S : x < m}
              B == {x \in S : x < n}
  <2>0. m \in Nat /\ n \in Nat /\ \A x \in S : x < m => x < n
    <3>1. \A x \in Nat : \A y, z \in Nat : x < y /\ y < z => x < z
      OBVIOUS
    <3>. QED
      BY <1>2, <3>1
  <2>1. B \in SUBSET S /\ A \in SUBSET B /\ m \in B /\ m \notin A
    <3>1. B \in SUBSET S /\ m \in B
      BY <1>2
    <3>2. m \notin A
      BY <2>0
    <3>3. A \in SUBSET B
      BY <2>0
    <3>. QED
      BY <3>1, <3>2, <3>3
  <2>2. IsFiniteSet(B)
    BY <2>1, FS_Subset
  <2>3. /\ IsFiniteSet(A) /\ Cardinality(A) <= Cardinality(B)
        /\ Cardinality(B) = Cardinality(A) => B = A
    BY <2>1, <2>2, FS_Subset
  <2>4. Cardinality(A) \in Nat /\ Cardinality(B) \in Nat
    BY <2>2, <2>3, FS_CardinalityType
  <2>5. Cardinality(A) # Cardinality(B)
    BY <2>1, <2>3
  <2>. HIDE DEF A, B
  <2>6. Cardinality(A) < Cardinality(B)
    BY <2>3, <2>4, <2>5
  <2>. QED
    BY <2>6 DEF Below, A, B
<1>. QED
  <2>. SUFFICES ASSUME NEW m \in S, NEW n \in S, Below(S, m) < Below(S, n)
                PROVE  m < n
    BY <1>1, <1>2
  <2>1. m < n \/ m = n \/ n < m
    OBVIOUS
  <2>2. m # n
    BY <1>1
  <2>3. ~(n < m)
    <3>. SUFFICES ASSUME n < m PROVE FALSE
      OBVIOUS
    <3>1. Below(S, n) < Below(S, m)
      BY <1>2
    <3>. QED
      BY <1>1, <3>1
  <2>. QED
    BY <2>1, <2>2, <2>3

\* A finite set of numbers is sorted into a sequence of its members, each of
\* which is there, in strict order.
LEMMA SortedIs ==
  ASSUME NEW S \in SUBSET Nat, IsFiniteSet(S)
  PROVE  /\ Cardinality(S) \in Nat
         /\ Sorted(S) \in Seq(S) /\ Len(Sorted(S)) = Cardinality(S)
         /\ \A i \in 1..Cardinality(S) : Sorted(S)[i] \in S
         /\ \A n \in S : \E i \in 1..Cardinality(S) : Sorted(S)[i] = n
         /\ \A i, j \in 1..Cardinality(S) : i < j => Sorted(S)[i] < Sorted(S)[j]
<1>. DEFINE c == Cardinality(S)
            r == [n \in S |-> Below(S, n)]
<1>1. c \in Nat
  BY FS_CardinalityType
<1>2. r \in [S -> 0..(c - 1)]
  BY BelowGrows
<1>3. \A m, n \in S : r[m] = r[n] => m = n
  <2>. SUFFICES ASSUME NEW m \in S, NEW n \in S, r[m] = r[n] PROVE m = n
    OBVIOUS
  <2>1. ~(m < n) /\ ~(n < m)
    BY BelowGrows, <1>1
  <2>. QED
    BY <2>1
<1>4. r \in Injection(S, 0..(c - 1))
  BY <1>2, <1>3 DEF Injection, IsInjective
<1>5. IsFiniteSet(0..(c - 1)) /\ Cardinality(0..(c - 1)) = c
  <2>1. 0 \in Int /\ c - 1 \in Int
    BY <1>1
  <2>2. IsFiniteSet(0..(c - 1))
        /\ Cardinality(0..(c - 1)) = IF 0 > c - 1 THEN 0 ELSE (c - 1) - 0 + 1
    BY <2>1, FS_Interval
  <2>. HIDE DEF c
  <2>. QED
    BY <1>1, <2>2
<1>6. r \in Surjection(S, 0..(c - 1))
  BY <1>4, <1>5, FS_Injection
<1>7. \A k \in 0..(c - 1) : \E n \in S : r[n] = k
  BY <1>6 DEF Surjection
<1>8. \A i \in 1..c : Sorted(S)[i] \in S /\ Below(S, Sorted(S)[i]) = i - 1
  <2>. SUFFICES ASSUME NEW i \in 1..c
                PROVE  Sorted(S)[i] \in S /\ Below(S, Sorted(S)[i]) = i - 1
    OBVIOUS
  <2>1. \E n \in S : Below(S, n) = i - 1
    BY <1>1, <1>7
  <2>2. Sorted(S)[i] = CHOOSE n \in S : Below(S, n) = i - 1
    BY DEF Sorted, Below
  <2>. HIDE DEF c
  <2>. QED
    BY <2>1, <2>2
<1>9. Sorted(S) = [i \in 1..c |-> Sorted(S)[i]]
  <2>. DEFINE F(i) == CHOOSE n \in S : Cardinality({m \in S : m < n}) = i - 1
              s == [i \in 1..c |-> F(i)]
  <2>1. Sorted(S) = s
    BY DEF Sorted
  <2>. HIDE DEF F
  <2>2. s = [i \in 1..c |-> s[i]]
    OBVIOUS
  <2>. QED
    BY <2>1, <2>2
<1>. HIDE DEF c, r
<1>10. Sorted(S) \in [1..c -> S]
  BY <1>8, <1>9
<1>11. Sorted(S) \in Seq(S) /\ Len(Sorted(S)) = c
  BY <1>1, <1>10
<1>12. \A n \in S : \E i \in 1..c : Sorted(S)[i] = n
  <2>. SUFFICES ASSUME NEW n \in S PROVE \E i \in 1..c : Sorted(S)[i] = n
    OBVIOUS
  <2>1. Below(S, n) \in 0..(c - 1)
    BY BelowGrows DEF c
  <2>. DEFINE i == Below(S, n) + 1
  <2>2. i \in 1..c /\ i - 1 = Below(S, n)
    BY <1>1, <2>1
  <2>3. Sorted(S)[i] \in S /\ Below(S, Sorted(S)[i]) = Below(S, n)
    BY <1>8, <2>2
  <2>4. Sorted(S)[i] = n
    BY <1>3, <2>3 DEF r
  <2>. QED
    BY <2>2, <2>4
<1>13. \A i, j \in 1..c : i < j => Sorted(S)[i] < Sorted(S)[j]
  <2>. SUFFICES ASSUME NEW i \in 1..c, NEW j \in 1..c, i < j
                PROVE  Sorted(S)[i] < Sorted(S)[j]
    OBVIOUS
  <2>1. i - 1 < j - 1
    OBVIOUS
  <2>. QED
    BY <1>8, <2>1, BelowGrows
<1>. QED
  BY <1>1, <1>8, <1>11, <1>12, <1>13 DEF c

\* The names of the families are sorted as they have to be.
LEMMA NamesAreSorted ==
  ASSUME NEW S \in SUBSET Name
  PROVE  /\ IsFiniteSet(S) /\ S \in SUBSET Nat /\ Cardinality(S) \in Nat
         /\ Sorted(S) \in Seq(S) /\ Len(Sorted(S)) = Cardinality(S)
         /\ \A i \in 1..Cardinality(S) : Sorted(S)[i] \in S
         /\ \A n \in S : \E i \in 1..Cardinality(S) : Sorted(S)[i] = n
         /\ \A i, j \in 1..Cardinality(S) : i < j => Sorted(S)[i] < Sorted(S)[j]
<1>1. NumNames \in Nat /\ IsFiniteSet(Name)
  <2>1. 1 \in Int /\ NumNames \in Int
    BY MetricsAssumption DEF MetricsAssumption
  <2>. QED
    BY <2>1, FS_Interval, MetricsAssumption DEF MetricsAssumption, Name
<1>2. IsFiniteSet(S)
  BY <1>1, FS_Subset
<1>3. S \in SUBSET Nat
  BY <1>1 DEF Name
<1>. QED
  BY <1>2, <1>3, SortedIs

-----------------------------------------------------------------------------
(* The inductive invariant.                                                *)

\* The name the k-th check looks for is no regexp or is found in an actual one.
Hit(k) == Expected[k] \in broken \/ \E a \in actual : <<Expected[k], a>> \in hits

DoneChecks == {k \in Check : check[k] = "done"}

\* What is expected, what is there and the room for it do not change; a name
\* is found in itself.
DataInv ==
  /\ plain \in SUBSET Name /\ marked \in SUBSET Name
  /\ actual \in SUBSET Name /\ typed \in SUBSET actual
  /\ \A n \in plain : <<n, n>> \in hits
  /\ capacity \in Nat

\* While the results are polled each check that is done has left its own, an
\* error among those in the channel ...
PollInv ==
  main = "poll" =>
    /\ Cardinality(DoneChecks) = Len(errChan) + successes
    /\ \A k \in DoneChecks : Hit(k) => \E i \in 1..Len(errChan) : errChan[i] = TRUE

\* ... and past the poll there was none.
ChecksInv ==
  /\ check \in [Check -> {"none", "start", "check", "done"}]
  /\ errChan \in Seq(BOOLEAN) /\ successes \in Nat
  /\ main \in {"fetch", "spawn"} =>
       errChan = <<>> /\ successes = 0 /\ \A k \in Check : check[k] = "none"
  /\ main \in {"fetch", "spawn", "poll"} => stop = FALSE
  /\ main \in {"poll", "join"} => marked # {}
  /\ PollInv
  /\ main \in {"merge", "family"} \/ outcome = "nil" =>
       \A k \in Check : check[k] = "done" /\ ~Hit(k)
  /\ main = "done" => \A k \in Check : check[k] \in {"none", "done"}

\* The expected families before ei have passed, the actual ones before ai are
\* too small to be the one that is looked for.
MergeInv ==
  /\ ei \in 1..(Cardinality(plain) + 1) /\ ai \in 1..(Cardinality(actual) + 1)
  /\ passed \in SUBSET plain
  /\ main = "family" =>
       /\ ei <= Cardinality(plain) /\ ai <= Cardinality(actual)
       /\ Have[ai] = Want[ei] /\ Want[ei] \in typed
  /\ \A i \in 1..Cardinality(plain) : i < ei => Want[i] \in passed \cap typed
  /\ ei <= Cardinality(plain) /\ Want[ei] \in typed =>
       \A j \in 1..Cardinality(actual) : j < ai => Have[j] < Want[ei]

\* What is answered has its reason.
ResultInv ==
  /\ main \in {"fetch", "spawn", "poll", "join", "merge", "family", "done", "dead"}
  /\ fetched \in 0..capacity
  /\ outcome # "none" <=> main = "done"
  /\ outcome = "nil" => ei = Cardinality(plain) + 1
  /\ UnmarkedIsRight

SearchInv == MetricInv /\ TypeOK

MetricsInv == DataInv /\ ChecksInv /\ MergeInv /\ ResultInv /\ SearchInv

\* At the start.
LEMMA MetricsInitInv == MetricsInit => MetricsInv
<1>. SUFFICES ASSUME MetricsInit PROVE MetricsInv
  OBVIOUS
<1>1. DataInv
  BY MetricsAssumption DEF MetricsAssumption, MetricsInit, DataInv
<1>2. Cardinality(plain) \in Nat /\ Cardinality(actual) \in Nat /\ Cardinality(marked) \in Nat
  BY <1>1, NamesAreSorted DEF DataInv
<1>3. ChecksInv
  BY <1>1, <1>2 DEF MetricsInit, ChecksInv, PollInv, Check
<1>4. MergeInv
  BY <1>1, <1>2 DEF MetricsInit, MergeInv
<1>5. ResultInv
  BY <1>1 DEF DataInv, MetricsInit, ResultInv, UnmarkedIsRight
<1>6. TypeOK
  <2>1. MaxMetrics \in Nat /\ Init /\ expectedSize = 0 /\ actualSize = 0
    BY MetricAssumption DEF MetricAssumption, MetricsInit, Empty
  <2>2. err \in BOOLEAN
    BY <2>1, Zenon DEF Init
  <2>3. chosen \in [Index -> Index]
    BY <2>1 DEF Init, Index
  <2>. QED
    BY <2>1, <2>2, <2>3 DEF Init, TypeOK
<1>7. MetricInv
  BY MetricInit DEF MetricsInit, Empty
<1>. QED
  BY <1>1, <1>3, <1>4, <1>5, <1>6, <1>7 DEF MetricsInv, SearchInv

-----------------------------------------------------------------------------
(* The results of the checks.                                              *)

\* The data do not change, nor what follows from them.
LEMMA DataStep ==
  ASSUME MetricsInv, [MetricsNext]_metricsVars
  PROVE  /\ UNCHANGED data /\ DataInv' /\ Check' = Check /\ Expected' = Expected
         /\ Want' = Want /\ Have' = Have /\ \A k \in Check : Hit(k)' <=> Hit(k)
<1>1. UNCHANGED data
  BY DEF MetricsNext, Caller, Send, Fetched, Spawn, StartCheck, DoCheck, Receive,
         Enough, Join, Merge, Compare, Compared, Merged, metricsVars
<1>2. /\ plain' = plain /\ marked' = marked /\ cut' = cut
      /\ actual' = actual /\ hits' = hits /\ typed' = typed
      /\ broken' = broken /\ capacity' = capacity
  BY <1>1 DEF data
<1>3. DataInv'
  BY <1>2 DEF MetricsInv, DataInv
<1>4. Check' = Check /\ Expected' = Expected /\ Want' = Want /\ Have' = Have
  BY <1>2 DEF Check, Expected, Want, Have
<1>. QED
  BY <1>1, <1>2, <1>3, <1>4 DEF Hit

\* There are finitely many checks, as many as families with the mark.
LEMMA ChecksAreFinite ==
  ASSUME DataInv
  PROVE  /\ IsFiniteSet(Check) /\ Cardinality(marked) \in Nat
         /\ Cardinality(Check) = Cardinality(marked)
<1>1. Cardinality(marked) \in Nat
  BY NamesAreSorted DEF DataInv
<1>. DEFINE c == Cardinality(marked)
<1>2. c \in Nat
  BY <1>1
<1>. HIDE DEF c
<1>3. 1 \in Int /\ c \in Int
  BY <1>2
<1>4. IsFiniteSet(1..c) /\ Cardinality(1..c) = IF 1 > c THEN 0 ELSE c - 1 + 1
  BY <1>3, FS_Interval
<1>5. IsFiniteSet(1..c) /\ Cardinality(1..c) = c
  BY <1>2, <1>4
<1>. QED
  BY <1>2, <1>5 DEF Check, c

\* The checks begin: none is done, nothing is in the channel.
LEMMA SpawnChecks == ASSUME MetricsInv, Spawn PROVE ChecksInv'
<1>1. ChecksInv /\ main = "spawn" /\ IsFiniteSet(Check) /\ Cardinality(marked) \in Nat
  BY ChecksAreFinite DEF MetricsInv, Spawn
<1>2. /\ Check' = Check /\ check' = [k \in Check |-> "start"] /\ marked' = marked
      /\ UNCHANGED <<errChan, stop, successes, outcome>>
      /\ main' = IF marked = {} THEN "merge" ELSE "poll"
  BY DEF Spawn, data, Check
<1>3. DoneChecks' = {}
  BY <1>2 DEF DoneChecks
<1>4. Cardinality(DoneChecks') = 0
  BY <1>3, FS_EmptySet
<1>5. errChan = <<>> /\ successes = 0 /\ stop = FALSE
  BY <1>1 DEF ChecksInv
<1>6. ASSUME main' = "merge" PROVE Check = {}
  <2>1. marked = {}
    BY <1>2, <1>6
  <2>2. Cardinality(marked) = 0
    BY <2>1, FS_EmptySet
  <2>. QED
    BY <2>2 DEF Check
<1>7. outcome = "none"
  BY <1>1 DEF MetricsInv, ResultInv
<1>. QED
  BY <1>1, <1>2, <1>3, <1>4, <1>5, <1>6, <1>7 DEF ChecksInv, PollInv

\* While the caller polls nobody is told to stop, so a check that starts looks
\* for its pattern.
LEMMA StartKeepsChecks ==
  ASSUME MetricsInv, NEW k \in Check, StartCheck(k) PROVE ChecksInv'
<1>1. /\ ChecksInv /\ check[k] = "start"
      /\ check' = [check EXCEPT ![k] = IF stop THEN "done" ELSE "check"]
      /\ UNCHANGED <<main, errChan, stop, successes, outcome, marked>> /\ Check' = Check
  BY DEF MetricsInv, StartCheck, data, Check
<1>2. \A l \in Check : Hit(l)' <=> Hit(l)
  BY DataStep DEF MetricsNext
<1>3. check' \in [Check -> {"none", "start", "check", "done"}]
  BY <1>1 DEF ChecksInv
<1>4. main \notin {"merge", "family", "done", "fetch", "spawn"} /\ outcome # "nil"
  BY <1>1 DEF ChecksInv, MetricsInv, ResultInv
<1>5. PollInv'
  <2>. SUFFICES ASSUME main = "poll" PROVE PollInv'
    BY <1>1 DEF PollInv
  <2>1. DoneChecks' = DoneChecks
    BY <1>1 DEF ChecksInv, DoneChecks
  <2>2. \A l \in DoneChecks : Hit(l)' <=> Hit(l)
    BY <1>2 DEF DoneChecks
  <2>. QED
    BY <1>1, <2>1, <2>2 DEF ChecksInv, PollInv
<1>. QED
  BY <1>1, <1>3, <1>4, <1>5 DEF ChecksInv

\* A panic of a check ends the process, and nothing is known of the checks.
LEMMA PanicKeepsChecks ==
  ASSUME MetricsInv, NEW k \in Check, DoCheck(k), Expected[k] \in broken
  PROVE  ChecksInv'
<1>1. /\ ChecksInv /\ main' = "dead" /\ outcome # "nil"
      /\ UNCHANGED <<check, errChan, stop, successes, outcome, marked>> /\ Check' = Check
  BY DEF MetricsInv, ChecksInv, ResultInv, DoCheck, data, Check
<1>. QED
  BY <1>1 DEF ChecksInv, PollInv

\* A check that is done has one more result in the channel, an error if its
\* pattern is found.
LEMMA DoKeepsChecks ==
  ASSUME MetricsInv, NEW k \in Check, DoCheck(k), Expected[k] \notin broken
  PROVE  ChecksInv'
<1>. DEFINE h == \E a \in actual : <<Expected[k], a>> \in hits
<1>1. /\ ChecksInv /\ check[k] = "check"
      /\ check' = [check EXCEPT ![k] = "done"] /\ errChan' = Append(errChan, h)
      /\ UNCHANGED <<main, stop, successes, outcome, marked>> /\ Check' = Check
  BY DEF MetricsInv, DoCheck, data, Check
<1>2. \A l \in Check : Hit(l)' <=> Hit(l)
  BY DataStep DEF MetricsNext
<1>3. check' \in [Check -> {"none", "start", "check", "done"}]
  BY <1>1 DEF ChecksInv
<1>4. main \notin {"merge", "family", "done", "fetch", "spawn"} /\ outcome # "nil"
  BY <1>1 DEF ChecksInv, MetricsInv, ResultInv
<1>5. h \in BOOLEAN /\ (Hit(k) => h = TRUE)
  BY Zenon DEF Hit
<1>6. h \in BOOLEAN /\ errChan \in Seq(BOOLEAN) /\ errChan' = Append(errChan, h)
  BY <1>1, <1>5 DEF ChecksInv
<1>7. DoneChecks' = DoneChecks \cup {k} /\ k \notin DoneChecks
  BY <1>1 DEF ChecksInv, DoneChecks
<1>8. IsFiniteSet(DoneChecks) /\ Cardinality(DoneChecks) \in Nat
  <2>1. IsFiniteSet(Check) /\ DoneChecks \in SUBSET Check
    BY ChecksAreFinite DEF MetricsInv, DoneChecks
  <2>2. IsFiniteSet(DoneChecks)
    BY <2>1, FS_Subset
  <2>. QED
    BY <2>2, FS_CardinalityType
<1>9. Cardinality(DoneChecks') = Cardinality(DoneChecks) + 1
  BY <1>7, <1>8, FS_AddElement
<1>. HIDE DEF h
<1>10. /\ errChan' \in Seq(BOOLEAN) /\ Len(errChan') = Len(errChan) + 1
       /\ errChan'[Len(errChan) + 1] = h /\ Len(errChan) \in Nat
       /\ \A i \in 1..Len(errChan) : errChan'[i] = errChan[i]
  BY <1>6
<1>11. Hit(k) => h = TRUE
  BY <1>5
<1>12. ASSUME main = "poll", NEW l \in DoneChecks', Hit(l)
       PROVE  \E i \in 1..Len(errChan') : errChan'[i] = TRUE
  <2>1. CASE l = k
    <3>1. Len(errChan) + 1 \in 1..Len(errChan')
      BY <1>10
    <3>2. h = TRUE
      BY <1>11, <1>12, <2>1
    <3>. QED
      BY <1>10, <3>1, <3>2
  <2>2. CASE l \in DoneChecks
    <3>1. PICK i \in 1..Len(errChan) : errChan[i] = TRUE
      BY <1>1, <1>12, <2>2 DEF ChecksInv, PollInv
    <3>2. i \in 1..Len(errChan') /\ errChan'[i] = errChan[i]
      BY <1>10
    <3>. QED
      BY <3>1, <3>2
  <2>. QED
    BY <1>7, <1>12, <2>1, <2>2
<1>13. \A l \in DoneChecks' : l \in Check
  BY <1>1 DEF DoneChecks
<1>14. \A l \in DoneChecks' : Hit(l)' <=> Hit(l)
  BY <1>2, <1>13
<1>15. PollInv'
  <2>. SUFFICES ASSUME main = "poll" PROVE PollInv'
    BY <1>1 DEF PollInv
  <2>1. Cardinality(DoneChecks) = Len(errChan) + successes /\ successes \in Nat
    BY <1>1 DEF ChecksInv, PollInv
  <2>2. Cardinality(DoneChecks') = Len(errChan') + successes
    BY <1>8, <1>9, <1>10, <2>1
  <2>3. \A l \in DoneChecks' : Hit(l)' => \E i \in 1..Len(errChan') : errChan'[i] = TRUE
    BY <1>12, <1>14
  <2>. QED
    BY <1>1, <2>2, <2>3 DEF PollInv
<1>. QED
  BY <1>1, <1>3, <1>4, <1>10, <1>15 DEF ChecksInv

\* What is left of a channel when its first result is taken.
LEMMA TailIs ==
  ASSUME NEW S, NEW s \in Seq(S), s # <<>>
  PROVE  /\ Tail(s) \in Seq(S) /\ Len(s) \in Nat /\ Len(s) > 0
         /\ Len(Tail(s)) = Len(s) - 1 /\ Head(s) = s[1]
         /\ \A i \in 1..Len(Tail(s)) : Tail(s)[i] = s[i + 1]
OBVIOUS

\* The caller receives a result: one that is no error is counted, and an error
\* that is there is still there; an error ends the poll.
LEMMA ReceiveKeepsChecks == ASSUME MetricsInv, Receive PROVE ChecksInv'
<1>1. /\ ChecksInv /\ main = "poll" /\ errChan # <<>> /\ errChan' = Tail(errChan)
      /\ IF Head(errChan)
         THEN stop' = TRUE /\ main' = "join" /\ UNCHANGED successes
         ELSE successes' = successes + 1 /\ UNCHANGED <<main, stop>>
      /\ UNCHANGED <<check, outcome, marked>> /\ Check' = Check
  BY DEF MetricsInv, Receive, data, Check
<1>2. outcome = "none"
  BY <1>1 DEF MetricsInv, ResultInv
<1>3. /\ errChan' \in Seq(BOOLEAN) /\ Len(errChan) \in Nat /\ Len(errChan) > 0
      /\ Len(errChan') = Len(errChan) - 1 /\ Head(errChan) = errChan[1]
      /\ \A i \in 1..Len(errChan') : errChan'[i] = errChan[i + 1]
  <2>1. errChan \in Seq(BOOLEAN)
    BY <1>1 DEF ChecksInv
  <2>2. errChan # <<>> /\ errChan' = Tail(errChan)
    BY <1>1
  <2>. QED
    BY <2>1, <2>2, TailIs, Zenon
<1>4. DoneChecks' = DoneChecks
  BY <1>1 DEF DoneChecks
<1>5. CASE Head(errChan)
  <2>1. stop' = TRUE /\ main' = "join" /\ successes' = successes
    BY <1>1, <1>5
  <2>2. marked' # {} /\ successes' \in Nat /\ outcome' = "none" /\ errChan' \in Seq(BOOLEAN)
    BY <1>1, <1>2, <1>3, <2>1 DEF ChecksInv
  <2>3. check' \in [Check' -> {"none", "start", "check", "done"}]
    BY <1>1 DEF ChecksInv
  <2>. QED
    BY <2>1, <2>2, <2>3 DEF ChecksInv, PollInv
<1>6. CASE ~Head(errChan)
  <2>1. /\ successes' = successes + 1 /\ main' = main /\ stop' = stop
        /\ Cardinality(DoneChecks) = Len(errChan) + successes /\ successes \in Nat
    BY <1>1, <1>6 DEF ChecksInv, PollInv
  <2>2. Cardinality(DoneChecks') = Len(errChan') + successes'
    BY <1>3, <1>4, <2>1
  <2>3. ASSUME NEW k \in DoneChecks, Hit(k)
        PROVE  \E i \in 1..Len(errChan') : errChan'[i] = TRUE
    <3>1. PICK i \in 1..Len(errChan) : errChan[i] = TRUE
      BY <1>1, <2>3 DEF ChecksInv, PollInv
    <3>2. i # 1
      <4>. SUFFICES ASSUME i = 1 PROVE FALSE
        OBVIOUS
      <4>1. Head(errChan) = TRUE
        BY <1>3, <3>1, Zenon
      <4>. QED
        BY <1>6, <4>1, Zenon
    <3>3. i - 1 \in 1..Len(errChan') /\ errChan'[i - 1] = errChan[(i - 1) + 1]
      BY <1>3, <3>2
    <3>4. (i - 1) + 1 = i
      OBVIOUS
    <3>. QED
      BY <3>1, <3>3, <3>4
  <2>4. \A k \in DoneChecks : Hit(k)' <=> Hit(k)
    BY DataStep DEF MetricsNext, Caller, DoneChecks
  <2>5. PollInv'
    BY <1>4, <2>2, <2>3, <2>4 DEF PollInv
  <2>6. /\ marked' # {} /\ successes' \in Nat /\ outcome' = "none" /\ stop' = FALSE
        /\ errChan' \in Seq(BOOLEAN) /\ main' = "poll"
    <3>1. marked # {} /\ stop = FALSE
      BY <1>1 DEF ChecksInv
    <3>2. marked' = marked /\ outcome' = outcome /\ main = "poll"
      BY <1>1, Zenon
    <3>3. errChan' \in Seq(BOOLEAN)
      BY <1>3, Zenon
    <3>4. successes' \in Nat
      BY <2>1
    <3>. QED
      BY <1>2, <2>1, <3>1, <3>2, <3>3, <3>4, Zenon
  <2>7. check' \in [Check' -> {"none", "start", "check", "done"}]
    BY <1>1 DEF ChecksInv
  <2>. QED
    BY <2>5, <2>6, <2>7 DEF ChecksInv
<1>. QED
  BY <1>5, <1>6

\* The poll ends without an error: every check is done, and has found nothing.
LEMMA EnoughIsEnough == ASSUME MetricsInv, Enough PROVE ChecksInv'
<1>1. /\ ChecksInv /\ main = "poll" /\ errChan = <<>> /\ main' = "merge"
      /\ successes >= Cardinality(marked)
      /\ UNCHANGED <<check, errChan, stop, successes, outcome, marked>> /\ Check' = Check
  BY DEF MetricsInv, Enough, checkVars, data, Check
<1>2. /\ IsFiniteSet(Check) /\ Cardinality(marked) \in Nat
      /\ Cardinality(Check) = Cardinality(marked)
  BY ChecksAreFinite DEF MetricsInv
<1>3. Len(errChan) = 0 /\ successes \in Nat
  BY <1>1 DEF ChecksInv
<1>4. Cardinality(DoneChecks) = successes
  BY <1>1, <1>3 DEF ChecksInv, PollInv
<1>5. DoneChecks \in SUBSET Check
  BY DEF DoneChecks
<1>6. /\ Cardinality(DoneChecks) <= Cardinality(Check)
      /\ Cardinality(Check) = Cardinality(DoneChecks) => Check = DoneChecks
  BY <1>2, <1>5, FS_Subset
<1>7. Check = DoneChecks
  BY <1>1, <1>2, <1>3, <1>4, <1>6
<1>8. \A k \in Check : check[k] = "done" /\ ~Hit(k)
  <2>1. \A k \in DoneChecks : ~Hit(k)
    BY <1>1, <1>3 DEF ChecksInv, PollInv
  <2>. QED
    BY <1>7, <2>1 DEF DoneChecks
<1>9. \A k \in Check : Hit(k)' <=> Hit(k)
  BY DataStep DEF MetricsNext, Caller
<1>10. outcome = "none"
  BY <1>1 DEF MetricsInv, ResultInv
<1>. QED
  BY <1>1, <1>8, <1>9, <1>10 DEF ChecksInv, PollInv

\* The steps of the merge touch no check.
LEMMA ElsewhereKeepsChecks ==
  ASSUME MetricsInv, Send \/ Fetched \/ Join \/ Merge \/ Compare \/ Compared \/ Merged
                     \/ UNCHANGED metricsVars
  PROVE  ChecksInv'
<1>1. ChecksInv /\ ResultInv
  BY DEF MetricsInv
<1>2. /\ UNCHANGED <<check, errChan, stop, successes, marked>> /\ Check' = Check
      /\ DoneChecks' = DoneChecks
  BY DEF Send, Fetched, Join, Merge, Compare, Compared, Merged, metricsVars, checkVars,
         data, Check, DoneChecks
<1>3. \A k \in Check : Hit(k)' <=> Hit(k)
  BY DataStep DEF MetricsNext, Caller
<1>4. \/ main' = main /\ outcome' = outcome
      \/ main = "fetch" /\ main' = "spawn" /\ outcome' = outcome
      \/ main = "fetch" /\ main' = "done" /\ outcome' = "err"
      \/ /\ main = "join" /\ main' = "done" /\ outcome' = "err"
         /\ \A k \in Check : check[k] = "done"
      \/ main \in {"merge", "family"} /\ main' = "done"
      \/ main \in {"merge", "family"} /\ main' \in {"merge", "family"} /\ outcome' = outcome
  BY DEF Send, Fetched, Join, Merge, Compare, Compared, Merged, metricsVars, Ends
<1>5. PollInv'
  <2>. SUFFICES ASSUME main' = "poll" PROVE PollInv'
    BY DEF PollInv
  <2>1. main = "poll"
    BY <1>4
  <2>2. DoneChecks' = DoneChecks /\ \A k \in DoneChecks : Hit(k)' <=> Hit(k)
    BY <1>2, <1>3 DEF DoneChecks
  <2>. QED
    BY <1>1, <1>2, <2>1, <2>2 DEF ChecksInv, PollInv
<1>. QED
  BY <1>1, <1>2, <1>3, <1>4, <1>5 DEF ChecksInv, ResultInv

\* Every step preserves what is known of the checks.
LEMMA ChecksStep == ASSUME MetricsInv, [MetricsNext]_metricsVars PROVE ChecksInv'
BY SpawnChecks, StartKeepsChecks, PanicKeepsChecks, DoKeepsChecks, ReceiveKeepsChecks,
   EnoughIsEnough, ElsewhereKeepsChecks DEF MetricsNext, Caller

-----------------------------------------------------------------------------
(* The merge.                                                              *)

\* The two sorted lists of names.
LEMMA Lists ==
  ASSUME DataInv
  PROVE  /\ Cardinality(plain) \in Nat /\ Len(Want) = Cardinality(plain)
         /\ Cardinality(actual) \in Nat /\ Len(Have) = Cardinality(actual)
         /\ \A i \in 1..Cardinality(plain) : Want[i] \in plain /\ Want[i] \in Nat
         /\ \A n \in plain : \E i \in 1..Cardinality(plain) : Want[i] = n
         /\ \A i, j \in 1..Cardinality(plain) : i < j => Want[i] < Want[j]
         /\ \A i \in 1..Cardinality(actual) : Have[i] \in actual /\ Have[i] \in Nat
         /\ \A n \in actual : \E i \in 1..Cardinality(actual) : Have[i] = n
         /\ \A i, j \in 1..Cardinality(actual) : i < j => Have[i] < Have[j]
BY NamesAreSorted DEF DataInv, Want, Have, Name

\* Another name is passed over: it is too small, or the type that is expected
\* is not there.
LEMMA MergeKeeps == ASSUME MetricsInv, Merge PROVE MergeInv'
<1>1. /\ DataInv /\ MergeInv /\ main = "merge" /\ ei <= Cardinality(plain)
      /\ plain' = plain /\ actual' = actual /\ typed' = typed /\ ei' = ei /\ passed' = passed
      /\ Want' = Want /\ Have' = Have
  BY Lists DEF MetricsInv, Merge, data, Want, Have
<1>2. \/ main' = "done" /\ ai' = ai
      \/ /\ ai <= Cardinality(actual) /\ Have[ai] <= Want[ei]
         /\ Have[ai] = Want[ei] => Want[ei] \notin typed
         /\ ai' = ai + 1 /\ main' = "merge"
      \/ /\ ai <= Cardinality(actual) /\ Have[ai] = Want[ei]
         /\ Want[ei] \in typed /\ main' = "family" /\ ai' = ai
  BY <1>1, Lists DEF Merge, Equal, Ends
<1>3. ai' \in 1..(Cardinality(actual) + 1)
  BY <1>1, <1>2, Lists DEF MergeInv
<1>4. ASSUME Want[ei] \in typed, NEW j \in 1..Cardinality(actual), j < ai'
      PROVE  Have[j] < Want[ei]
  <2>1. j < ai => Have[j] < Want[ei]
    BY <1>1, <1>4 DEF MergeInv
  <2>2. j < ai \/ (j = ai /\ ai' = ai + 1)
    BY <1>1, <1>2, <1>4, Lists DEF MergeInv
  <2>3. ASSUME j = ai, ai' = ai + 1 PROVE Have[j] < Want[ei]
    <3>1. Have[ai] <= Want[ei] /\ Have[ai] # Want[ei]
      BY <1>1, <1>2, <1>4, <2>3 DEF MergeInv
    <3>2. Have[ai] \in Nat /\ Want[ei] \in Nat
      BY <1>1, <1>4, <2>3, Lists DEF MergeInv
    <3>. QED
      BY <2>3, <3>1, <3>2
  <2>. QED
    BY <2>1, <2>2, <2>3
<1>. QED
  BY <1>1, <1>2, <1>3, <1>4 DEF MergeInv

\* Both indices move on when the two families match, and the next name that is
\* expected is larger than those that were passed.
LEMMA ComparedKeeps == ASSUME MetricsInv, Compared PROVE MergeInv'
<1>1. /\ DataInv /\ MergeInv /\ main = "family"
      /\ plain' = plain /\ actual' = actual /\ typed' = typed
      /\ Want' = Want /\ Have' = Have
      /\ passed' = IF AllMatch THEN passed \cup {Want[ei]} ELSE passed
  BY DEF MetricsInv, Compared, data, Want, Have
<1>2. /\ ei \in 1..Cardinality(plain) /\ ai \in 1..Cardinality(actual)
      /\ Have[ai] = Want[ei] /\ Want[ei] \in typed /\ Want[ei] \in plain
      /\ ei + 1 \in 1..(Cardinality(plain) + 1) /\ ai + 1 \in 1..(Cardinality(actual) + 1)
  BY <1>1, Lists DEF MergeInv
<1>3. passed' \in SUBSET plain /\ passed \subseteq passed'
  BY <1>1, <1>2 DEF MergeInv
<1>4. CASE verdict = "err"
  <2>1. main' = "done" /\ ei' = ei /\ ai' = ai
    BY <1>4 DEF Compared, Ends
  <2>. QED
    BY <1>1, <1>3, <2>1 DEF MergeInv
<1>5. CASE verdict # "err"
  <2>1. main' = "merge" /\ ei' = ei + 1 /\ ai' = ai + 1 /\ verdict = "nil"
    BY <1>5 DEF Compared, MetricsInv, SearchInv, TypeOK
  <2>2. AllMatch
    <3>1. OkMeansMatched /\ expectedSize <= actualSize
      BY <2>1, MatchedFromInv DEF MetricsInv, SearchInv, MetricInv, Answered
    <3>. QED
      BY <2>1, <3>1 DEF OkMeansMatched, AllMatch, HasMatch
  <2>3. \A i \in 1..Cardinality(plain) : i < ei + 1 => Want[i] \in passed' \cap typed
    <3>1. ASSUME NEW i \in 1..Cardinality(plain), i < ei + 1
          PROVE  i < ei \/ i = ei
      BY <1>2, <3>1
    <3>. QED
      BY <1>1, <1>2, <2>2, <3>1 DEF MergeInv
  <2>4. ASSUME ei + 1 <= Cardinality(plain), NEW j \in 1..Cardinality(actual), j < ai + 1
        PROVE  Have[j] < Want[ei + 1]
    <3>1. Want[ei] < Want[ei + 1] /\ Want[ei] \in Nat /\ Want[ei + 1] \in Nat
      BY <1>1, <1>2, <2>4, Lists
    <3>2. j < ai \/ j = ai
      BY <1>2, <2>4
    <3>3. j < ai => Have[j] < Have[ai]
      BY <1>1, <1>2, Lists
    <3>4. Have[j] \in Nat
      BY <1>1, Lists
    <3>. QED
      BY <1>2, <3>1, <3>2, <3>3, <3>4
  <2>. QED
    BY <1>1, <1>2, <1>3, <2>1, <2>3, <2>4 DEF MergeInv
<1>. QED
  BY <1>4, <1>5

\* Every step preserves what is known of the merge.
LEMMA MergeStep == ASSUME MetricsInv, [MetricsNext]_metricsVars PROVE MergeInv'
<1>1. CASE Merge
  BY <1>1, MergeKeeps
<1>2. CASE Compared
  BY <1>2, ComparedKeeps
<1>3. ASSUME ~Merge, ~Compared PROVE MergeInv'
  <2>1. /\ UNCHANGED <<ei, ai, passed, plain, actual, typed>>
        /\ main' = "family" => main = "family"
    BY <1>3 DEF MetricsNext, Caller, Send, Fetched, Spawn, StartCheck, DoCheck, Receive,
                Enough, Join, Compare, Merged, metricsVars, searchVars, data, Ends
  <2>2. Want' = Want /\ Have' = Have
    BY <2>1 DEF Want, Have
  <2>. QED
    BY <2>1, <2>2 DEF MetricsInv, MergeInv
<1>. QED
  BY <1>1, <1>2, <1>3

\* Every step preserves the invariant of the search in a family.
LEMMA SearchStep == ASSUME MetricsInv, [MetricsNext]_metricsVars PROVE SearchInv'
<1>1. MetricInv /\ TypeOK /\ MaxMetrics \in Nat
  BY MetricAssumption DEF MetricAssumption, MetricsInv, SearchInv
<1>2. \/ UNCHANGED vars
      \/ Next
      \/ BeginAny
      \/ Begin(0, 0, {}, {})
  BY DEF MetricsNext, Caller, Send, Fetched, Spawn, StartCheck, DoCheck, Receive,
         Enough, Join, Merge, Compare, Compared, Merged, metricsVars, searchVars
<1>3. CASE UNCHANGED vars
  BY <1>1, <1>3, StutterInv DEF SearchInv, TypeOK, vars, lists
<1>4. CASE Next
  BY <1>1, <1>4, NextInv, TypeStep DEF SearchInv
<1>5. CASE BeginAny
  BY <1>5, BeginInv DEF BeginAny, SearchInv
<1>6. CASE Begin(0, 0, {}, {})
  <2>1. 0 \in 0..MaxMetrics
    BY <1>1
  <2>. QED
    BY <1>6, <2>1, BeginInv DEF SearchInv
<1>. QED
  BY <1>2, <1>3, <1>4, <1>5, <1>6

-----------------------------------------------------------------------------
(* The answer.                                                             *)

\* The merge gives up a name only if no actual family has it and its type.
LEMMA GivenUp ==
  ASSUME MetricsInv, Merge, main' = "done"
  PROVE  ~(plain \subseteq typed)
<1>1. DataInv /\ MergeInv /\ ei \in 1..Cardinality(plain) /\ ai \in Nat
  BY Lists DEF MetricsInv, MergeInv, Merge
<1>2. ai <= Cardinality(actual) => Have[ai] > Want[ei]
  BY <1>1, Lists DEF Merge
<1>3. Want[ei] \in plain /\ Want[ei] \in Nat
  BY <1>1, Lists
<1>4. Want[ei] \notin typed
  <2>. SUFFICES ASSUME Want[ei] \in typed PROVE FALSE
    OBVIOUS
  <2>1. PICK j \in 1..Cardinality(actual) : Have[j] = Want[ei]
    BY <1>1, Lists DEF DataInv
  <2>2. ~(j < ai)
    BY <1>1, <1>3, <2>1 DEF MergeInv
  <2>3. ai \in 1..Cardinality(actual) /\ (j = ai \/ ai < j)
    BY <1>1, <2>2, Lists DEF MergeInv
  <2>4. Have[ai] > Want[ei] /\ Have[ai] \in Nat
    BY <1>1, <1>2, <2>3, Lists
  <2>5. ai < j => Have[ai] < Have[j]
    BY <1>1, <2>3, Lists
  <2>. QED
    BY <1>3, <2>1, <2>3, <2>4, <2>5
<1>. QED
  BY <1>3, <1>4

\* Every step preserves what is known of the answer.
LEMMA ResultStep == ASSUME MetricsInv, [MetricsNext]_metricsVars PROVE ResultInv'
<1>1. /\ DataInv /\ ChecksInv /\ MergeInv /\ ResultInv /\ Cardinality(plain) \in Nat
      /\ Cardinality(actual) \in Nat /\ Len(Want) = Cardinality(plain)
  BY Lists DEF MetricsInv
<1>2. /\ plain' = plain /\ marked' = marked /\ actual' = actual /\ typed' = typed
      /\ hits' = hits /\ capacity' = capacity /\ capacity \in Nat
  BY <1>1, DataStep DEF data, DataInv
<1>3. CASE Send
  BY <1>1, <1>2, <1>3 DEF Send, ResultInv, UnmarkedIsRight
<1>4. CASE Fetched
  <2>1. /\ main = "fetch" /\ outcome = "none" /\ fetched' = fetched /\ ei' = ei
        /\ \/ main' = "done" /\ outcome' = "err" /\ (fetched = 0 \/ plain \cup marked = {})
           \/ main' = "spawn" /\ outcome' = "none"
    BY <1>1, <1>4 DEF Fetched, Ends, ResultInv
  <2>2. UnmarkedIsRight'
    BY <1>2, <2>1 DEF UnmarkedIsRight, Refusable
  <2>. QED
    BY <1>1, <1>2, <2>1, <2>2 DEF ResultInv
<1>5. CASE Spawn \/ Receive \/ Enough
  <2>1. /\ main \in {"spawn", "poll"} /\ main' \in {"poll", "merge", "join"}
        /\ UNCHANGED <<fetched, outcome, ei>>
    BY <1>5 DEF Spawn, Receive, Enough
  <2>. QED
    BY <1>1, <1>2, <2>1 DEF ResultInv, UnmarkedIsRight
<1>6. CASE Join
  <2>1. main' = "done" /\ outcome' = "err" /\ UNCHANGED <<fetched, ei>> /\ marked # {}
    BY <1>1, <1>6 DEF Join, Ends, ChecksInv
  <2>. QED
    BY <1>1, <1>2, <2>1 DEF ResultInv, UnmarkedIsRight
<1>7. CASE Merge
  <2>1. /\ main = "merge" /\ UNCHANGED <<fetched, ei>>
        /\ \/ main' = "done" /\ outcome' = "err"
           \/ main' \in {"merge", "family"} /\ outcome' = outcome
    BY <1>7 DEF Merge, Ends
  <2>2. outcome = "none"
    BY <1>1, <2>1 DEF ResultInv
  <2>3. UnmarkedIsRight'
    <3>1. CASE main' = "done"
      BY <1>2, <1>7, <3>1, GivenUp DEF UnmarkedIsRight, Refusable
    <3>2. CASE main' # "done"
      BY <2>1, <2>2, <3>2 DEF UnmarkedIsRight
    <3>. QED
      BY <3>1, <3>2
  <2>. QED
    BY <1>1, <1>2, <2>1, <2>2, <2>3 DEF ResultInv
<1>8. CASE Compared
  <2>1. /\ main = "family" /\ fetched' = fetched
        /\ \/ main' = "done" /\ outcome' = "err" /\ verdict = "err" /\ verdict' = verdict
           \/ main' = "merge" /\ outcome' = outcome
    BY <1>8 DEF Compared, Ends, vars
  <2>2. outcome = "none"
    BY <1>1, <2>1 DEF ResultInv
  <2>3. UnmarkedIsRight'
    BY <2>1, <2>2 DEF UnmarkedIsRight, Refusable
  <2>. QED
    BY <1>1, <1>2, <2>1, <2>2, <2>3 DEF ResultInv
<1>9. CASE Merged
  <2>1. main' = "done" /\ outcome' = "nil" /\ UNCHANGED <<fetched, ei>> /\ ei > Cardinality(plain)
    BY <1>1, <1>9 DEF Merged, Ends
  <2>2. ei' = Cardinality(plain') + 1
    BY <1>1, <1>2, <2>1 DEF MergeInv
  <2>. QED
    BY <1>1, <1>2, <2>1, <2>2 DEF ResultInv, UnmarkedIsRight
<1>10. CASE Compare
  <2>1. main = "family" /\ UNCHANGED <<main, fetched, outcome, ei>>
    BY <1>10 DEF Compare
  <2>2. outcome = "none"
    BY <1>1, <2>1 DEF ResultInv
  <2>. QED
    BY <1>1, <1>2, <2>1, <2>2 DEF ResultInv, UnmarkedIsRight
<1>11. CASE (\E k \in Check : StartCheck(k)) \/ UNCHANGED metricsVars
  <2>1. UNCHANGED <<main, fetched, outcome, ei, verdict>>
    BY <1>11 DEF StartCheck, metricsVars, searchVars, vars
  <2>. QED
    BY <1>1, <1>2, <2>1 DEF ResultInv, UnmarkedIsRight, Refusable
<1>12. ASSUME NEW k \in Check, DoCheck(k) PROVE ResultInv'
  <2>1. /\ check[k] = "check" /\ main' \in {main, "dead"}
        /\ UNCHANGED <<fetched, outcome, ei, verdict>>
    BY <1>12 DEF DoCheck, searchVars, vars
  <2>2. main # "done" /\ outcome = "none"
    BY <1>1, <2>1 DEF ChecksInv, ResultInv
  <2>. QED
    BY <1>1, <1>2, <2>1, <2>2 DEF ResultInv, UnmarkedIsRight
<1>. QED
  BY <1>3, <1>4, <1>5, <1>6, <1>7, <1>8, <1>9, <1>10, <1>11, <1>12 DEF MetricsNext, Caller

\* The invariant holds in every reachable state.
LEMMA MetricsInvHolds == MetricsSpec => []MetricsInv
<1>1. MetricsInv /\ [MetricsNext]_metricsVars => MetricsInv'
  BY DataStep, ChecksStep, MergeStep, ResultStep, SearchStep DEF MetricsInv
<1>. QED
  BY <1>1, MetricsInitInv, PTL DEF MetricsSpec

-----------------------------------------------------------------------------
\* The poll of the results neither loses nor repeats one, and no index of the
\* merge or of a search leaves its list, for lists and channels of every size.
THEOREM ResultsAreCounted == MetricsSpec => []Inv
<1>1. MetricsInv => Inv
  <2>. SUFFICES ASSUME MetricsInv PROVE Inv
    OBVIOUS
  <2>1. MetricsTypeOK
    BY DEF MetricsInv, ChecksInv, MergeInv, ResultInv, SearchInv, MetricsTypeOK
  <2>2. ChecksAreCounted
    BY DEF MetricsInv, ChecksInv, PollInv, DoneChecks, ChecksAreCounted
  <2>. QED
    BY <2>1, <2>2 DEF Inv
<1>. QED
  BY <1>1, MetricsInvHolds, PTL

\* The search of a family is right within the assertion of all of them, where
\* it begins again for each.
THEOREM FamilyAnswersAreRight == MetricsSpec => []AnswerIsRight
<1>1. MetricsInv => AnswerIsRight
  BY MatchedFromInv DEF MetricsInv, SearchInv, MetricInv, Answered, AnswerIsRight
<1>. QED
  BY <1>1, MetricsInvHolds, PTL

\* Without a forbidden family the merge refuses metrics for a reason only: a
\* name it has passed is too small for the one it looks for.
THEOREM RefusalsHaveReasons == MetricsSpec => []UnmarkedIsRight
<1>1. MetricsInv => UnmarkedIsRight
  BY DEF MetricsInv, ResultInv
<1>. QED
  BY <1>1, MetricsInvHolds, PTL

\* Where no check has failed no marked name is found or is no regexp: were there a
\* family that is sorted before the marked ones, the first check would have
\* looked for it, and an accepted assertion has it among the actual ones.
LEMMA NothingForbidden ==
  ASSUME MetricsInv, outcome = "nil", plain \subseteq typed
  PROVE  \A m \in marked : m \notin broken /\ \A a \in actual : <<m, a>> \notin hits
<1>. DEFINE low == {n \in plain : n <= cut}
            high == {n \in plain : n > cut}
<1>1. DataInv /\ low \in SUBSET Name /\ high \in SUBSET Name /\ marked \in SUBSET Name
  BY DEF MetricsInv, DataInv
<1>2. \A k \in Check : ~Hit(k)
  BY DEF MetricsInv, ChecksInv
<1>3. Expected = Sorted(low) \o Sorted(marked) \o Sorted(high)
  BY DEF Expected
<1>4. \A n \in low : n \in plain /\ n \in typed /\ n \in actual /\ <<n, n>> \in hits
  BY <1>1 DEF DataInv
<1>. HIDE DEF low, high
<1>5. SUFFICES ASSUME NEW m \in marked, m \in broken \/ \E a \in actual : <<m, a>> \in hits
               PROVE  FALSE
  OBVIOUS
<1>6. /\ Cardinality(low) \in Nat /\ Cardinality(marked) \in Nat
      /\ Sorted(low) \in Seq(low) /\ Len(Sorted(low)) = Cardinality(low)
      /\ Sorted(marked) \in Seq(marked) /\ Len(Sorted(marked)) = Cardinality(marked)
      /\ Sorted(high) \in Seq(high)
      /\ \A i \in 1..Cardinality(low) : Sorted(low)[i] \in low
  BY <1>1, NamesAreSorted
<1>7. PICK k \in Check : Sorted(marked)[k] = m
  BY <1>1, NamesAreSorted DEF Check
<1>8. k \in 1..Cardinality(marked)
  BY DEF Check
<1>9. CASE Cardinality(low) = 0
  <2>1. Expected[k] = Sorted(marked)[k]
    BY <1>3, <1>6, <1>8, <1>9
  <2>2. Hit(k)
    BY <1>5, <1>7, <2>1 DEF Hit
  <2>. QED
    BY <1>2, <2>2
<1>10. CASE Cardinality(low) # 0
  <2>1. 1 \in 1..Cardinality(low) /\ 1 \in Check
    BY <1>6, <1>8, <1>10 DEF Check
  <2>2. Expected[1] = Sorted(low)[1]
    BY <1>3, <1>6, <2>1
  <2>3. Sorted(low)[1] \in low
    BY <1>6, <2>1
  <2>4. Hit(1)
    BY <1>4, <2>2, <2>3 DEF Hit
  <2>. QED
    BY <1>2, <2>1, <2>4
<1>. QED
  BY <1>9, <1>10

\* Metrics that are accepted hold every expected family, with a match for each
\* of its metrics, and nothing that is forbidden, although the checks may have
\* looked at other families.
THEOREM AcceptedMetricsHold == MetricsSpec => []OkMeansHolds
<1>1. MetricsInv => OkMeansHolds
  <2>. SUFFICES ASSUME MetricsInv, outcome = "nil"
                PROVE  /\ marked \cap broken = {}
                       /\ plain \subseteq passed \cap typed
                       /\ \A m \in marked, a \in actual : <<m, a>> \notin hits
    BY DEF OkMeansHolds
  <2>1. DataInv /\ MergeInv /\ ei = Cardinality(plain) + 1 /\ Cardinality(plain) \in Nat
    BY Lists DEF MetricsInv, ResultInv
  <2>2. ASSUME NEW n \in plain PROVE n \in passed \cap typed
    <3>1. PICK i \in 1..Cardinality(plain) : Want[i] = n
      BY <2>1, Lists
    <3>2. i < ei
      BY <2>1
    <3>. QED
      BY <2>1, <3>1, <3>2 DEF MergeInv
  <2>3. plain \subseteq typed
    BY <2>2
  <2>. QED
    BY <2>2, <2>3, NothingForbidden
<1>. QED
  BY <1>1, MetricsInvHolds, PTL

-----------------------------------------------------------------------------
(* Who is waited for.                                                      *)

\* The fetch sends no more than there is, and a goroutine runs for each marked
\* family when its result is waited for.
WaitInv ==
  /\ fetched \in Nat /\ fetched <= Cardinality(actual)
  /\ main \in {"poll", "join"} => \A k \in Check : check[k] # "none"

\* Where the caller waits something can still happen: there is room for the
\* next family, as long as all of them fit; a result that is missing comes from
\* a goroutine that has not been told to stop; one that is not done goes on.
NobodyIsMissing ==
  /\ main = "fetch" /\ Cardinality(actual) <= capacity =>
       fetched = Cardinality(actual) \/ fetched < capacity
  /\ main = "poll" /\ errChan = <<>> /\ successes < Cardinality(marked) =>
       ~stop /\ \E k \in Check : check[k] \in {"start", "check"}
  /\ main = "join" =>
       (\A k \in Check : check[k] = "done") \/ \E k \in Check : check[k] \in {"start", "check"}

\* What is waited for keeps being there.
LEMMA WaitStep == ASSUME MetricsInv, WaitInv, [MetricsNext]_metricsVars PROVE WaitInv'
<1>1. /\ check \in [Check -> {"none", "start", "check", "done"}]
      /\ Check' = Check /\ actual' = actual
  BY DataStep DEF MetricsInv, ChecksInv, MetricsNext, Caller, Send, Fetched, Spawn, Receive, Enough,
     Join, Merge, Compare, Compared, Merged, StartCheck, DoCheck, data, metricsVars, Check
<1>2. CASE Send
  <2>1. /\ main = "fetch" /\ main' = main /\ check' = check
        /\ fetched < Cardinality(actual) /\ fetched' = fetched + 1
    BY <1>2 DEF Send, checkVars
  <2>2. Cardinality(actual) \in Nat /\ fetched \in Nat
    <3>1. DataInv
      BY DEF MetricsInv
    <3>. QED
      BY <3>1, Lists DEF WaitInv
  <2>3. PICK size \in Nat : size = Cardinality(actual) /\ size = Cardinality(actual')
    BY <1>1, <2>2
  <2>4. fetched' \in Nat /\ fetched' <= Cardinality(actual')
    BY <2>1, <2>2, <2>3
  <2>. QED
    BY <2>1, <2>4 DEF WaitInv
<1>3. CASE Spawn
  BY <1>1, <1>3 DEF WaitInv, Spawn
<1>4. ASSUME NEW k \in Check, StartCheck(k) \/ DoCheck(k) PROVE WaitInv'
  BY <1>1, <1>4 DEF WaitInv, StartCheck, DoCheck
<1>5. CASE Fetched \/ Receive \/ Enough \/ Join \/ Merge \/ Compare \/ Compared \/ Merged
           \/ UNCHANGED metricsVars
  <2>1. UNCHANGED <<check, fetched>> /\ (main' \in {"poll", "join"} => main \in {"poll", "join"})
    BY <1>5 DEF Fetched, Ends, Receive, Enough, Join, Merge, Compare, Compared, Merged,
       checkVars, metricsVars
  <2>. QED
    BY <1>1, <2>1 DEF WaitInv
<1>. QED
  BY <1>2, <1>3, <1>4, <1>5 DEF MetricsNext, Caller

\* A missing result is that of a check that is not done.
LEMMA SomeoneChecks ==
  ASSUME MetricsInv, WaitInv, main = "poll", errChan = <<>>, successes < Cardinality(marked)
  PROVE  \E k \in Check : check[k] \in {"start", "check"}
<1>1. /\ IsFiniteSet(Check) /\ Cardinality(marked) \in Nat
      /\ Cardinality(Check) = Cardinality(marked)
  BY ChecksAreFinite DEF MetricsInv
<1>2. ChecksInv
  BY DEF MetricsInv
<1>3. Len(errChan) = 0 /\ successes \in Nat
  BY <1>2 DEF ChecksInv
<1>4. Cardinality(DoneChecks) = successes
  BY <1>2, <1>3 DEF ChecksInv, PollInv
<1>5. DoneChecks # Check
  BY <1>1, <1>3, <1>4
<1>6. PICK k \in Check : check[k] # "done"
  BY <1>5 DEF DoneChecks
<1>. QED
  BY <1>2, <1>6 DEF ChecksInv, WaitInv

\* MetricsAssert waits for nobody who is not there, neither at the channel of
\* 1024 families, if they fit, nor for the checks: the safety part of
\* AnswersOrSticks.
THEOREM NobodyWaitsInVain == MetricsSpec => []NobodyIsMissing
<1>1. MetricsInit => WaitInv
  <2>. SUFFICES ASSUME MetricsInit PROVE WaitInv
    OBVIOUS
  <2>1. Cardinality(actual) \in Nat
    <3>1. DataInv
      BY MetricsInitInv DEF MetricsInv
    <3>. QED
      BY <3>1, Lists
  <2>. QED
    BY <2>1 DEF MetricsInit, WaitInv
<1>2. MetricsInv /\ WaitInv /\ [MetricsNext]_metricsVars => WaitInv'
  BY WaitStep
<1>3. MetricsInv /\ WaitInv => NobodyIsMissing
  <2>. SUFFICES ASSUME MetricsInv, WaitInv PROVE NobodyIsMissing
    OBVIOUS
  <2>1. Cardinality(actual) \in Nat
    <3>1. DataInv
      BY DEF MetricsInv
    <3>. QED
      BY <3>1, Lists
  <2>2. capacity \in Nat
    BY DEF MetricsInv, DataInv
  <2>3. /\ check \in [Check -> {"none", "start", "check", "done"}]
        /\ main = "poll" => stop = FALSE
    BY DEF MetricsInv, ChecksInv
  <2>4. main = "fetch" /\ Cardinality(actual) <= capacity =>
          fetched = Cardinality(actual) \/ fetched < capacity
    BY <2>1, <2>2 DEF WaitInv
  <2>5. main = "join" => \/ \A k \in Check : check[k] = "done"
                         \/ \E k \in Check : check[k] \in {"start", "check"}
    BY <2>3 DEF WaitInv
  <2>. QED
    BY <2>3, <2>4, <2>5, SomeoneChecks DEF NobodyIsMissing
<1>. QED
  BY <1>1, <1>2, <1>3, MetricsInvHolds, PTL DEF MetricsSpec
=============================================================================

---------------------------- MODULE MetricMatch ----------------------------
(***************************************************************************)
(* internal/components/assert/metric_assert.go: doAssertFunc looks, for    *)
(* each metric of an expected family, for an actual one that it accepts.   *)
(* assertMetric, assertSummary and assertHistogram are three copies of the *)
(* search: it starts at the expected metric's own index, wraps around at   *)
(* the end of the list and is to stop at maxIndex.  assertHelper, which    *)
(* compares labels and values, is a given relation, and so is which        *)
(* expected metrics have the type that is wanted.  Indices start at 0.     *)
(***************************************************************************)
EXTENDS Integers

CONSTANTS MaxMetrics   \* bound on the metrics of a family

ASSUME MetricAssumption == MaxMetrics \in Nat

Index == 0..(MaxMetrics - 1)

VARIABLES
  match,          \* the pairs <<expected, actual>> assertHelper accepts, fixed
  mistyped,       \* the expected metrics that are no map, do not decode, or
                  \* have actual ones of another type before them, fixed
  expectedSize,   \* len(expectedMetrics), fixed
  actualSize,     \* len(actualMetrics), fixed
  expectedIndex,  \* the expected metric searched for
  actualIndex,    \* the actual one to look at, before it is wrapped
  err,            \* the last comparison was refused
  chosen,         \* the actual metric each expected one was given
  verdict         \* of doAssertFunc: "none", "nil" or "err"

lists == <<match, mistyped, expectedSize, actualSize>>
vars == <<lists, expectedIndex, actualIndex, err, chosen, verdict>>

Init ==
  /\ match \in SUBSET (Index \X Index) /\ mistyped \in SUBSET Index
  /\ expectedSize \in 0..MaxMetrics /\ actualSize \in 0..MaxMetrics
  /\ expectedIndex = 0 /\ actualIndex = 0 /\ err = FALSE
  /\ chosen = [e \in Index |-> 0] /\ verdict = "none"

\* The same for a comparison that starts at a later time, of lists of e and a
\* metrics with the relation m, those of t mistyped.
Begin(e, a, m, t) ==
  /\ match' = m /\ mistyped' = t /\ expectedSize' = e /\ actualSize' = a
  /\ expectedIndex' = 0 /\ actualIndex' = 0 /\ err' = FALSE
  /\ chosen' = [x \in Index |-> 0] /\ verdict' = "none"

\* Any two lists; a metric that is mistyped comes to no comparison.
BeginAny ==
  \E e, a \in 0..MaxMetrics : \E t \in SUBSET (0..(e - 1)) :
    \E m \in SUBSET (((0..(e - 1)) \ t) \X (0..(a - 1))) : Begin(e, a, m, t)

\* Before the first comparison.
Empty == match = {} /\ mistyped = {} /\ expectedSize = 0 /\ actualSize = 0 /\ Init

-----------------------------------------------------------------------------
maxIndex == actualSize + expectedIndex

Searching ==
  /\ expectedSize <= actualSize /\ expectedIndex < expectedSize
  /\ actualIndex < maxIndex

\* The search for the expected metric comes to its comparisons.
Comparing == Searching /\ expectedIndex \notin mistyped

\* The wrap writes the loop variable itself.
Wrapped ==
  IF actualIndex >= actualSize THEN actualIndex - actualSize ELSE actualIndex

\* Fault: a search that has taken a metric goes on with the same one.
Accept_stays ==
  /\ Comparing /\ <<expectedIndex, Wrapped>> \in match
  /\ chosen' = [chosen EXCEPT ![expectedIndex] = Wrapped]
  /\ UNCHANGED <<lists, expectedIndex, actualIndex, err, verdict>>

\* The metric is accepted: the search ends without an error, the next starts.
\* The map of matched metrics is local to a search, so it never excludes one.
Accept ==
  /\ Comparing /\ <<expectedIndex, Wrapped>> \in match
  /\ chosen' = [chosen EXCEPT ![expectedIndex] = Wrapped] /\ err' = FALSE
  /\ expectedIndex' = expectedIndex + 1 /\ actualIndex' = expectedIndex + 1
  /\ UNCHANGED <<lists, verdict>>

\* Refused: the search goes on after the place it has wrapped to.
Refuse ==
  /\ Comparing /\ <<expectedIndex, Wrapped>> \notin match
  /\ err' = TRUE /\ actualIndex' = Wrapped + 1
  /\ UNCHANGED <<lists, expectedIndex, chosen, verdict>>

\* The type is tested before the first comparison, and an error of it, like
\* that of a search, ends the whole comparison at whichever metric it is.
TypeError ==
  /\ Searching /\ expectedIndex \in mistyped
  /\ verdict' = "err"
  /\ UNCHANGED <<lists, expectedIndex, actualIndex, err, chosen>>

\* Fault: a search that has looked at every metric counts as a match.
Exhausted_accepts ==
  /\ expectedSize <= actualSize /\ expectedIndex < expectedSize
  /\ actualIndex >= maxIndex
  /\ expectedIndex' = expectedIndex + 1 /\ actualIndex' = expectedIndex + 1
  /\ UNCHANGED <<lists, err, chosen, verdict>>

\* The loop has reached maxIndex and returns the last refusal.
Exhausted ==
  /\ expectedSize <= actualSize /\ expectedIndex < expectedSize
  /\ actualIndex >= maxIndex
  /\ verdict' = IF err THEN "err" ELSE "nil"
  /\ UNCHANGED <<lists, expectedIndex, actualIndex, err, chosen>>

\* More metrics expected than there are, or every search has succeeded.
Answer ==
  /\ expectedSize > actualSize \/ expectedIndex = expectedSize
  /\ verdict' = IF expectedSize > actualSize THEN "err" ELSE "nil"
  /\ UNCHANGED <<lists, expectedIndex, actualIndex, err, chosen>>

Next == verdict = "none" /\ (Accept \/ Refuse \/ TypeError \/ Exhausted \/ Answer)

\* The goroutine of the case runs.
Spec == Init /\ [][Next]_vars /\ WF_vars(Next)

-----------------------------------------------------------------------------
\* The variables keep their types: an index never leaves the list, whichever
\* way it was wrapped.
TypeOK ==
  /\ expectedIndex \in 0..MaxMetrics
  /\ actualIndex \in 0..MaxMetrics
  /\ actualIndex <= actualSize \/ expectedSize > actualSize \/ expectedIndex = expectedSize
  /\ err \in BOOLEAN /\ chosen \in [Index -> Index]
  /\ verdict \in {"none", "nil", "err"}

ExpectedIndex == 0..(expectedSize - 1)
ActualIndex == 0..(actualSize - 1)

HasMatch(e) == \E a \in ActualIndex : <<e, a>> \in match

AllMatch ==
  /\ expectedSize <= actualSize
  /\ \A e \in ExpectedIndex : e \notin mistyped /\ HasMatch(e)

\* A family that is accepted has an actual metric for every expected one, each
\* of which has the type that is wanted.
OkMeansMatched ==
  verdict = "nil" =>
    \A e \in ExpectedIndex :
      e \notin mistyped /\ chosen[e] \in ActualIndex /\ <<e, chosen[e]>> \in match

\* A family is refused for its size, for the type of the metric it has come
\* to, whichever that is, or because its first metric has no match; those
\* before it had theirs.  No search for a later metric ever returns without a
\* match.
ErrMeansRefused ==
  verdict = "err" =>
    \/ expectedSize > actualSize
    \/ /\ expectedIndex \in ExpectedIndex
       /\ expectedIndex \in mistyped \/ (expectedIndex = 0 /\ ~HasMatch(0))
       /\ \A e \in 0..(expectedIndex - 1) : e \notin mistyped /\ HasMatch(e)

\* The answer about a family is right: accepted, every expected metric has its
\* match; refused, it is too small, the metric it has come to is mistyped, or
\* the first one has no match.
AnswerIsRight == OkMeansMatched /\ ErrMeansRefused

\* metric_assert.go: maxIndex is "the maximum of actualIndex": a search ends,
\* with a match or without.
SearchEnds == <>(verdict # "none")
=============================================================================

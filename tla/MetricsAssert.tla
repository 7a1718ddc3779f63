--------------------------- MODULE MetricsAssert ---------------------------
(***************************************************************************)
(* internal/components/assert: MetricsAssert fetches the metric families   *)
(* of a service (LoadMetricsData) and compares them with the expected ones *)
(* (doMetricsAssert).  A family marked `notContains` is a pattern that no  *)
(* actual name may match, checked in a goroutine of its own; the others    *)
(* are merged with the actual ones, both sorted by name, and each that is  *)
(* found is compared metric by metric, by the search of MetricMatch.       *)
(***************************************************************************)
EXTENDS MetricMatch, FiniteSets, Sequences

CONSTANTS NumNames,    \* family names are 1..NumNames, in their order
          MaxCapacity  \* bound on the room in the channel of families

ASSUME MetricsAssumption == NumNames \in Nat /\ MaxCapacity \in Nat \ {0}

Name == 1..NumNames

VARIABLES
  plain,      \* expected names without the mark, fixed
  marked,     \* expected names with the mark, fixed
  cut,        \* plain names up to cut sort before the mark, fixed
  actual,     \* names of the actual families, fixed
  hits,       \* <<pattern, name>>: the regexp is found in the name, fixed
  broken,     \* expected names that are no regexp, fixed
  capacity,   \* room in the channel of families, fixed (1024 in the code)
  typed,      \* names whose actual family has the expected type, fixed
  main,       \* where the caller is
  fetched,    \* families in the channel
  check,      \* where the goroutine of each marked family is
  errChan,    \* the channel of their results: TRUE for an error
  stop,       \* the stop channel is closed
  successes,  \* successAssertCount
  ei, ai,     \* expectedIndex and actualIndex of the merge, from 1
  outcome,    \* "none", "nil" or "err"
  passed      \* history: the families that were compared and have a match
              \* for every expected metric

data == <<plain, marked, cut, actual, hits, broken, capacity, typed>>
checkVars == <<check, errChan, stop, successes>>
\* Of the search in the family being compared, vars.
searchVars == <<passed, vars>>
metricsVars == <<data, main, fetched, checkVars, ei, ai, outcome, searchVars>>

\* The members of S in order: the i-th one has i - 1 below it.
Sorted(S) ==
  [i \in 1..Cardinality(S) |-> CHOOSE n \in S : Cardinality({m \in S : m < n}) = i - 1]

\* The expected families, sorted before the mark is taken off their names.
Expected ==
  Sorted({n \in plain : n <= cut}) \o Sorted(marked) \o Sorted({n \in plain : n > cut})

Check == 1..Cardinality(marked)

MetricsInit ==
  /\ plain \in SUBSET Name /\ marked \in SUBSET Name /\ cut \in 0..NumNames
  /\ actual \in SUBSET Name /\ typed \in SUBSET actual
  /\ broken \in SUBSET ((plain \cup marked) \ actual)
  /\ capacity \in 1..MaxCapacity
  /\ \E r \in SUBSET (((plain \cup marked) \ broken) \X actual) :
       hits = r \cup {<<n, n>> : n \in plain \cup marked}
  /\ main = "fetch" /\ fetched = 0
  /\ check = [k \in Check |-> "none"] /\ errChan = <<>> /\ stop = FALSE
  /\ successes = 0 /\ ei = 1 /\ ai = 1 /\ outcome = "none"
  /\ passed = {} /\ Empty

Ends(result) == main' = "done" /\ outcome' = result

-----------------------------------------------------------------------------
(* LoadMetricsData.                                                        *)

\* The fetch sends a family while there is room; nobody receives them before
\* it has ended.
Send ==
  /\ main = "fetch" /\ fetched < Cardinality(actual) /\ fetched < capacity
  /\ fetched' = fetched + 1
  /\ UNCHANGED <<data, main, checkVars, ei, ai, outcome, searchVars>>

\* The url does not answer, or all families are in the channel and received.
\* Nothing expected is an error then.
Fetched ==
  /\ main = "fetch"
  /\ \/ fetched = 0 /\ Ends("err")
     \/ /\ fetched = Cardinality(actual)
        /\ IF plain \cup marked = {} THEN Ends("err")
           ELSE main' = "spawn" /\ UNCHANGED outcome
  /\ UNCHANGED <<data, fetched, checkVars, ei, ai, searchVars>>

-----------------------------------------------------------------------------
(* handleNotContainersMetrics.                                             *)

\* A goroutine for each marked family, if there are any.
Spawn ==
  /\ main = "spawn"
  /\ main' = IF marked = {} THEN "merge" ELSE "poll"
  /\ check' = [k \in Check |-> "start"]
  /\ UNCHANGED <<data, fetched, errChan, stop, successes, ei, ai, outcome, searchVars>>

\* It leaves when the others have been told to stop ...
StartCheck(k) ==
  /\ check[k] = "start" /\ main # "dead"
  /\ check' = [check EXCEPT ![k] = IF stop THEN "done" ELSE "check"]
  /\ UNCHANGED <<data, main, fetched, errChan, stop, successes, ei, ai, outcome, searchVars>>

\* ... and else compiles and looks for the pattern of an expected family: the
\* k-th of all of them, where the k-th of the marked ones is meant.  One that
\* is no regexp is a panic, which nothing recovers: the process dies.
DoCheck(k) ==
  /\ check[k] = "check" /\ main # "dead"
  /\ \/ /\ Expected[k] \in broken
        /\ main' = "dead" /\ UNCHANGED <<check, errChan>>
     \/ /\ Expected[k] \notin broken
        /\ check' = [check EXCEPT ![k] = "done"]
        /\ errChan' = Append(errChan, \E a \in actual : <<Expected[k], a>> \in hits)
        /\ UNCHANGED main
  /\ UNCHANGED <<data, fetched, stop, successes, ei, ai, outcome, searchVars>>

\* Fault: the first error is returned without waiting for the goroutines.
Receive_without_wait ==
  /\ main = "poll" /\ errChan # <<>> /\ errChan' = Tail(errChan)
  /\ IF Head(errChan)
     THEN stop' = TRUE /\ Ends("err") /\ UNCHANGED successes
     ELSE successes' = successes + 1 /\ UNCHANGED <<main, outcome, stop>>
  /\ UNCHANGED <<data, fetched, check, ei, ai, searchVars>>

\* The caller receives a result: an error stops the goroutines that have not
\* started, and all are waited for.
Receive ==
  /\ main = "poll" /\ errChan # <<>> /\ errChan' = Tail(errChan)
  /\ IF Head(errChan)
     THEN stop' = TRUE /\ main' = "join" /\ UNCHANGED successes
     ELSE successes' = successes + 1 /\ UNCHANGED <<main, stop>>
  /\ UNCHANGED <<data, fetched, check, ei, ai, outcome, searchVars>>

\* Fault: one result less is waited for.
Enough_one_less ==
  /\ main = "poll" /\ successes >= Cardinality(marked) - 1 /\ errChan = <<>>
  /\ main' = "merge"
  /\ UNCHANGED <<data, fetched, checkVars, ei, ai, outcome, searchVars>>

\* Nothing to receive, and all have succeeded; until then the loop polls.
Enough ==
  /\ main = "poll" /\ errChan = <<>> /\ successes >= Cardinality(marked)
  /\ main' = "merge"
  /\ UNCHANGED <<data, fetched, checkVars, ei, ai, outcome, searchVars>>

Join ==
  /\ main = "join" /\ \A k \in Check : check[k] = "done"
  /\ Ends("err")
  /\ UNCHANGED <<data, fetched, checkVars, ei, ai, searchVars>>

-----------------------------------------------------------------------------
(* The merge.                                                              *)

Want == Sorted(plain)
Have == Sorted(actual)

Equal == ai <= Len(Have) /\ Have[ai] = Want[ei]

\* Fault: a family that is looked at counts as one that is behind.
Merge_misses_equal ==
  /\ main = "merge" /\ ei <= Len(Want) /\ UNCHANGED vars
  /\ IF ai > Len(Have) THEN Ends("err") /\ UNCHANGED ai
     ELSE IF Have[ai] >= Want[ei] THEN Ends("err") /\ UNCHANGED ai
     ELSE ai' = ai + 1 /\ UNCHANGED <<main, outcome>>
  /\ UNCHANGED <<data, fetched, checkVars, ei, passed>>

\* Fault: the actual index does not move past a family that is not expected.
Merge_stays ==
  /\ main = "merge" /\ ei <= Len(Want) /\ UNCHANGED vars
  /\ IF ai > Len(Have) THEN Ends("err") ELSE UNCHANGED <<main, outcome>>
  /\ UNCHANGED <<data, fetched, checkVars, ei, ai, passed>>

\* The expected family is not there or is behind; the actual one has another
\* name or another type and is passed over; or the two are compared, whatever
\* metrics they have.
Merge ==
  /\ main = "merge" /\ ei <= Len(Want)
  /\ \/ /\ ai <= Len(Have) => Have[ai] > Want[ei]
        /\ Ends("err") /\ UNCHANGED <<ai, vars>>
     \/ /\ ai <= Len(Have) /\ Have[ai] <= Want[ei]
        /\ Equal => Want[ei] \notin typed
        /\ ai' = ai + 1 /\ UNCHANGED <<main, outcome, vars>>
     \/ /\ Equal /\ Want[ei] \in typed
        /\ main' = "family" /\ BeginAny /\ UNCHANGED <<outcome, ai>>
  /\ UNCHANGED <<data, fetched, checkVars, ei, passed>>

\* assertFamilyMetric: the search of MetricMatch.
Compare ==
  /\ main = "family" /\ Next
  /\ UNCHANGED <<data, main, fetched, checkVars, ei, ai, outcome, passed>>

\* Its error ends the assertion; else both indices move on.
Compared ==
  /\ main = "family" /\ verdict # "none"
  /\ IF verdict = "err" THEN Ends("err") /\ UNCHANGED <<ei, ai, vars>>
     ELSE /\ ei' = ei + 1 /\ ai' = ai + 1 /\ main' = "merge"
          /\ Begin(0, 0, {}, {}) /\ UNCHANGED outcome
  /\ passed' = IF AllMatch THEN passed \cup {Want[ei]} ELSE passed
  /\ UNCHANGED <<data, fetched, checkVars>>

Merged ==
  /\ main = "merge" /\ ei > Len(Want)
  /\ Ends("nil")
  /\ UNCHANGED <<data, fetched, checkVars, ei, ai, searchVars>>

Caller ==
  \/ Send \/ Fetched \/ Spawn \/ Receive \/ Enough \/ Join
  \/ Merge \/ Compare \/ Compared \/ Merged

MetricsNext == Caller \/ \E k \in Check : StartCheck(k) \/ DoCheck(k)

\* The caller and every goroutine run; the service answers or refuses.
MetricsFairness ==
  /\ WF_metricsVars(Caller)
  /\ WF_metricsVars(\E k \in Check : StartCheck(k) \/ DoCheck(k))

MetricsSpec == MetricsInit /\ [][MetricsNext]_metricsVars /\ MetricsFairness

-----------------------------------------------------------------------------
\* The variables keep their types: the indices of the merge stay in the lists.
MetricsTypeOK ==
  /\ main \in {"fetch", "spawn", "poll", "join", "merge", "family", "done", "dead"}
  /\ fetched \in 0..capacity
  /\ check \in [Check -> {"none", "start", "check", "done"}]
  /\ ei \in 1..(Cardinality(plain) + 1) /\ ai \in 1..(Cardinality(actual) + 1)
  /\ passed \in SUBSET plain /\ TypeOK

\* The result of a check that is done is in the channel or counted, once, and
\* no goroutine of the checks outlives the wait for them.
ChecksAreCounted ==
  /\ main = "poll" =>
       Cardinality({k \in Check : check[k] = "done"}) = Len(errChan) + successes
  /\ main \in {"merge", "family", "done"} => \A k \in Check : check[k] \in {"none", "done"}

\* Both: the poll of the results neither loses nor repeats one, and no index of
\* the merge or of a search leaves its list.
Inv == MetricsTypeOK /\ ChecksAreCounted

\* Metrics that are accepted contain every expected family, of its type and
\* with a match for each of its metrics; and nothing in them is named as a
\* marked family forbids, though the goroutines may have looked at other
\* families: one that is not marked would have to be there, and its own name
\* would be found.  So each marked family was looked for, and is a regexp.
OkMeansHolds ==
  outcome = "nil" =>
    /\ marked \cap broken = {}
    /\ plain \subseteq passed \cap typed
    /\ \A m \in marked, a \in actual : <<m, a>> \notin hits

\* Metrics are refused for a reason: none arrived, nothing was expected, one
\* that was expected is not there, one that was forbidden is, or a family is
\* refused.
Refusable ==
  \/ fetched = 0 \/ plain \cup marked = {} \/ ~(plain \subseteq typed)
  \/ \E m \in marked, a \in actual : <<m, a>> \in hits
  \/ verdict = "err"

\* Without a forbidden family the merge refuses only for such a reason.
UnmarkedIsRight == outcome = "err" /\ marked = {} => Refusable

\* Where every expected metric of a family has a match the family is accepted,
\* however the two lists are ordered.
FamilyIsAccepted == (main = "family" /\ AllMatch) ~> verdict = "nil"

\* The fetch has filled the channel and there is more to send: nobody receives.
Overfull == main = "fetch" /\ fetched = capacity /\ capacity < Cardinality(actual)

\* The process has died of a family looked for that is no regexp.
Panicked == main = "dead" /\ marked # {} /\ broken # {}

\* A search that is not the first is for a metric that has no match.
Endless ==
  /\ main = "family" /\ expectedIndex \in ExpectedIndex \ ({0} \cup mistyped)
  /\ ~HasMatch(expectedIndex)

\* The call answers, whatever the service sends and the file expects, but in
\* three ways: more families than the channel has room for, a name that is no
\* regexp beside a marked one, and a later metric without a match.
AnswersOrSticks == <>(outcome # "none" \/ Overfull \/ Panicked \/ Endless)
=============================================================================

---------------------------- MODULE TracesAssert ----------------------------
(***************************************************************************)
(* internal/components/assert/trace_assert.go: doTracesAssert takes, for   *)
(* each expected trace in turn, the first actual trace that no other has   *)
(* taken and that spansAssert accepts.  A call of spansAssert is a run of  *)
(* SpanMatch over a relation of its own; its answer depends on the order   *)
(* its goroutines run in.                                                  *)
(***************************************************************************)
EXTENDS SpanMatch

CONSTANT MaxTraces   \* bound on the traces of a file

ASSUME TraceAssumption == MaxTraces \in Nat

VARIABLES
  expected,   \* number of expected traces, fixed
  actual,     \* number of actual traces, fixed
  i,          \* the expected trace searched for
  j,          \* the actual trace it is compared with
  calling,    \* spansAssert runs on the two
  err,        \* the err of findTrace
  taken,      \* the map `exist` of the traces: those that are taken
  found,      \* the actual trace each expected one was given, 0 for none
  sound,      \* history: the pairs with every expected span found
  answer      \* of doTracesAssert: "none", "nil", "err" or "panic"

files == <<expected, actual>>
search == <<i, j, err, taken, found>>
traceVars == <<vars, files, search, calling, sound, answer>>

Trace == 1..MaxTraces

TraceInit ==
  /\ Init /\ match = {}
  /\ expected \in 0..MaxTraces /\ actual \in 0..MaxTraces
  /\ i = 1 /\ j = 1 /\ calling = FALSE /\ err = FALSE
  /\ taken = {} /\ found = [e \in Trace |-> 0] /\ sound = {}
  /\ answer = "none"

-----------------------------------------------------------------------------
Searching == ~calling /\ expected > 0 /\ i <= expected /\ j <= actual

\* A trace that is taken is passed over.
Pass ==
  /\ Searching /\ j \in taken /\ j' = j + 1
  /\ UNCHANGED <<vars, files, i, err, taken, found, calling, sound, answer>>

\* The trace is refused: the error is kept, the search goes on.
RefuseTrace == err' = TRUE /\ j' = j + 1 /\ UNCHANGED <<i, taken, found, sound>>

\* Traces of unequal sizes are refused as they are.
Unequal ==
  /\ Searching /\ j \notin taken /\ RefuseTrace
  /\ UNCHANGED <<vars, files, calling, answer>>

\* The locals of spansAssert as it begins; they are gone when it has returned.
FreshSpans ==
  /\ pc' = [e \in Span |-> "look"] /\ cursor' = [e \in Span |-> 1]
  /\ lastErr' = [e \in Span |-> FALSE] /\ took' = [e \in Span |-> 0]
  /\ exist' = {} /\ errors' = {} /\ outcome' = "none"

\* spansAssert is called, whichever of the spans match.
Call ==
  /\ Searching /\ j \notin taken /\ calling' = TRUE
  /\ match' \in SUBSET (Span \X Span) /\ id' \in IdChoices /\ FreshSpans
  /\ UNCHANGED <<files, search, sound, answer>>

\* A step of its goroutines, or of the call waiting for them.
Goroutines == calling /\ Next /\ UNCHANGED <<files, search, calling, sound, answer>>

\* Fault: a trace is not marked as taken.
AcceptTrace_unmarked ==
  /\ found' = [found EXCEPT ![i] = j] /\ i' = i + 1 /\ j' = 1 /\ err' = FALSE
  /\ sound' = sound \cup {<<i, j>>}
  /\ UNCHANGED taken

\* It is accepted: the actual trace is taken, the next search starts over.
AcceptTrace ==
  /\ found' = [found EXCEPT ![i] = j] /\ taken' = taken \cup {j}
  /\ i' = i + 1 /\ j' = 1 /\ err' = FALSE
  /\ sound' = IF \A e \in Span : <<e, took[e]>> \in match
              THEN sound \cup {<<i, j>>} ELSE sound

\* The call returns, or has died in one of its goroutines.
Return ==
  /\ calling /\ calling' = FALSE
  /\ \/ /\ outcome \in {"nil", "err"}
        /\ IF outcome = "nil" THEN AcceptTrace ELSE RefuseTrace
        /\ match' = {} /\ FreshSpans /\ UNCHANGED <<id, answer>>
     \/ outcome = "panic" /\ answer' = "panic" /\ UNCHANGED <<vars, search, sound>>
  /\ UNCHANGED files

\* The search has failed: the last refusal is wrapped in an error.  When no
\* trace was left to compare with, err is nil and calling it panics.
TraceNotFound ==
  /\ ~calling /\ i <= expected /\ j > actual
  /\ answer' = IF err THEN "err" ELSE "panic"
  /\ UNCHANGED <<vars, files, search, calling, sound>>

TracesAnswer ==
  /\ ~calling /\ (expected = 0 \/ i > expected)
  /\ answer' = IF expected = 0 THEN "err" ELSE "nil"
  /\ UNCHANGED <<vars, files, search, calling, sound>>

TraceNext ==
  /\ answer = "none"
  /\ Pass \/ Unequal \/ Call \/ Goroutines \/ Return \/ TraceNotFound \/ TracesAnswer

\* The scheduler runs every goroutine and the caller behind them.
TraceSpec == TraceInit /\ [][TraceNext]_traceVars /\ WF_traceVars(TraceNext)

-----------------------------------------------------------------------------
\* Accepted files pair every expected trace with an actual one of its own, in
\* which each of its spans was found.
OkMeansPaired ==
  answer = "nil" =>
    /\ \A e \in 1..expected : <<e, found[e]>> \in sound
    /\ \A e, f \in 1..expected : found[e] = found[f] => e = f

\* The comparison of two files answers, or its process dies of a panic.
TracesAnswered == <>(answer # "none")
=============================================================================

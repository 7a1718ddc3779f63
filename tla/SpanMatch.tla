----------------------------- MODULE SpanMatch -----------------------------
(***************************************************************************)
(* internal/components/assert/trace_assert.go: spansAssert matches the     *)
(* spans of an expected trace with those of an actual one of the same      *)
(* size.  A goroutine per expected span takes the first actual span that   *)
(* is not taken and that it matches, by a Load and a later Store of the    *)
(* actual span's id in a shared sync.Map.  spanAssert is a given relation: *)
(* findSpansWithSameOperationName adds no handler to the contexts it       *)
(* asserts, so that it finds every span.                                   *)
(***************************************************************************)
EXTENDS Integers, FiniteSets, Functions

CONSTANTS N,          \* number of spans of each trace
          IdChoices   \* which ids the actual spans may have

ASSUME SpanAssumption == N \in Nat \ {0} /\ IdChoices \subseteq [1..N -> 1..N]

Span == 1..N

VARIABLES
  match,    \* the pairs <<expected, actual>> that spanAssert accepts, fixed
  id,       \* SpanID of each actual span, fixed
  pc,       \* where the goroutine of each expected span is
  cursor,   \* the actual span it looks at
  lastErr,  \* its err: an actual span was compared and refused
  took,     \* the actual span it found, 0 for none
  exist,    \* the ids in the shared map
  errors,   \* the goroutines whose error is in errChan
  outcome   \* of spansAssert: "none", "nil", "err" or "panic"

vars == <<match, id, pc, cursor, lastErr, took, exist, errors, outcome>>

Init ==
  /\ match \in SUBSET (Span \X Span) /\ id \in IdChoices
  /\ pc = [e \in Span |-> "look"] /\ cursor = [e \in Span |-> 1]
  /\ lastErr = [e \in Span |-> FALSE] /\ took = [e \in Span |-> 0]
  /\ exist = {} /\ errors = {} /\ outcome = "none"

-----------------------------------------------------------------------------
\* Fault: an actual span is marked before it is compared.
Look_marks_first(e) ==
  /\ pc[e] = "look" /\ cursor[e] \in Span
  /\ LET a == cursor[e] IN
     /\ exist' = exist \cup {id[a]}
     /\ pc' = [pc EXCEPT ![e] =
                 IF id[a] \notin exist /\ <<e, a>> \in match THEN "store" ELSE "look"]
     /\ cursor' = [cursor EXCEPT ![e] = IF pc'[e] = "store" THEN a ELSE a + 1]
     /\ lastErr' = [lastErr EXCEPT ![e] = @ \/ (id[a] \notin exist /\ pc'[e] = "look")]
  /\ UNCHANGED <<match, id, took, errors, outcome>>

\* Fault: the span after one that is refused is passed over.
Look_skips_next(e) ==
  /\ pc[e] = "look" /\ cursor[e] \in Span
  /\ LET a == cursor[e] IN
     IF id[a] \notin exist /\ <<e, a>> \in match
     THEN pc' = [pc EXCEPT ![e] = "store"] /\ UNCHANGED <<cursor, lastErr>>
     ELSE /\ cursor' = [cursor EXCEPT ![e] = a + 2]
          /\ lastErr' = [lastErr EXCEPT ![e] = @ \/ id[a] \notin exist]
          /\ UNCHANGED pc
  /\ UNCHANGED <<match, id, took, exist, errors, outcome>>

\* exist.Load, and when the id is not there the comparison.
Look(e) ==
  /\ pc[e] = "look" /\ cursor[e] \in Span
  /\ LET a == cursor[e] IN
     \/ /\ id[a] \notin exist /\ <<e, a>> \in match
        /\ pc' = [pc EXCEPT ![e] = "store"] /\ UNCHANGED <<cursor, lastErr>>
     \/ /\ id[a] \in exist \/ <<e, a>> \notin match
        /\ cursor' = [cursor EXCEPT ![e] = a + 1]
        /\ lastErr' = [lastErr EXCEPT ![e] = @ \/ id[a] \notin exist]
        /\ UNCHANGED pc
  /\ UNCHANGED <<match, id, took, exist, errors, outcome>>

\* exist.Store, after others may have loaded the same id.
Store(e) ==
  /\ pc[e] = "store" /\ pc' = [pc EXCEPT ![e] = "done"]
  /\ took' = [took EXCEPT ![e] = cursor[e]]
  /\ exist' = exist \cup {id[cursor[e]]}
  /\ UNCHANGED <<match, id, cursor, lastErr, errors, outcome>>

\* Fault: the error of a span that is not found is dropped.
NotFound_drops_error(e) ==
  /\ pc[e] = "look" /\ cursor[e] > N
  /\ pc' = [pc EXCEPT ![e] = "done"]
  /\ UNCHANGED <<match, id, cursor, lastErr, took, exist, errors, outcome>>

\* Fault: it leaves without wg.Done.
NotFound_without_done(e) ==
  /\ pc[e] = "look" /\ cursor[e] > N
  /\ pc' = [pc EXCEPT ![e] = "gone"] /\ errors' = errors \cup {e}
  /\ UNCHANGED <<match, id, cursor, lastErr, took, exist, outcome>>

\* No span is left: err.Error() is called on the last comparison's error.
\* Without any comparison err is nil, and the goroutine panics.
NotFound(e) ==
  /\ pc[e] = "look" /\ cursor[e] > N
  /\ pc' = [pc EXCEPT ![e] = "done"]
  /\ IF lastErr[e] THEN errors' = errors \cup {e} /\ UNCHANGED outcome
     ELSE outcome' = "panic" /\ UNCHANGED errors
  /\ UNCHANGED <<match, id, cursor, lastErr, took, exist>>

\* wg.Wait, then one error if there is any.
Answer ==
  /\ \A e \in Span : pc[e] = "done"
  /\ outcome' = IF errors = {} THEN "nil" ELSE "err"
  /\ UNCHANGED <<match, id, pc, cursor, lastErr, took, exist, errors>>

Next ==
  /\ outcome = "none"
  /\ Answer \/ \E e \in Span : Look(e) \/ Store(e) \/ NotFound(e)

\* The scheduler runs every goroutine and the caller behind them.
Spec == Init /\ [][Next]_vars /\ WF_vars(Next)

-----------------------------------------------------------------------------
\* The variables keep their types.
TypeOK ==
  /\ pc \in [Span -> {"look", "store", "done"}]
  /\ cursor \in [Span -> 1..(N + 1)] /\ took \in [Span -> 0..N]
  /\ lastErr \in [Span -> BOOLEAN]
  /\ exist \subseteq 1..N /\ errors \subseteq Span
  /\ outcome \in {"none", "nil", "err", "panic"}

\* The spans can be matched one to one.
Matching == \E f \in Injection(Span, Span) : \A e \in Span : <<e, f[e]>> \in match

\* No span is matched by two and none matches two.
Unambiguous ==
  \A p, q \in match : p[1] = q[1] \/ p[2] = q[2] => p = q

DistinctIds == \A a, b \in Span : id[a] = id[b] => a = b

\* An accepted trace has every expected span found in it, whatever the order
\* in which the goroutines took them.
OkMeansAllFound ==
  outcome = "nil" => \A e \in Span : <<e, took[e]>> \in match

\* Where no two spans compete the goroutines do not disturb one another: the
\* answer is the right one, in every interleaving.
UnambiguousIsRight ==
  Unambiguous /\ DistinctIds =>
    /\ outcome = "nil" => Matching
    /\ outcome = "err" => ~Matching

\* With distinct ids every goroutine that finds nothing has compared
\* something: the others cannot have taken all the spans, so that its error
\* is never nil.
NoPanic == DistinctIds => outcome # "panic"

\* README.md: the order of the spans does not matter; a trace whose spans can
\* be matched is accepted.
OrderDoesNotMatter == outcome = "err" => ~Matching
=============================================================================

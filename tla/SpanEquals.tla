----------------------------- MODULE SpanEquals -----------------------------
(***************************************************************************)
(* internal/components/assert/assert.go, and what the handlers of          *)
(* span_assert.go compare: the fields, tags and references of an expected  *)
(* span with those of an actual one.  The values of an expected span are   *)
(* expressions, an operator and an operand or a value to equal.  A string  *)
(* is the sequence of its words, "" is <<>>.  Left out: the caches of      *)
(* parsed expressions, which hold what parsing gives again; NaN; spaces    *)
(* that are trimmed; the logs of a span, which are not compared.           *)
(***************************************************************************)
EXTENDS Integers, Sequences, FiniteSets

CONSTANTS None,       \* nil
          Number,     \* what ParseFloat makes of the words that are numbers
          Env,        \* what ExpandEnv makes of the words that are variables
          Matching,   \* the pairs of a regular expression and a value it matches
          Malformed   \* the words that are no regular expressions

-----------------------------------------------------------------------------
(* Values: the outcome of a comparison is "ok", "err" or "panic".          *)

Operation ==
  {"noop", "eq", "ne", "ge", "gt", "le", "lt", "empty", "notEmpty", "regexp"}

\* Only an operator with exactly one operand has it: any other length makes
\* the operator its own operand, and an unknown one a value to equal.
ParseExpression(exp) ==
  IF exp = <<>> THEN [operation |-> "noop", value |-> <<>>]
  ELSE IF exp[1] \in Operation
  THEN [operation |-> exp[1], value |-> <<IF Len(exp) = 2 THEN exp[2] ELSE exp[1]>>]
  ELSE [operation |-> "eq", value |-> exp]

IsNumber(v) == Len(v) = 1 /\ v[1] \in DOMAIN Number
Numeric(v) == Number[v[1]]

Holds(operation, value, actual) ==
  CASE operation = "noop"     -> TRUE
    [] operation = "eq"       -> value = actual
    [] operation = "ne"       -> value # actual
    [] operation = "empty"    -> actual = <<>>
    [] operation = "notEmpty" -> actual # <<>>
    [] operation = "regexp"   -> <<value, actual>> \in Matching
    [] OTHER -> /\ IsNumber(value) /\ IsNumber(actual)
                /\ LET v == Numeric(value)  a == Numeric(actual) IN
                   CASE operation = "ge" -> a >= v
                     [] operation = "gt" -> a > v
                     [] operation = "le" -> a <= v
                     [] operation = "lt" -> a < v

\* MustCompile panics, when the expression is parsed.
ValueAssert(exp, actual) ==
  LET e == ParseExpression(exp) IN
  IF e.operation = "regexp" /\ e.value[1] \in Malformed THEN "panic"
  ELSE IF Holds(e.operation, e.value, actual) THEN "ok" ELSE "err"

-----------------------------------------------------------------------------
(* Spans: value[f] of a field, tags, and references, which may be nil.     *)

Field == {"SpanID", "Duration", "Flags", "OperationName", "StartTime", "ParentSpanID"}

\* A field the file leaves out is "", or the 0 of an IntOrString.
ZeroValue(f) == IF f \in {"Duration", "Flags", "StartTime"} THEN <<"0">> ELSE <<>>

\* A span as it is decoded: the values the file gives, its tags, its references.
Decode(value, tags, refs) ==
  [value |-> [f \in Field |-> IF f \in DOMAIN value THEN value[f] ELSE ZeroValue(f)],
   tags |-> tags, refs |-> refs]

ExpandEnv(v) == [n \in DOMAIN v |-> IF v[n] \in DOMAIN Env THEN Env[v[n]] ELSE v[n]]

TagOf(tags, k) == IF k \in DOMAIN tags THEN tags[k] ELSE <<>>

TagAssert(expected, actual, k) ==
  ValueAssert(IF k = "http.url" THEN ExpandEnv(expected[k]) ELSE expected[k],
              TagOf(actual, k))

\* Fault: the number of the tags is not compared.
TagsEquals_any_size(expected, actual) ==
  LET bad == {k \in DOMAIN expected : TagAssert(expected, actual, k) # "ok"} IN
  IF bad = {} THEN {"ok"} ELSE {TagAssert(expected, actual, k) : k \in bad}

\* The range over a map is in any order, and the first that is not ok decides.
TagsEquals(expected, actual) ==
  LET bad == {k \in DOMAIN expected : TagAssert(expected, actual, k) # "ok"} IN
  IF Cardinality(DOMAIN expected) # Cardinality(DOMAIN actual) THEN {"err"}
  ELSE IF bad = {} THEN {"ok"} ELSE {TagAssert(expected, actual, k) : k \in bad}

\* The first of the outcomes f[1..n] that is not `skipped`, else `skipped`.
FirstNot(skipped, f, n) ==
  LET at == {k \in 1..n : f[k] # skipped} IN
  IF at = {} THEN skipped ELSE f[CHOOSE k \in at : \A l \in at : k <= l]

SimpleReferenceEquals(expected, actual) ==
  FirstNot("ok", [k \in 1..3 |-> ValueAssert(expected[k], actual[k])], 3)

FindReference(expected, actual) ==
  FirstNot("err", [k \in DOMAIN actual |-> SimpleReferenceEquals(expected, actual[k])],
           Len(actual))

RefEquals(expected, actual) ==
  IF expected.nil THEN "ok"
  ELSE IF actual.nil \/ Len(expected.list) # Len(actual.list) THEN "err"
  ELSE FirstNot("ok", [k \in DOMAIN expected.list |->
                         FindReference(expected.list[k], actual.list)],
                Len(expected.list))

\* The handlers that spanAssert appends, in their order.
Handlers == <<"SpanID", "Duration", "Flags", "OperationName", "StartTime",
              "ParentSpanID", "Tags", "References">>

\* What a handler may answer.
Outcomes(h, expected, actual) ==
  IF expected = None \/ actual = None THEN {"panic"}
  ELSE CASE h = "Tags" -> TagsEquals(expected.tags, actual.tags)
         [] h = "References" -> {RefEquals(expected.refs, actual.refs)}
         [] OTHER -> {ValueAssert(expected.value[h], actual.value[h])}
=============================================================================

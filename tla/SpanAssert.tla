----------------------------- MODULE SpanAssert -----------------------------
(***************************************************************************)
(* internal/components/assert/span_assert.go: the goroutines of SpanMatch  *)
(* compare spans, each with a chain of handlers in a context that it takes *)
(* from a sync.Pool and gives back: the relation `match` of SpanMatch is   *)
(* what they answer.                                                       *)
(***************************************************************************)
EXTENDS SpanEquals

CONSTANTS Goroutine,     \* the goroutines that compare spans
          Context,       \* the contexts that may be allocated
          ExpectedSpan,  \* the spans of the expected file
          ActualSpan     \* the spans of the actual file

\* Tags are finite, and references lists of a type, a span id and a trace id.
ASSUME SpanAssertAssumption ==
  /\ None \notin Context \cup ExpectedSpan \cup ActualSpan
  /\ \A s \in ExpectedSpan \cup ActualSpan :
       IsFiniteSet(DOMAIN s.tags) /\ s.refs.list \in Seq([1..3 -> Seq(STRING)])

VARIABLES
  pc,        \* where each goroutine is
  pair,      \* the <<expected, actual>> spans of its call
  full,      \* the call is spanAssert, not the filter by operation name
  held,      \* the context of its call
  chain,     \* the handlers the loop ranges over
  n,         \* the handler it is at
  verdict,   \* of the call: "none", "nil", "err" or "panic"
  context,   \* the fields of each context
  pool,      \* the contexts in the pool
  crashed    \* a panic has ended the process

call == <<pair, full>>
vars == <<pc, call, held, chain, n, verdict, context, pool, crashed>>

Empty == [expected |-> None, actual |-> None, handlers |-> <<>>]

Init ==
  /\ pc = [g \in Goroutine |-> "idle"]
  /\ pair \in [Goroutine -> {<<None, None>>}] /\ full = [g \in Goroutine |-> FALSE]
  /\ held = [g \in Goroutine |-> None]
  /\ chain = [g \in Goroutine |-> <<>>] /\ n = [g \in Goroutine |-> 1]
  /\ verdict = [g \in Goroutine |-> "none"]
  /\ context = [c \in Context |-> Empty] /\ pool = {}
  /\ crashed = FALSE

Goto(g, from, to) == pc[g] = from /\ pc' = [pc EXCEPT ![g] = to]

-----------------------------------------------------------------------------
\* GetSpanAssert takes a context of the pool, or a new one, as the pool likes;
\* findSpansWithSameOperationName allocates one, and appends no handler.
Get(g) ==
  /\ Goto(g, "idle", "set")
  /\ \E e \in ExpectedSpan, a \in ActualSpan : pair' = [pair EXCEPT ![g] = <<e, a>>]
  /\ full' \in {[full EXCEPT ![g] = f] : f \in BOOLEAN}
  /\ \E c \in Context :
       /\ held' = [held EXCEPT ![g] = c]
       /\ \/ full'[g] /\ c \in pool /\ pool' = pool \ {c} /\ UNCHANGED context
          \/ /\ c \notin pool /\ \A h \in Goroutine : held[h] # c
             /\ context' = [context EXCEPT ![c] = Empty] /\ UNCHANGED pool
  /\ UNCHANGED <<chain, n, verdict, crashed>>

\* SetExpectedSpan and SetActualSpan.
SetSpans(g) ==
  /\ Goto(g, "set", IF full[g] THEN "append" ELSE "assert")
  /\ context' = [context EXCEPT ![held[g]].expected = pair[g][1],
                                ![held[g]].actual = pair[g][2]]
  /\ UNCHANGED <<call, held, chain, n, verdict, pool, crashed>>

\* Each assertX appends the handler that follows.
AppendHandler(g) ==
  /\ n[g] <= Len(Handlers)
  /\ Goto(g, "append", IF n[g] = Len(Handlers) THEN "assert" ELSE "append")
  /\ n' = [n EXCEPT ![g] = @ + 1]
  /\ context' = [context EXCEPT ![held[g]].handlers = Append(@, Handlers[n[g]])]
  /\ UNCHANGED <<call, held, chain, verdict, pool, crashed>>

\* assert: the range is over the handlers as they are when the loop begins.
BeginLoop(g) ==
  /\ Goto(g, "assert", "loop")
  /\ chain' = [chain EXCEPT ![g] = context[held[g]].handlers]
  /\ n' = [n EXCEPT ![g] = 1]
  /\ UNCHANGED <<call, held, verdict, context, pool, crashed>>

\* A handler answers: the loop goes on, or the function is left.
Handle(g) ==
  /\ n[g] <= Len(chain[g]) /\ pc[g] = "loop"
  /\ \E o \in Outcomes(chain[g][n[g]], context[held[g]].expected, context[held[g]].actual) :
       IF o = "ok" THEN n' = [n EXCEPT ![g] = @ + 1] /\ UNCHANGED <<pc, verdict>>
       ELSE /\ pc' = [pc EXCEPT ![g] = "reset"]
            /\ verdict' = [verdict EXCEPT ![g] = o] /\ UNCHANGED n
  /\ UNCHANGED <<call, held, chain, context, pool, crashed>>

Passed(g) ==
  /\ n[g] > Len(chain[g]) /\ Goto(g, "loop", "reset")
  /\ verdict' = [verdict EXCEPT ![g] = "nil"]
  /\ UNCHANGED <<call, held, chain, n, context, pool, crashed>>

\* Fault: the handlers are kept by the reset.
Reset_keeps_handlers(g) ==
  /\ Goto(g, "reset", "put")
  /\ context' = [context EXCEPT ![held[g]].expected = None, ![held[g]].actual = None]
  /\ UNCHANGED <<call, held, chain, n, verdict, pool, crashed>>

\* reset empties the context ...
Reset(g) ==
  /\ Goto(g, "reset", "put")
  /\ context' = [context EXCEPT ![held[g]] = Empty]
  /\ UNCHANGED <<call, held, chain, n, verdict, pool, crashed>>

Forget(g) ==
  /\ held' = [held EXCEPT ![g] = None] /\ pair' = [pair EXCEPT ![g] = <<None, None>>]
  /\ full' = [full EXCEPT ![g] = FALSE] /\ verdict' = [verdict EXCEPT ![g] = "none"]
  /\ n' = [n EXCEPT ![g] = 1] /\ chain' = [chain EXCEPT ![g] = <<>>]
  /\ crashed' = (verdict[g] = "panic")

\* ... and Put gives it back.  A panic goes on: nothing recovers it in the
\* goroutines of spansAssert.
Put(g) ==
  /\ Goto(g, "put", "idle") /\ pool' = pool \cup {held[g]}
  /\ Forget(g) /\ UNCHANGED context

\* Fault: the context is in the pool before it is reset.
Deferred_puts_first(g) ==
  \/ /\ Goto(g, "reset", "put") /\ pool' = pool \cup {held[g]}
     /\ UNCHANGED <<call, held, chain, n, verdict, context, crashed>>
  \/ /\ Goto(g, "put", "idle") /\ context' = [context EXCEPT ![held[g]] = Empty]
     /\ Forget(g) /\ UNCHANGED pool

\* The deferred function of assert, run by a panic of a handler too.
Deferred(g) == Reset(g) \/ Put(g)

\* The pool drops a context when it likes, to the garbage collector.
Drop ==
  /\ \E c \in pool : pool' = pool \ {c}
  /\ UNCHANGED <<pc, call, held, chain, n, verdict, context, crashed>>

Next ==
  /\ ~crashed
  /\ \/ Drop
     \/ \E g \in Goroutine :
          \/ Get(g) \/ SetSpans(g) \/ AppendHandler(g) \/ BeginLoop(g)
          \/ Handle(g) \/ Passed(g) \/ Deferred(g)

Spec == Init /\ [][Next]_vars

-----------------------------------------------------------------------------
\* The variables keep their types.
TypeOK ==
  /\ pc \in [Goroutine -> {"idle", "set", "append", "assert", "loop", "reset", "put"}]
  /\ pair \in [Goroutine -> (ExpectedSpan \X ActualSpan) \cup {<<None, None>>}]
  /\ full \in [Goroutine -> BOOLEAN] /\ held \in [Goroutine -> Context \cup {None}]
  /\ n \in [Goroutine -> 1..(Len(Handlers) + 1)]
  /\ verdict \in [Goroutine -> {"none", "nil", "err", "panic"}]
  /\ pool \subseteq Context /\ crashed \in BOOLEAN

\* No context is used by two goroutines, or by one while it is in the pool,
\* and what is in the pool has been reset.
ContextsAreOwned ==
  /\ \A g, h \in Goroutine : held[g] = held[h] /\ held[g] # None => g = h
  /\ \A g \in Goroutine : held[g] \notin pool
  /\ \A c \in pool : context[c] = Empty

\* The handlers the call of g appends in all.
Chain(g) == IF full[g] THEN Handlers ELSE <<>>

\* What a goroutine finds in its context is what it has put there.
CallIsPrivate(g) ==
  IF pc[g] = "idle" THEN held[g] = None /\ n[g] = 1
  ELSE /\ held[g] \in Context
       /\ LET c == context[held[g]] IN
          /\ pc[g] \in {"set", "put"} => c = Empty
          /\ pc[g] \notin {"set", "put"} => <<c.expected, c.actual>> = pair[g]
          /\ pc[g] = "append" => c.handlers = SubSeq(Handlers, 1, n[g] - 1)
          /\ pc[g] \in {"assert", "loop", "reset"} => c.handlers = Chain(g)

\* All of it: calls that share a pool do not share anything else.
Inv == TypeOK /\ ContextsAreOwned /\ \A g \in Goroutine : CallIsPrivate(g)

\* A comparison answers for its own two spans, whatever the contexts were used
\* for before: nil exactly when every handler accepts them, in the filter, of
\* no handlers, always.
VerdictIsOwn ==
  \A g \in Goroutine :
    LET Passes(h) == Outcomes(h, pair[g][1], pair[g][2]) = {"ok"} IN
    /\ verdict[g] = "nil" => \A k \in DOMAIN Chain(g) : Passes(Chain(g)[k])
    /\ verdict[g] \in {"err", "panic"} =>
         \E k \in DOMAIN Chain(g) : verdict[g] \in Outcomes(Chain(g)[k], pair[g][1], pair[g][2])

\* The tags agree: unless an expected one accepts "", which is also what a tag
\* that is not there reads as, the two have the same keys.
TagsAgree(expected, actual) ==
  (\A k \in DOMAIN expected.tags : TagAssert(expected.tags, <<>>, k) # "ok") =>
    DOMAIN expected.tags = DOMAIN actual.tags

\* The references agree: unless two expected ones accept one actual reference,
\* they correspond one to one.
RefsAgree(expected, actual) ==
  LET R == DOMAIN expected.refs.list
      Accepts(k, l) ==
        SimpleReferenceEquals(expected.refs.list[k], actual.refs.list[l]) = "ok"
  IN  (~expected.refs.nil /\ \A l \in R : \A j, k \in R : Accepts(j, l) /\ Accepts(k, l) => j = k) =>
        \E f \in [R -> DOMAIN actual.refs.list] :
          /\ \A k \in R : Accepts(k, f[k])
          /\ \A l \in DOMAIN actual.refs.list : \E k \in R : f[k] = l

\* A span that is accepted has no tag and no reference too many.
AcceptedAgrees ==
  \A g \in Goroutine : full[g] /\ verdict[g] = "nil" =>
    TagsAgree(pair[g][1], pair[g][2]) /\ RefsAgree(pair[g][1], pair[g][2])
=============================================================================

------------------------- MODULE SpanAssert_proofs -------------------------
(***************************************************************************)
(* Proofs about SpanAssert: for any number of goroutines, contexts and     *)
(* spans, the calls that share the pool do not share anything else, and a  *)
(* comparison answers for its own two spans.                               *)
(***************************************************************************)
EXTENDS SpanAssert, SequenceTheorems, FiniteSetTheorems, WellFoundedInduction, TLAPS

Answers == {"ok", "err", "panic"}

\* A non-empty set of numbers has a least one.
LEMMA Least ==
  ASSUME NEW S \in SUBSET Nat, S # {}
  PROVE  \E k \in S : \A l \in S : k <= l
<1>1. PICK k \in S : \A l \in S : ~(<<l, k>> \in OpToRel(<, Nat))
  BY NatLessThanWellFounded, WFMin
<1>2. \A l \in S : ~(l < k)
  <2>. SUFFICES ASSUME NEW l \in S, l < k PROVE FALSE
    OBVIOUS
  <2>1. <<l, k>> \in Nat \X Nat /\ <<l, k>>[1] < <<l, k>>[2]
    OBVIOUS
  <2>. QED
    BY <1>1, <2>1, Zenon DEF OpToRel
<1>. QED
  BY <1>2

\* FirstNot is `skipped` or one of the outcomes.
LEMMA FirstNotIs ==
  ASSUME NEW skipped, NEW f, NEW len \in Nat
  PROVE  FirstNot(skipped, f, len) = skipped \/ \E k \in 1..len : FirstNot(skipped, f, len) = f[k]
<1>. DEFINE S == {k \in 1..len : f[k] # skipped}
            least == CHOOSE k \in S : \A l \in S : k <= l
<1>1. CASE S = {}
  BY <1>1 DEF FirstNot
<1>2. CASE S # {}
  <2>1. \E k \in S : \A l \in S : k <= l
    <3>1. S \in SUBSET Nat
      OBVIOUS
    <3>. HIDE DEF S
    <3>. QED
      BY <1>2, <3>1, Least
  <2>2. least \in S
    BY <2>1, Zenon
  <2>3. FirstNot(skipped, f, len) = f[least]
    BY <1>2 DEF FirstNot
  <2>. QED
    BY <2>2, <2>3
<1>. QED
  BY <1>1, <1>2

\* A value is compared with one of three outcomes.
LEMMA ValueAnswers == \A exp, actual : ValueAssert(exp, actual) \in Answers
BY Zenon DEF ValueAssert, Answers

\* So is a reference, in a list of references, and a list of them.
LEMMA ReferenceAnswers == \A e, a : SimpleReferenceEquals(e, a) \in Answers
<1>. SUFFICES ASSUME NEW e, NEW a PROVE SimpleReferenceEquals(e, a) \in Answers
  OBVIOUS
<1>. DEFINE f == [k \in 1..3 |-> ValueAssert(e[k], a[k])]
<1>1. \A k \in 1..3 : f[k] \in Answers
  BY ValueAnswers, Zenon
<1>. HIDE DEF f
<1>2. FirstNot("ok", f, 3) \in Answers
  BY <1>1, FirstNotIs DEF Answers
<1>. QED
  BY <1>2, Zenon DEF SimpleReferenceEquals, f

LEMMA FindAnswers ==
  ASSUME NEW S, NEW list \in Seq(S), NEW e PROVE FindReference(e, list) \in Answers
<1>. DEFINE f == [k \in DOMAIN list |-> SimpleReferenceEquals(e, list[k])]
<1>1. \A k \in 1..Len(list) : f[k] \in Answers
  BY ReferenceAnswers
<1>. HIDE DEF f
<1>2. FirstNot("err", f, Len(list)) \in Answers
  BY <1>1, FirstNotIs, LenProperties DEF Answers
<1>. QED
  BY <1>2, Zenon DEF FindReference, f

LEMMA RefsAnswer ==
  ASSUME NEW S, NEW e, NEW a, e.list \in Seq(S), a.list \in Seq(S)
  PROVE  RefEquals(e, a) \in Answers
<1>. DEFINE f == [k \in DOMAIN e.list |-> FindReference(e.list[k], a.list)]
<1>1. \A k \in 1..Len(e.list) : f[k] \in Answers
  BY FindAnswers
<1>. HIDE DEF f
<1>2. FirstNot("ok", f, Len(e.list)) \in Answers
  BY <1>1, FirstNotIs, LenProperties DEF Answers
<1>3. RefEquals(e, a) \in {"ok", "err", FirstNot("ok", f, Len(e.list))}
  BY Zenon DEF RefEquals, f
<1>. QED
  BY <1>2, <1>3 DEF Answers

\* A handler has one of the three outcomes; where it may accept it accepts:
\* the order of the tags decides only how it refuses.
LEMMA HandlerAnswers ==
  ASSUME NEW h, NEW e \in ExpectedSpan, NEW a \in ActualSpan
  PROVE  /\ Outcomes(h, e, a) \subseteq Answers
         /\ "ok" \in Outcomes(h, e, a) => Outcomes(h, e, a) = {"ok"}
<1>1. e # None /\ a # None
  BY SpanAssertAssumption DEF SpanAssertAssumption
<1>2. CASE h = "Tags"
  <2>. DEFINE bad == {k \in DOMAIN e.tags : TagAssert(e.tags, a.tags, k) # "ok"}
              refusals == {TagAssert(e.tags, a.tags, k) : k \in bad}
  <2>1. \A k : TagAssert(e.tags, a.tags, k) \in Answers
    BY ValueAnswers, Zenon DEF TagAssert
  <2>2. refusals \subseteq Answers /\ "ok" \notin refusals
    BY <2>1
  <2>3. TagsEquals(e.tags, a.tags) \in {{"err"}, {"ok"}, refusals}
    BY Zenon DEF TagsEquals
  <2>4. Outcomes(h, e, a) = TagsEquals(e.tags, a.tags)
    BY <1>1, <1>2 DEF Outcomes
  <2>. HIDE DEF refusals
  <2>. QED
    BY <2>2, <2>3, <2>4 DEF Answers
<1>3. CASE h = "References"
  <2>1. RefEquals(e.refs, a.refs) \in Answers
    BY RefsAnswer, SpanAssertAssumption DEF SpanAssertAssumption
  <2>. QED
    BY <1>1, <1>3, <2>1 DEF Outcomes
<1>4. CASE h \notin {"Tags", "References"}
  <2>1. Outcomes(h, e, a) = {ValueAssert(e.value[h], a.value[h])}
    BY <1>1, <1>4 DEF Outcomes
  <2>. QED
    BY <2>1, ValueAnswers
<1>. QED
  BY <1>2, <1>3, <1>4

-----------------------------------------------------------------------------
HandlerName == {"SpanID", "Duration", "Flags", "OperationName", "StartTime",
                "ParentSpanID", "Tags", "References"}

\* A context holds spans, or nothing, and handlers; a loop ranges over these.
ContextTypes ==
  /\ context \in [Context -> [expected : ExpectedSpan \cup {None},
                              actual : ActualSpan \cup {None},
                              handlers : Seq(HandlerName)]]
  /\ chain \in [Goroutine -> Seq(HandlerName)]

\* An empty context is one.
LEMMA EmptyTypes ==
  Empty \in [expected : ExpectedSpan \cup {None}, actual : ActualSpan \cup {None},
             handlers : Seq(HandlerName)]
BY DEF Empty

\* The types of a call, where it is, and what its loop has found so far.
Progress(g) ==
  /\ pc[g] = "idle" => pair[g] = <<None, None>>
  /\ pc[g] # "idle" => pair[g] \in ExpectedSpan \X ActualSpan
  /\ pc[g] = "set" => n[g] = 1
  /\ pc[g] = "append" => full[g] /\ n[g] <= Len(Handlers)
  /\ pc[g] \notin {"reset", "put"} => verdict[g] = "none"
  /\ pc[g] = "loop" =>
       /\ chain[g] = Chain(g)
       /\ \A k \in 1..(n[g] - 1) : Outcomes(Chain(g)[k], pair[g][1], pair[g][2]) = {"ok"}

\* VerdictIsOwn, of one call.
Own(g) ==
  LET Passes(h) == Outcomes(h, pair[g][1], pair[g][2]) = {"ok"} IN
  /\ verdict[g] = "nil" => \A k \in DOMAIN Chain(g) : Passes(Chain(g)[k])
  /\ verdict[g] \in {"err", "panic"} =>
       \E k \in DOMAIN Chain(g) : verdict[g] \in Outcomes(Chain(g)[k], pair[g][1], pair[g][2])

CallInv(g) == CallIsPrivate(g) /\ Progress(g) /\ Own(g)

\* The inductive invariant.
SpanInv == TypeOK /\ ContextTypes /\ ContextsAreOwned /\ \A g \in Goroutine : CallInv(g)

\* The chain of eight handlers, and how it grows.
LEMMA HandlersFacts ==
  /\ Handlers \in Seq(HandlerName) /\ Len(Handlers) = 8
  /\ \A k \in 1..8 : SubSeq(Handlers, 1, k - 1) \in Seq(HandlerName)
  /\ SubSeq(Handlers, 1, 0) = <<>>
  /\ SubSeq(Handlers, 1, 8) = Handlers
  /\ \A k \in 1..8 : Append(SubSeq(Handlers, 1, k - 1), Handlers[k]) = SubSeq(Handlers, 1, k)
<1>1. Handlers \in Seq(HandlerName) /\ Len(Handlers) = 8
  BY DEF Handlers, HandlerName
<1>2. \A k \in 1..8 : Handlers[k] \in HandlerName
  BY <1>1, LenProperties
<1>. HIDE DEF Handlers
<1>3. ASSUME NEW k \in 0..8
      PROVE  /\ SubSeq(Handlers, 1, k) \in Seq(HandlerName) /\ Len(SubSeq(Handlers, 1, k)) = k
             /\ \A i \in 1..k : SubSeq(Handlers, 1, k)[i] = Handlers[i]
  <2>1. \A i \in 1..k : Handlers[i] \in HandlerName
    BY <1>2
  <2>2. /\ SubSeq(Handlers, 1, k) \in Seq(HandlerName)
        /\ Len(SubSeq(Handlers, 1, k)) = IF 1 <= k THEN k - 1 + 1 ELSE 0
        /\ \A i \in 1..(k - 1 + 1) : SubSeq(Handlers, 1, k)[i] = Handlers[1 + i - 1]
    BY <2>1, SubSeqProperties
  <2>. QED
    BY <2>2
<1>4. SubSeq(Handlers, 1, 0) = <<>>
  BY SubSeqEmpty
<1>5. SubSeq(Handlers, 1, 8) = Handlers
  BY <1>1, SubSeqFull
<1>6. ASSUME NEW k \in 1..8
      PROVE  Append(SubSeq(Handlers, 1, k - 1), Handlers[k]) = SubSeq(Handlers, 1, k)
  <2>. DEFINE s == SubSeq(Handlers, 1, k - 1)
              t == SubSeq(Handlers, 1, k)
  <2>1. s \in Seq(HandlerName) /\ Len(s) = k - 1 /\ \A i \in 1..(k - 1) : s[i] = Handlers[i]
    BY <1>3
  <2>2. t \in Seq(HandlerName) /\ Len(t) = k /\ \A i \in 1..k : t[i] = Handlers[i]
    BY <1>3
  <2>. HIDE DEF s, t
  <2>3. /\ Append(s, Handlers[k]) \in Seq(HandlerName)
        /\ Len(Append(s, Handlers[k])) = Len(s) + 1
        /\ \A i \in 1..Len(s) : Append(s, Handlers[k])[i] = s[i]
        /\ Append(s, Handlers[k])[Len(s) + 1] = Handlers[k]
    BY <1>2, <2>1, AppendProperties
  <2>4. \A i \in 1..k : Append(s, Handlers[k])[i] = t[i]
    BY <2>1, <2>2, <2>3
  <2>5. Append(s, Handlers[k]) = t
    BY <2>1, <2>2, <2>3, <2>4, SeqEqual
  <2>. QED
    BY <2>5 DEF s, t
<1>7. \A k \in 1..8 : SubSeq(Handlers, 1, k - 1) \in Seq(HandlerName)
  BY <1>3
<1>. QED
  BY <1>1, <1>4, <1>5, <1>6, <1>7

\* What a call knows stays true while its own variables and its context stay.
LEMMA OthersStay ==
  ASSUME NEW h \in Goroutine, CallInv(h),
         pc'[h] = pc[h], pair'[h] = pair[h], full'[h] = full[h], held'[h] = held[h],
         chain'[h] = chain[h], n'[h] = n[h], verdict'[h] = verdict[h],
         pc[h] # "idle" => context'[held[h]] = context[held[h]]
  PROVE  CallInv(h)'
<1>1. CallIsPrivate(h)'
  BY Zenon DEF CallInv, CallIsPrivate, Chain
<1>2. Progress(h)'
  BY Zenon DEF CallInv, Progress, Chain
<1>3. Own(h)'
  BY Zenon DEF CallInv, Own, Chain
<1>. QED
  BY <1>1, <1>2, <1>3 DEF CallInv

\* A step of the call of g changes nothing of the others, and no context but c.
OnlyCall(g) ==
  \A h \in Goroutine \ {g} :
    /\ pc'[h] = pc[h] /\ pair'[h] = pair[h] /\ full'[h] = full[h] /\ held'[h] = held[h]
    /\ chain'[h] = chain[h] /\ n'[h] = n[h] /\ verdict'[h] = verdict[h]
OnlyContext(c) == \A d \in Context \ {c} : context'[d] = context[d]

\* Then what the others know stays true, if c is not the context of one.
LEMMA OthersKnow ==
  ASSUME SpanInv, NEW g \in Goroutine, NEW c, OnlyCall(g), OnlyContext(c),
         \A h \in Goroutine \ {g} : held[h] # c
  PROVE  \A h \in Goroutine \ {g} : CallInv(h)'
<1>. SUFFICES ASSUME NEW h \in Goroutine \ {g} PROVE CallInv(h)'
  OBVIOUS
<1>1. CallInv(h)
  BY DEF SpanInv
<1>2. pc[h] # "idle" => held[h] \in Context
  BY <1>1 DEF CallInv, CallIsPrivate
<1>3. pc[h] # "idle" => context'[held[h]] = context[held[h]]
  BY <1>2 DEF OnlyContext
<1>. QED
  BY <1>1, <1>3, OthersStay, Zenon DEF OnlyCall

\* A call that is under way is the only one with its context, which is a
\* context outside the pool.
LEMMA HeldFacts ==
  ASSUME SpanInv, NEW g \in Goroutine, pc[g] # "idle"
  PROVE  /\ held[g] \in Context /\ held[g] # None /\ held[g] \notin pool
         /\ \A h \in Goroutine \ {g} : held[h] # held[g]
         /\ pair[g][1] \in ExpectedSpan /\ pair[g][2] \in ActualSpan
<1>1. CallInv(g) /\ ContextsAreOwned
  BY DEF SpanInv
<1>2. held[g] \in Context
  BY <1>1 DEF CallInv, CallIsPrivate
<1>3. held[g] # None
  BY <1>2, SpanAssertAssumption DEF SpanAssertAssumption
<1>4. held[g] \notin pool
  BY <1>1 DEF ContextsAreOwned
<1>5. \A h \in Goroutine \ {g} : held[h] # held[g]
  BY <1>1, <1>3, Zenon DEF ContextsAreOwned
<1>6. pair[g] \in ExpectedSpan \X ActualSpan
  BY <1>1 DEF CallInv, Progress
<1>. QED
  BY <1>2, <1>3, <1>4, <1>5, <1>6

\* At the start nobody holds a context.
LEMMA SpanInit == Init => SpanInv
<1>. SUFFICES ASSUME Init PROVE SpanInv
  OBVIOUS
<1>1. TypeOK
  <2>1. pair \in [Goroutine -> (ExpectedSpan \X ActualSpan) \cup {<<None, None>>}]
    BY DEF Init
  <2>2. 1 \in 1..(Len(Handlers) + 1)
    BY HandlersFacts
  <2>3. n \in [Goroutine -> 1..(Len(Handlers) + 1)]
    BY <2>2, Zenon DEF Init
  <2>4. crashed \in BOOLEAN /\ full \in [Goroutine -> BOOLEAN]
    BY DEF Init
  <2>. QED
    BY <2>1, <2>3, <2>4 DEF Init, TypeOK
<1>2. ContextTypes
  <2>1. <<>> \in Seq(HandlerName)
    OBVIOUS
  <2>. QED
    BY <2>1, EmptyTypes, Zenon DEF Init, ContextTypes
<1>3. ContextsAreOwned
  BY DEF Init, ContextsAreOwned
<1>4. ASSUME NEW g \in Goroutine PROVE CallInv(g)
  <2>1. /\ pc[g] = "idle" /\ pair[g] = <<None, None>> /\ held[g] = None
        /\ n[g] = 1 /\ verdict[g] = "none"
    BY DEF Init
  <2>. QED
    BY <2>1 DEF CallInv, CallIsPrivate, Progress, Own
<1>. QED
  BY <1>1, <1>2, <1>3, <1>4 DEF SpanInv

\* A call begins with a context of the pool, or with one that is new; both are
\* empty and of no other call.
LEMMA GetInv == ASSUME SpanInv, NEW g \in Goroutine, Get(g) PROVE SpanInv'
<1>0. TypeOK /\ ContextTypes /\ ContextsAreOwned /\ CallInv(g)
  BY DEF SpanInv
<1>1. pc[g] = "idle" /\ pc' = [pc EXCEPT ![g] = "set"]
  BY DEF Get, Goto
<1>2. n[g] = 1 /\ held[g] = None /\ verdict[g] = "none"
  BY <1>0, <1>1 DEF CallInv, CallIsPrivate, Progress
<1>3. PICK e \in ExpectedSpan, a \in ActualSpan : pair' = [pair EXCEPT ![g] = <<e, a>>]
  BY DEF Get
<1>4. PICK f \in BOOLEAN : full' = [full EXCEPT ![g] = f]
  BY DEF Get
<1>5. PICK c \in Context :
        /\ held' = [held EXCEPT ![g] = c]
        /\ \/ c \in pool /\ pool' = pool \ {c} /\ context' = context
           \/ /\ c \notin pool /\ \A h \in Goroutine : held[h] # c
              /\ context' = [context EXCEPT ![c] = Empty] /\ pool' = pool
  BY DEF Get
<1>6. chain' = chain /\ n' = n /\ verdict' = verdict /\ crashed' = crashed
  BY DEF Get
<1>7. c # None
  BY SpanAssertAssumption DEF SpanAssertAssumption
<1>8. \A h \in Goroutine : held[h] # c
  BY <1>0, <1>5 DEF ContextsAreOwned
<1>9. context'[c] = Empty
  BY <1>0, <1>5, Zenon DEF ContextsAreOwned, ContextTypes
<1>16. ContextTypes'
  BY <1>0, <1>5, <1>6, EmptyTypes, Zenon DEF ContextTypes
<1>10. /\ pc'[g] = "set" /\ pair'[g] = <<e, a>> /\ full'[g] = f /\ held'[g] = c
       /\ n'[g] = 1 /\ verdict'[g] = "none"
  BY <1>0, <1>1, <1>2, <1>3, <1>4, <1>5, <1>6 DEF TypeOK
<1>11. OnlyCall(g) /\ OnlyContext(c)
  BY <1>0, <1>1, <1>3, <1>4, <1>5, <1>6 DEF TypeOK, ContextTypes, OnlyCall, OnlyContext
<1>12. \A h \in Goroutine \ {g} : CallInv(h)'
  BY <1>8, <1>11, OthersKnow
<1>13. CallInv(g)'
  BY <1>9, <1>10 DEF CallInv, CallIsPrivate, Progress, Own, Empty
<1>14. ContextsAreOwned'
  <2>1. \A h, k \in Goroutine : held'[h] = held'[k] /\ held'[h] # None => h = k
    BY <1>0, <1>5, <1>8 DEF TypeOK, ContextsAreOwned
  <2>2. \A h \in Goroutine : held'[h] \notin pool'
    BY <1>0, <1>5, <1>8 DEF TypeOK, ContextsAreOwned
  <2>3. \A d \in pool' : context'[d] = Empty
    BY <1>0, <1>5, <1>9 DEF TypeOK, ContextTypes, ContextsAreOwned
  <2>. QED
    BY <2>1, <2>2, <2>3 DEF ContextsAreOwned
<1>15. TypeOK'
  BY <1>0, <1>1, <1>3, <1>4, <1>5, <1>6 DEF TypeOK
<1>. QED
  BY <1>12, <1>13, <1>14, <1>15, <1>16 DEF SpanInv

\* A step inside a call leaves the contexts owned as they are, if it changes
\* none but its own.
LEMMA StillOwned ==
  ASSUME SpanInv, NEW g \in Goroutine, pc[g] # "idle",
         held' = held, pool' = pool, OnlyContext(held[g])
  PROVE  ContextsAreOwned'
<1>1. pool \subseteq Context /\ ContextsAreOwned
  BY DEF SpanInv, TypeOK
<1>2. \A c \in pool : c # held[g]
  BY HeldFacts
<1>3. \A c \in pool : context'[c] = context[c]
  BY <1>1, <1>2 DEF OnlyContext
<1>. QED
  BY <1>1, <1>3 DEF ContextsAreOwned

\* The spans of the call are set in its context.
LEMMA SetSpansInv == ASSUME SpanInv, NEW g \in Goroutine, SetSpans(g) PROVE SpanInv'
<1>0. TypeOK /\ ContextTypes /\ CallInv(g)
  BY DEF SpanInv
<1>. DEFINE c == held[g]
            next == IF full[g] THEN "append" ELSE "assert"
<1>1. pc[g] = "set" /\ pc' = [pc EXCEPT ![g] = next]
  BY DEF SetSpans, Goto
<1>2. /\ pair' = pair /\ full' = full /\ held' = held /\ chain' = chain /\ n' = n
      /\ verdict' = verdict /\ pool' = pool /\ crashed' = crashed
  BY DEF SetSpans, call
<1>3. /\ c \in Context /\ \A h \in Goroutine \ {g} : held[h] # c
      /\ pair[g][1] \in ExpectedSpan /\ pair[g][2] \in ActualSpan
  BY <1>1, HeldFacts
<1>4. context[c] = Empty /\ n[g] = 1 /\ verdict[g] = "none"
  BY <1>0, <1>1 DEF CallInv, CallIsPrivate, Progress
<1>5. context' = [context EXCEPT ![c].expected = pair[g][1], ![c].actual = pair[g][2]]
  BY DEF SetSpans
<1>6. context'[c] = [expected |-> pair[g][1], actual |-> pair[g][2], handlers |-> <<>>]
  <2>1. context'[c] = [[Empty EXCEPT !.expected = pair[g][1]] EXCEPT !.actual = pair[g][2]]
    BY <1>0, <1>3, <1>4, <1>5, Zenon DEF ContextTypes
  <2>. QED
    BY <2>1 DEF Empty
<1>7. OnlyContext(c) /\ ContextTypes'
  BY <1>0, <1>2, <1>3, <1>5 DEF ContextTypes, OnlyContext
<1>8. pc'[g] = next
  BY <1>0, <1>1 DEF TypeOK
<1>9. OnlyCall(g)
  BY <1>0, <1>1, <1>2 DEF TypeOK, OnlyCall
<1>10. \A h \in Goroutine \ {g} : CallInv(h)'
  BY <1>3, <1>7, <1>9, OthersKnow
<1>11. CallInv(g)'
  <2>1. pair[g] = <<pair[g][1], pair[g][2]>> /\ pair[g] \in ExpectedSpan \X ActualSpan
    BY <1>0, <1>1 DEF CallInv, Progress
  <2>2. CallIsPrivate(g)'
    BY <1>2, <1>3, <1>4, <1>6, <1>8, <2>1, HandlersFacts DEF CallIsPrivate, Chain
  <2>3. Progress(g)'
    BY <1>2, <1>4, <1>8, <2>1, HandlersFacts DEF Progress
  <2>4. Own(g)'
    BY <1>2, <1>4 DEF Own
  <2>. QED
    BY <2>2, <2>3, <2>4 DEF CallInv
<1>12. ContextsAreOwned'
  BY <1>1, <1>2, <1>7, StillOwned
<1>13. TypeOK'
  BY <1>0, <1>1, <1>2 DEF TypeOK
<1>. QED
  BY <1>7, <1>10, <1>11, <1>12, <1>13 DEF SpanInv

\* The chain of the call grows by the handler that is next.
LEMMA AppendInv == ASSUME SpanInv, NEW g \in Goroutine, AppendHandler(g) PROVE SpanInv'
<1>0. TypeOK /\ ContextTypes /\ CallInv(g)
  BY DEF SpanInv
<1>. DEFINE c == held[g]
            next == IF n[g] = Len(Handlers) THEN "assert" ELSE "append"
            longer == Append(context[c].handlers, Handlers[n[g]])
<1>1. pc[g] = "append" /\ pc' = [pc EXCEPT ![g] = next] /\ n' = [n EXCEPT ![g] = @ + 1]
  BY DEF AppendHandler, Goto
<1>2. /\ pair' = pair /\ full' = full /\ held' = held /\ chain' = chain
      /\ verdict' = verdict /\ pool' = pool /\ crashed' = crashed
  BY DEF AppendHandler, call
<1>3. c \in Context /\ \A h \in Goroutine \ {g} : held[h] # c
  BY <1>1, HeldFacts
<1>4. /\ <<context[c].expected, context[c].actual>> = pair[g]
      /\ context[c].handlers = SubSeq(Handlers, 1, n[g] - 1)
      /\ full[g] /\ verdict[g] = "none" /\ pair[g] \in ExpectedSpan \X ActualSpan
  BY <1>0, <1>1 DEF CallInv, CallIsPrivate, Progress
<1>5. n[g] \in 1..8
  BY <1>0, <1>1, HandlersFacts DEF CallInv, Progress, TypeOK
<1>6. longer = SubSeq(Handlers, 1, n[g])
  BY <1>4, <1>5, HandlersFacts
<1>7. SubSeq(Handlers, 1, n[g]) \in Seq(HandlerName)
  <2>1. CASE n[g] = 8
    BY <2>1, HandlersFacts
  <2>2. CASE n[g] # 8
    <3>1. n[g] + 1 \in 1..8 /\ (n[g] + 1) - 1 = n[g]
      BY <1>5, <2>2
    <3>. QED
      BY <3>1, HandlersFacts
  <2>. QED
    BY <2>1, <2>2
<1>. HIDE DEF longer
<1>8. context' = [context EXCEPT ![c].handlers = longer]
  BY DEF AppendHandler, longer
<1>9. /\ context'[c].expected = context[c].expected
      /\ context'[c].actual = context[c].actual
      /\ context'[c].handlers = SubSeq(Handlers, 1, n[g])
  BY <1>0, <1>3, <1>6, <1>8 DEF ContextTypes
<1>10. OnlyContext(c) /\ ContextTypes'
  BY <1>0, <1>2, <1>3, <1>6, <1>7, <1>8 DEF ContextTypes, OnlyContext
<1>11. pc'[g] = next /\ n'[g] = n[g] + 1
  BY <1>0, <1>1, <1>5 DEF TypeOK
<1>12. OnlyCall(g)
  BY <1>0, <1>1, <1>2 DEF TypeOK, OnlyCall
<1>13. \A h \in Goroutine \ {g} : CallInv(h)'
  BY <1>3, <1>10, <1>12, OthersKnow
<1>14. CallInv(g)'
  <2>1. CallIsPrivate(g)'
    BY <1>2, <1>3, <1>4, <1>5, <1>9, <1>11, HandlersFacts DEF CallIsPrivate, Chain
  <2>2. Progress(g)'
    BY <1>2, <1>4, <1>5, <1>11, HandlersFacts DEF Progress
  <2>3. Own(g)'
    BY <1>2, <1>4 DEF Own
  <2>. QED
    BY <2>1, <2>2, <2>3 DEF CallInv
<1>15. ContextsAreOwned'
  BY <1>1, <1>2, <1>10, StillOwned
<1>16. TypeOK'
  BY <1>0, <1>1, <1>2, <1>5, HandlersFacts DEF TypeOK
<1>. QED
  BY <1>10, <1>13, <1>14, <1>15, <1>16 DEF SpanInv

\* A step that changes no context, and of the calls only that of g.
LEMMA CallStep ==
  ASSUME SpanInv, NEW g \in Goroutine, pc[g] # "idle", OnlyCall(g),
         context' = context, held' = held, pool' = pool, CallInv(g)', TypeOK',
         chain' \in [Goroutine -> Seq(HandlerName)]
  PROVE  SpanInv'
<1>1. OnlyContext(held[g])
  BY DEF OnlyContext
<1>2. \A h \in Goroutine \ {g} : CallInv(h)'
  BY <1>1, HeldFacts, OthersKnow
<1>3. ContextsAreOwned'
  BY <1>1, StillOwned
<1>4. ContextTypes'
  BY DEF SpanInv, ContextTypes
<1>. QED
  BY <1>2, <1>3, <1>4, Zenon DEF SpanInv

\* The loop begins with the whole chain of the call.
LEMMA BeginInv == ASSUME SpanInv, NEW g \in Goroutine, BeginLoop(g) PROVE SpanInv'
<1>0. TypeOK /\ ContextTypes /\ CallInv(g)
  BY DEF SpanInv
<1>1. /\ pc[g] = "assert" /\ pc' = [pc EXCEPT ![g] = "loop"]
      /\ chain' = [chain EXCEPT ![g] = context[held[g]].handlers]
      /\ n' = [n EXCEPT ![g] = 1]
  BY DEF BeginLoop, Goto
<1>2. /\ pair' = pair /\ full' = full /\ held' = held /\ context' = context
      /\ verdict' = verdict /\ pool' = pool /\ crashed' = crashed
  BY DEF BeginLoop, call
<1>3. /\ held[g] \in Context /\ context[held[g]].handlers = Chain(g)
      /\ <<context[held[g]].expected, context[held[g]].actual>> = pair[g]
      /\ pair[g] \in ExpectedSpan \X ActualSpan /\ verdict[g] = "none"
  BY <1>0, <1>1 DEF CallInv, CallIsPrivate, Progress
<1>4. pc'[g] = "loop" /\ n'[g] = 1 /\ chain'[g] = Chain(g)
  BY <1>0, <1>1, <1>3 DEF TypeOK, ContextTypes
<1>5. OnlyCall(g)
  BY <1>0, <1>1, <1>2 DEF TypeOK, ContextTypes, OnlyCall
<1>6. CallInv(g)'
  <2>1. CallIsPrivate(g)'
    BY <1>2, <1>3, <1>4 DEF CallIsPrivate, Chain
  <2>2. Progress(g)'
    BY <1>2, <1>3, <1>4 DEF Progress, Chain
  <2>3. Own(g)'
    BY <1>2, <1>3 DEF Own
  <2>. QED
    BY <2>1, <2>2, <2>3 DEF CallInv
<1>7. TypeOK'
  BY <1>0, <1>1, <1>2, HandlersFacts DEF TypeOK
<1>8. chain' \in [Goroutine -> Seq(HandlerName)]
  BY <1>0, <1>1, <1>3 DEF ContextTypes
<1>. QED
  BY <1>1, <1>2, <1>5, <1>6, <1>7, <1>8, CallStep

\* A handler of the chain compares the two spans of the call.
LEMMA HandleInv == ASSUME SpanInv, NEW g \in Goroutine, Handle(g) PROVE SpanInv'
<1>0. TypeOK /\ ContextTypes /\ CallInv(g)
  BY DEF SpanInv
<1>1. pc[g] = "loop" /\ n[g] <= Len(chain[g])
  BY DEF Handle
<1>2. /\ pair' = pair /\ full' = full /\ held' = held /\ context' = context
      /\ chain' = chain /\ pool' = pool /\ crashed' = crashed
  BY DEF Handle, call
<1>. DEFINE found(k) == Outcomes(Chain(g)[k], pair[g][1], pair[g][2])
<1>3. /\ <<context[held[g]].expected, context[held[g]].actual>> = pair[g]
      /\ held[g] \in Context /\ context[held[g]].handlers = Chain(g)
      /\ pair[g] \in ExpectedSpan \X ActualSpan /\ verdict[g] = "none"
      /\ chain[g] = Chain(g) /\ \A k \in 1..(n[g] - 1) : found(k) = {"ok"}
  BY <1>0, <1>1 DEF CallInv, CallIsPrivate, Progress
<1>4. context[held[g]].expected = pair[g][1] /\ context[held[g]].actual = pair[g][2]
  BY <1>3
<1>5. PICK o \in found(n[g]) :
        IF o = "ok" THEN n' = [n EXCEPT ![g] = @ + 1] /\ pc' = pc /\ verdict' = verdict
        ELSE /\ pc' = [pc EXCEPT ![g] = "reset"]
             /\ verdict' = [verdict EXCEPT ![g] = o] /\ n' = n
  BY <1>3, <1>4, Zenon DEF Handle
<1>6. n[g] \in DOMAIN Chain(g) /\ n[g] \in 1..8
  <2>1. Len(Chain(g)) \in {0, 8} /\ DOMAIN Chain(g) = 1..Len(Chain(g))
    BY HandlersFacts, LenProperties DEF Chain
  <2>. QED
    BY <1>0, <1>1, <1>3, <2>1, HandlersFacts DEF TypeOK
<1>7. found(n[g]) \subseteq Answers /\ ("ok" \in found(n[g]) => found(n[g]) = {"ok"})
  BY <1>3, HandlerAnswers
<1>. HIDE DEF found
<1>8. OnlyCall(g)
  BY <1>0, <1>2, <1>5 DEF TypeOK, OnlyCall
<1>9. TypeOK'
  <2>1. CASE o = "ok"
    BY <1>0, <1>2, <1>5, <1>6, <2>1, HandlersFacts DEF TypeOK
  <2>2. CASE o # "ok"
    <3>1. o \in {"none", "nil", "err", "panic"}
      BY <1>7, <2>2 DEF Answers
    <3>. QED
      BY <1>0, <1>2, <1>5, <2>2, <3>1 DEF TypeOK
  <2>. QED
    BY <2>1, <2>2
<1>10. CallInv(g)'
  <2>1. CASE o = "ok"
    <3>1. pc'[g] = "loop" /\ n'[g] = n[g] + 1 /\ verdict'[g] = "none"
      BY <1>0, <1>1, <1>3, <1>5, <2>1 DEF TypeOK
    <3>2. \A k \in 1..(n'[g] - 1) : found(k) = {"ok"}
      BY <1>3, <1>6, <1>7, <2>1, <3>1
    <3>3. CallIsPrivate(g)'
      BY <1>2, <1>3, <3>1 DEF CallIsPrivate, Chain
    <3>4. Progress(g)'
      BY <1>2, <1>3, <3>1, <3>2 DEF Progress, Chain, found
    <3>5. Own(g)'
      BY <1>2, <3>1 DEF Own
    <3>. QED
      BY <3>3, <3>4, <3>5 DEF CallInv
  <2>2. CASE o # "ok"
    <3>1. pc'[g] = "reset" /\ n'[g] = n[g] /\ verdict'[g] = o /\ o # "nil" /\ o # "none"
      BY <1>0, <1>1, <1>5, <1>7, <2>2 DEF TypeOK, Answers
    <3>2. CallIsPrivate(g)'
      BY <1>2, <1>3, <3>1 DEF CallIsPrivate, Chain
    <3>3. Progress(g)'
      BY <1>2, <1>3, <3>1 DEF Progress
    <3>4. Own(g)'
      BY <1>2, <1>5, <1>6, <3>1, Zenon DEF Own, Chain, found
    <3>. QED
      BY <3>2, <3>3, <3>4 DEF CallInv
  <2>. QED
    BY <2>1, <2>2
<1>. QED
  BY <1>0, <1>1, <1>2, <1>8, <1>9, <1>10, CallStep DEF ContextTypes

\* Behind the last handler every one of them has accepted.
LEMMA PassedInv == ASSUME SpanInv, NEW g \in Goroutine, Passed(g) PROVE SpanInv'
<1>0. TypeOK /\ ContextTypes /\ CallInv(g)
  BY DEF SpanInv
<1>1. /\ pc[g] = "loop" /\ pc' = [pc EXCEPT ![g] = "reset"]
      /\ n[g] > Len(chain[g]) /\ verdict' = [verdict EXCEPT ![g] = "nil"]
  BY DEF Passed, Goto
<1>2. /\ pair' = pair /\ full' = full /\ held' = held /\ context' = context
      /\ chain' = chain /\ n' = n /\ pool' = pool /\ crashed' = crashed
  BY DEF Passed, call
<1>3. /\ <<context[held[g]].expected, context[held[g]].actual>> = pair[g]
      /\ held[g] \in Context /\ context[held[g]].handlers = Chain(g)
      /\ pair[g] \in ExpectedSpan \X ActualSpan /\ chain[g] = Chain(g)
      /\ \A k \in 1..(n[g] - 1) : Outcomes(Chain(g)[k], pair[g][1], pair[g][2]) = {"ok"}
  BY <1>0, <1>1 DEF CallInv, CallIsPrivate, Progress
<1>4. DOMAIN Chain(g) \subseteq 1..(n[g] - 1)
  <2>1. DOMAIN Chain(g) = 1..Len(Chain(g)) /\ Len(Chain(g)) \in Nat
    BY HandlersFacts, LenProperties DEF Chain
  <2>. QED
    BY <1>0, <1>1, <1>3, <2>1, HandlersFacts DEF TypeOK
<1>5. pc'[g] = "reset" /\ verdict'[g] = "nil"
  BY <1>0, <1>1 DEF TypeOK
<1>6. OnlyCall(g) /\ TypeOK'
  BY <1>0, <1>1, <1>2 DEF TypeOK, OnlyCall
<1>7. CallIsPrivate(g)'
  BY <1>2, <1>3, <1>5 DEF CallIsPrivate, Chain
<1>8. Progress(g)'
  BY <1>2, <1>3, <1>5 DEF Progress
<1>9. Own(g)'
  BY <1>2, <1>3, <1>4, <1>5 DEF Own, Chain
<1>10. CallInv(g)'
  BY <1>7, <1>8, <1>9 DEF CallInv
<1>. QED
  BY <1>0, <1>1, <1>2, <1>6, <1>10, CallStep DEF ContextTypes

\* The context of the call is emptied before it is in the pool.
LEMMA ResetInv == ASSUME SpanInv, NEW g \in Goroutine, Reset(g) PROVE SpanInv'
<1>0. TypeOK /\ ContextTypes /\ CallInv(g)
  BY DEF SpanInv
<1>1. /\ pc[g] = "reset" /\ pc' = [pc EXCEPT ![g] = "put"]
      /\ context' = [context EXCEPT ![held[g]] = Empty]
  BY DEF Reset, Goto
<1>2. /\ pair' = pair /\ full' = full /\ held' = held /\ chain' = chain /\ n' = n
      /\ verdict' = verdict /\ pool' = pool /\ crashed' = crashed
  BY DEF Reset, call
<1>3. held[g] \in Context /\ \A h \in Goroutine \ {g} : held[h] # held[g]
  BY <1>1, HeldFacts
<1>4. pair[g] \in ExpectedSpan \X ActualSpan
  BY <1>0, <1>1 DEF CallInv, Progress
<1>5. pc'[g] = "put" /\ context'[held[g]] = Empty
  BY <1>0, <1>1, <1>3, Zenon DEF TypeOK, ContextTypes
<1>6. OnlyCall(g) /\ TypeOK'
  BY <1>0, <1>1, <1>2 DEF TypeOK, OnlyCall
<1>7. OnlyContext(held[g])
  BY <1>0, <1>1 DEF ContextTypes, OnlyContext
<1>8. ContextTypes'
  BY <1>0, <1>1, <1>2, EmptyTypes, Zenon DEF ContextTypes
<1>9. \A h \in Goroutine \ {g} : CallInv(h)'
  BY <1>3, <1>6, <1>7, OthersKnow
<1>10. CallIsPrivate(g)'
  BY <1>2, <1>3, <1>5 DEF CallIsPrivate
<1>11. Progress(g)'
  BY <1>2, <1>4, <1>5 DEF Progress
<1>12. Own(g)'
  BY <1>0, <1>2, Zenon DEF CallInv, Own, Chain
<1>13. ContextsAreOwned'
  BY <1>1, <1>2, <1>7, StillOwned
<1>. QED
  BY <1>6, <1>8, <1>9, <1>10, <1>11, <1>12, <1>13 DEF SpanInv, CallInv

\* The context goes back to the pool, and the call is over.
LEMMA PutInv == ASSUME SpanInv, NEW g \in Goroutine, Put(g) PROVE SpanInv'
<1>0. TypeOK /\ ContextTypes /\ ContextsAreOwned /\ CallInv(g)
  BY DEF SpanInv
<1>1. /\ pc[g] = "put" /\ pc' = [pc EXCEPT ![g] = "idle"]
      /\ pool' = pool \cup {held[g]} /\ context' = context
      /\ held' = [held EXCEPT ![g] = None] /\ pair' = [pair EXCEPT ![g] = <<None, None>>]
      /\ full' = [full EXCEPT ![g] = FALSE] /\ verdict' = [verdict EXCEPT ![g] = "none"]
      /\ n' = [n EXCEPT ![g] = 1] /\ chain' = [chain EXCEPT ![g] = <<>>]
      /\ crashed' = (verdict[g] = "panic")
  BY DEF Put, Goto, Forget
<1>2. held[g] \in Context /\ \A h \in Goroutine \ {g} : held[h] # held[g]
  BY <1>1, HeldFacts
<1>3. context[held[g]] = Empty
  BY <1>0, <1>1 DEF CallInv, CallIsPrivate
<1>4. /\ pc'[g] = "idle" /\ held'[g] = None /\ pair'[g] = <<None, None>>
      /\ verdict'[g] = "none" /\ n'[g] = 1
  BY <1>0, <1>1 DEF TypeOK
<1>5. OnlyCall(g)
  BY <1>0, <1>1 DEF TypeOK, ContextTypes, OnlyCall
<1>6. OnlyContext(held[g])
  BY <1>1 DEF OnlyContext
<1>7. \A h \in Goroutine \ {g} : CallInv(h)'
  BY <1>2, <1>5, <1>6, OthersKnow
<1>8. CallInv(g)'
  BY <1>4 DEF CallInv, CallIsPrivate, Progress, Own
<1>9. TypeOK'
  <2>1. pair' \in [Goroutine -> (ExpectedSpan \X ActualSpan) \cup {<<None, None>>}]
    BY <1>0, <1>1 DEF TypeOK
  <2>2. n' \in [Goroutine -> 1..(Len(Handlers) + 1)]
    BY <1>0, <1>1, HandlersFacts DEF TypeOK
  <2>3. crashed' \in BOOLEAN
    BY <1>1
  <2>4. /\ pc' \in [Goroutine -> {"idle", "set", "append", "assert", "loop", "reset", "put"}]
        /\ full' \in [Goroutine -> BOOLEAN] /\ held' \in [Goroutine -> Context \cup {None}]
        /\ verdict' \in [Goroutine -> {"none", "nil", "err", "panic"}]
        /\ pool' \subseteq Context
    BY <1>0, <1>1, <1>2 DEF TypeOK
  <2>. QED
    BY <2>1, <2>2, <2>3, <2>4 DEF TypeOK
<1>10. ContextTypes'
  BY <1>0, <1>1 DEF ContextTypes
<1>11. ContextsAreOwned'
  <2>1. \A h, k \in Goroutine : held'[h] = held'[k] /\ held'[h] # None => h = k
    BY <1>0, <1>1 DEF TypeOK, ContextsAreOwned
  <2>2. None \notin Context
    BY SpanAssertAssumption DEF SpanAssertAssumption
  <2>3. \A h \in Goroutine : held'[h] \notin pool'
    BY <1>0, <1>1, <1>2, <2>2 DEF TypeOK, ContextsAreOwned
  <2>4. \A c \in pool' : context'[c] = Empty
    BY <1>0, <1>1, <1>3 DEF ContextsAreOwned
  <2>. QED
    BY <2>1, <2>3, <2>4 DEF ContextsAreOwned
<1>. QED
  BY <1>7, <1>8, <1>9, <1>10, <1>11 DEF SpanInv

\* The pool forgets a context.
LEMMA DropInv == ASSUME SpanInv, Drop PROVE SpanInv'
<1>0. TypeOK /\ ContextTypes /\ ContextsAreOwned /\ \A g \in Goroutine : CallInv(g)
  BY DEF SpanInv
<1>1. /\ pc' = pc /\ pair' = pair /\ full' = full /\ held' = held /\ chain' = chain
      /\ n' = n /\ verdict' = verdict /\ context' = context /\ crashed' = crashed
      /\ pool' \subseteq pool
  BY DEF Drop, call
<1>2. ASSUME NEW g \in Goroutine PROVE CallInv(g)'
  BY <1>0, <1>1, OthersStay
<1>3. TypeOK' /\ ContextsAreOwned'
  BY <1>0, <1>1 DEF TypeOK, ContextsAreOwned
<1>4. ContextTypes'
  BY <1>0, <1>1 DEF ContextTypes
<1>. QED
  BY <1>2, <1>3, <1>4 DEF SpanInv

\* The invariant holds in every reachable state.
LEMMA SpanInvHolds == Spec => []SpanInv
<1>1. Init => SpanInv
  BY SpanInit
<1>2. SpanInv /\ [Next]_vars => SpanInv'
  <2>1. CASE Next
    BY <2>1, DropInv, GetInv, SetSpansInv, AppendInv, BeginInv, HandleInv, PassedInv,
       ResetInv, PutInv DEF Next, Deferred
  <2>2. ASSUME SpanInv, UNCHANGED vars PROVE SpanInv'
    <3>1. /\ pc' = pc /\ pair' = pair /\ full' = full /\ held' = held /\ chain' = chain
          /\ n' = n /\ verdict' = verdict /\ context' = context /\ crashed' = crashed
          /\ pool' = pool
      BY <2>2 DEF vars, call
    <3>2. ASSUME NEW g \in Goroutine PROVE CallInv(g)'
      BY <2>2, <3>1, OthersStay DEF SpanInv
    <3>. QED
      BY <2>2, <3>1, <3>2 DEF SpanInv, TypeOK, ContextsAreOwned, ContextTypes
  <2>. QED
    BY <2>1, <2>2
<1>. QED
  BY <1>1, <1>2, PTL DEF Spec

\* The contexts of span_assert.go are owned by one call at a time, and what a
\* call finds in its context is what it has put there.
THEOREM ContextsArePrivate == Spec => []Inv
<1>1. SpanInv => Inv
  BY DEF SpanInv, CallInv, Inv
<1>. QED
  BY <1>1, SpanInvHolds, PTL

\* A comparison answers for its own two spans, whatever the pool gave it: it
\* accepts exactly when every handler does.
THEOREM VerdictsAreOwn == Spec => []VerdictIsOwn
<1>1. SpanInv => VerdictIsOwn
  BY Zenon DEF SpanInv, CallInv, Own, VerdictIsOwn
<1>. QED
  BY <1>1, SpanInvHolds, PTL

-----------------------------------------------------------------------------
\* FirstNot is `skipped` only where all the outcomes are.
LEMMA FirstNotSkips ==
  ASSUME NEW skipped, NEW f, NEW len \in Nat, FirstNot(skipped, f, len) = skipped
  PROVE  \A k \in 1..len : f[k] = skipped
<1>. DEFINE S == {k \in 1..len : f[k] # skipped}
            least == CHOOSE k \in S : \A l \in S : k <= l
<1>. SUFFICES ASSUME S # {} PROVE FALSE
  OBVIOUS
<1>1. \E k \in S : \A l \in S : k <= l
  <2>1. S \in SUBSET Nat
    OBVIOUS
  <2>. HIDE DEF S
  <2>. QED
    BY <2>1, Least
<1>2. least \in S
  BY <1>1, Zenon
<1>3. FirstNot(skipped, f, len) = f[least]
  BY DEF FirstNot
<1>. QED
  BY <1>2, <1>3

\* Tags that are accepted agree: a tag that is not there reads as "", and no
\* more are there than are expected.
LEMMA AcceptedTags ==
  ASSUME NEW e, NEW a, IsFiniteSet(DOMAIN e.tags), IsFiniteSet(DOMAIN a.tags),
         TagsEquals(e.tags, a.tags) = {"ok"}
  PROVE  TagsAgree(e, a)
<1>. SUFFICES ASSUME \A k \in DOMAIN e.tags : TagAssert(e.tags, <<>>, k) # "ok"
              PROVE  DOMAIN e.tags = DOMAIN a.tags
  BY Zenon DEF TagsAgree
<1>. DEFINE bad == {k \in DOMAIN e.tags : TagAssert(e.tags, a.tags, k) # "ok"}
            refusals == {TagAssert(e.tags, a.tags, k) : k \in bad}
<1>1. Cardinality(DOMAIN e.tags) = Cardinality(DOMAIN a.tags)
  <2>1. {"err"} # {"ok"}
    OBVIOUS
  <2>. QED
    BY <2>1, Zenon DEF TagsEquals
<1>2. \A k \in DOMAIN e.tags : TagAssert(e.tags, a.tags, k) = "ok"
  <2>1. CASE bad = {}
    BY <2>1
  <2>2. CASE bad # {}
    <3>1. refusals = {"ok"}
      BY <1>1, <2>2, Zenon DEF TagsEquals
    <3>2. "ok" \notin refusals
      OBVIOUS
    <3>. QED
      BY <3>1, <3>2
  <2>. QED
    BY <2>1, <2>2
<1>3. \A k \in DOMAIN e.tags : k \in DOMAIN a.tags
  <2>. SUFFICES ASSUME NEW k \in DOMAIN e.tags, k \notin DOMAIN a.tags PROVE FALSE
    OBVIOUS
  <2>1. TagOf(a.tags, k) = <<>> /\ TagOf(<<>>, k) = <<>>
    BY DEF TagOf
  <2>2. TagAssert(e.tags, a.tags, k) = TagAssert(e.tags, <<>>, k)
    BY <2>1, Zenon DEF TagAssert
  <2>. QED
    BY <1>2, <2>2
<1>. QED
  BY <1>1, <1>3, FS_Subset

\* References that are accepted correspond, unless two expected ones accept the
\* same: as many as there are, each finds one of its own.
LEMMA AcceptedRefs ==
  ASSUME NEW S, NEW e, NEW a, e.refs.list \in Seq(S), a.refs.list \in Seq(S),
         RefEquals(e.refs, a.refs) = "ok"
  PROVE  RefsAgree(e, a)
<1>. DEFINE R == DOMAIN e.refs.list
            A == DOMAIN a.refs.list
            Accepts(k, l) == SimpleReferenceEquals(e.refs.list[k], a.refs.list[l]) = "ok"
            found == [k \in R |-> FindReference(e.refs.list[k], a.refs.list)]
            f == [k \in R |-> CHOOSE l \in A : Accepts(k, l)]
<1>. SUFFICES ASSUME ~e.refs.nil,
                     \A l \in R : \A j, k \in R : Accepts(j, l) /\ Accepts(k, l) => j = k
              PROVE  \E h \in [R -> A] : /\ \A k \in R : Accepts(k, h[k])
                                         /\ \A l \in A : \E k \in R : h[k] = l
  BY Zenon DEF RefsAgree
<1>1. /\ Len(e.refs.list) = Len(a.refs.list)
      /\ FirstNot("ok", found, Len(e.refs.list)) = "ok"
  <2>1. "err" # "ok"
    OBVIOUS
  <2>. QED
    BY <2>1, Zenon DEF RefEquals
<1>2. R = 1..Len(e.refs.list) /\ A = R /\ Len(e.refs.list) \in Nat
  BY <1>1, LenProperties
<1>3. \A k \in R : found[k] = "ok"
  <2>. HIDE DEF found
  <2>. QED
    BY <1>1, <1>2, FirstNotSkips
<1>4. ASSUME NEW k \in R PROVE \E l \in A : Accepts(k, l)
  <2>. DEFINE g == [l \in A |-> SimpleReferenceEquals(e.refs.list[k], a.refs.list[l])]
  <2>1. FindReference(e.refs.list[k], a.refs.list) = "ok"
    BY <1>3
  <2>2. FirstNot("err", g, Len(a.refs.list)) = "ok"
    BY <2>1, Zenon DEF FindReference
  <2>3. \E l \in 1..Len(a.refs.list) : g[l] = "ok"
    <3>. HIDE DEF g
    <3>1. Len(a.refs.list) \in Nat /\ "err" # "ok"
      BY LenProperties
    <3>. QED
      BY <2>2, <3>1, FirstNotIs
  <2>. QED
    BY <1>1, <1>2, <2>3
<1>. HIDE DEF Accepts
<1>5. f \in [R -> A] /\ \A k \in R : Accepts(k, f[k])
  BY <1>4
<1>. HIDE DEF f, R, A
<1>6. f \in Injection(R, R)
  BY <1>2, <1>5 DEF Injection, IsInjective
<1>7. IsFiniteSet(R)
  BY <1>2, FS_Interval
<1>8. f \in Surjection(R, R)
  BY <1>6, <1>7, FS_Injection
<1>9. \A l \in A : \E k \in R : f[k] = l
  BY <1>2, <1>8 DEF Surjection
<1>. QED
  BY <1>5, <1>9

\* A span that is accepted has no tag and no reference too many.
THEOREM AcceptedIsWhole == Spec => []AcceptedAgrees
<1>1. SpanInv => AcceptedAgrees
  <2>. SUFFICES ASSUME SpanInv, NEW g \in Goroutine, full[g], verdict[g] = "nil"
                PROVE  TagsAgree(pair[g][1], pair[g][2]) /\ RefsAgree(pair[g][1], pair[g][2])
    BY Zenon DEF AcceptedAgrees
  <2>. DEFINE e == pair[g][1]
              a == pair[g][2]
  <2>1. CallInv(g)
    BY DEF SpanInv
  <2>2. pc[g] # "idle"
    BY <2>1 DEF CallInv, Progress
  <2>3. e \in ExpectedSpan /\ a \in ActualSpan
    BY <2>2, HeldFacts
  <2>4. 7 \in DOMAIN Handlers /\ Handlers[7] = "Tags"
        /\ 8 \in DOMAIN Handlers /\ Handlers[8] = "References"
    BY DEF Handlers
  <2>5. \A k \in DOMAIN Handlers : Outcomes(Handlers[k], e, a) = {"ok"}
    BY <2>1, Zenon DEF CallInv, Own, Chain
  <2>6. Outcomes("Tags", e, a) = {"ok"} /\ Outcomes("References", e, a) = {"ok"}
    BY <2>4, <2>5
  <2>7. e # None /\ a # None
    BY <2>3, SpanAssertAssumption DEF SpanAssertAssumption
  <2>8. TagsEquals(e.tags, a.tags) = {"ok"}
    BY <2>6, <2>7 DEF Outcomes
  <2>9. RefEquals(e.refs, a.refs) = "ok"
    BY <2>6, <2>7 DEF Outcomes
  <2>. HIDE DEF e, a
  <2>10. TagsAgree(e, a)
    BY <2>3, <2>8, AcceptedTags, SpanAssertAssumption DEF SpanAssertAssumption
  <2>11. RefsAgree(e, a)
    BY <2>3, <2>9, AcceptedRefs, SpanAssertAssumption DEF SpanAssertAssumption
  <2>. QED
    BY <2>10, <2>11 DEF e, a
<1>. QED
  BY <1>1, SpanInvHolds, PTL
=============================================================================

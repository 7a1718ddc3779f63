------------------------ MODULE TracesAssert_proofs ------------------------
(***************************************************************************)
(* Proofs about SpanMatch and TracesAssert, for traces of every size and   *)
(* any number of them: spansAssert accepts a trace only when it has found  *)
(* every expected span in it, is right where no two spans compete, and     *)
(* with distinct ids never panics; doTracesAssert accepts only files it    *)
(* has paired.  A call of spansAssert is a run of SpanMatch from a fresh   *)
(* state, so that what is proved of one holds of every call.               *)
(***************************************************************************)
EXTENDS TracesAssert, FiniteSetTheorems, TLAPS

-----------------------------------------------------------------------------
(* A call of spansAssert.                                                  *)

\* The types the steps of the proof need; TypeOK bounds no id.
Types ==
  /\ id \in [Span -> 1..N]
  /\ pc \in [Span -> {"look", "store", "done"}]
  /\ cursor \in [Span -> 1..(N + 1)] /\ took \in [Span -> 0..N]
  /\ lastErr \in [Span -> BOOLEAN]

\* What a goroutine knows: where it stands, what it took, and that the spans
\* it has passed without comparing one were taken.
Knows(e) ==
  /\ pc[e] = "store" => cursor[e] \in Span /\ <<e, cursor[e]>> \in match
  /\ took[e] # 0 => pc[e] = "done" /\ <<e, took[e]>> \in match
  /\ pc[e] = "done" => took[e] # 0 \/ e \in errors \/ outcome = "panic"
  /\ pc[e] = "look" /\ ~lastErr[e] =>
       \A a \in Span : a < cursor[e] => id[a] \in exist

\* Every id in the map was put there by a goroutine that took its span.
MapIsTaken == \A x \in exist : \E f \in Span : took[f] # 0 /\ id[took[f]] = x

\* A trace is accepted when every goroutine is done and none sent an error.
NilIsEarned == outcome = "nil" => errors = {} /\ \A e \in Span : pc[e] = "done"

\* The inductive invariant.
SpanInv ==
  Types /\ (\A e \in Span : Knows(e)) /\ MapIsTaken /\ NilIsEarned /\ NoPanic

\* Before a goroutine has looked at anything, nothing is known or needed.
LEMMA SpanInit == Init => SpanInv
<1>. SUFFICES ASSUME Init PROVE SpanInv
  OBVIOUS
<1>1. N \in Nat \ {0} /\ 1 \in Span /\ 1 \in 1..(N + 1) /\ 0 \in 0..N
  BY SpanAssumption DEF SpanAssumption, Span
<1>2. id \in [Span -> 1..N]
  BY SpanAssumption DEF SpanAssumption, Init, Span
<1>3. Types
  BY <1>1, <1>2, Zenon DEF Types, Init
<1>4. ASSUME NEW e \in Span PROVE Knows(e)
  <2>1. pc[e] = "look" /\ took[e] = 0 /\ cursor[e] = 1
    BY DEF Init
  <2>. QED
    BY <1>1, <2>1 DEF Knows, Span
<1>. QED
  BY <1>3, <1>4 DEF SpanInv, MapIsTaken, NilIsEarned, NoPanic, Init

\* While one goroutine has found nothing, the others, one span each, leave an
\* actual span that nobody has taken.
LEMMA Pigeonhole ==
  ASSUME NEW e \in Span, NEW t \in [Span -> 0..N], t[e] = 0
  PROVE  \E a \in Span : \A f \in Span : t[f] # a
<1>. SUFFICES ASSUME \A a \in Span : \E f \in Span : t[f] = a PROVE FALSE
  OBVIOUS
<1>. DEFINE D == {f \in Span : t[f] # 0}
            g == [f \in D |-> t[f]]
<1>1. IsFiniteSet(Span) /\ Cardinality(Span) = N /\ N \in Nat
  BY SpanAssumption, FS_Interval DEF SpanAssumption, Span
<1>2. IsFiniteSet(Span \ {e}) /\ Cardinality(Span \ {e}) = N - 1
  <2>1. /\ IsFiniteSet(Span \ {e})
        /\ Cardinality(Span \ {e}) =
             IF e \in Span THEN Cardinality(Span) - 1 ELSE Cardinality(Span)
    BY <1>1, FS_RemoveElement, Zenon
  <2>. QED
    BY <1>1, <2>1
<1>3. IsFiniteSet(D) /\ Cardinality(D) <= Cardinality(Span \ {e})
  <2>1. D \in SUBSET (Span \ {e})
    OBVIOUS
  <2>. QED
    BY <1>2, <2>1, FS_Subset, Zenon
<1>4. g \in Surjection(D, Span)
  <2>1. \A f \in D : g[f] \in Span
    <3>. SUFFICES ASSUME NEW f \in D PROVE t[f] \in Span
      OBVIOUS
    <3>1. t[f] \in 0..N /\ t[f] # 0
      OBVIOUS
    <3>. QED
      BY <1>1, <3>1 DEF Span
  <2>2. g \in [D -> Span]
    BY <2>1, Zenon
  <2>3. \A a \in Span : \E f \in D : g[f] = a
    <3>. SUFFICES ASSUME NEW a \in Span PROVE \E f \in D : g[f] = a
      OBVIOUS
    <3>1. PICK f \in Span : t[f] = a
      OBVIOUS
    <3>2. a # 0
      BY <1>1 DEF Span
    <3>3. f \in D
      BY <3>1, <3>2, Zenon
    <3>. QED
      BY <3>1, <3>3, Zenon
  <2>. QED
    BY <2>2, <2>3, Zenon DEF Surjection
<1>5. Cardinality(Span) <= Cardinality(D)
  <2>. HIDE DEF D, g
  <2>. QED
    BY <1>3, <1>4, FS_Surjection, Zenon
<1>6. Cardinality(D) \in Nat
  BY <1>3, FS_CardinalityType, Zenon
<1>. QED
  BY <1>1, <1>2, <1>3, <1>5, <1>6

\* Looking at an actual span: what is passed over without a comparison was
\* seen taken.
LEMMA LookInv ==
  ASSUME SpanInv, NEW e \in Span, Look(e), outcome = "none" PROVE SpanInv'
<1>. DEFINE a == cursor[e]
<1>1. /\ id' = id /\ match' = match /\ took' = took /\ exist' = exist
      /\ errors' = errors /\ outcome' = outcome
      /\ pc[e] = "look" /\ a \in Span
  BY Zenon DEF Look
<1>2. N \in Nat \ {0} /\ Types /\ \A d \in Span : Knows(d)
  BY SpanAssumption DEF SpanAssumption, SpanInv
<1>3. CASE /\ <<e, a>> \in match
           /\ pc' = [pc EXCEPT ![e] = "store"] /\ UNCHANGED <<cursor, lastErr>>
  <2>1. Types'
    BY <1>1, <1>2, <1>3 DEF Types
  <2>2. ASSUME NEW d \in Span PROVE Knows(d)'
    <3>1. CASE d = e
      <4>1. pc'[d] = "store" /\ took[d] = 0
        BY <1>1, <1>2, <1>3, <3>1 DEF Types, Knows
      <4>. QED
        BY <1>1, <1>3, <3>1, <4>1 DEF Knows
    <3>2. CASE d # e
      <4>1. pc'[d] = pc[d]
        BY <1>2, <1>3, <3>2 DEF Types
      <4>. QED
        BY <1>1, <1>2, <1>3, <4>1 DEF Knows
    <3>. QED
      BY <3>1, <3>2
  <2>. QED
    BY <1>1, <2>1, <2>2 DEF SpanInv, MapIsTaken, NilIsEarned, NoPanic, DistinctIds
<1>4. CASE /\ cursor' = [cursor EXCEPT ![e] = a + 1]
           /\ lastErr' = [lastErr EXCEPT ![e] = @ \/ id[a] \notin exist]
           /\ UNCHANGED pc
  <2>1. Types'
    <3>1. a + 1 \in 1..(N + 1)
      BY <1>1, <1>2 DEF Span
    <3>2. cursor' \in [Span -> 1..(N + 1)]
      BY <1>2, <1>4, <3>1 DEF Types
    <3>3. lastErr' \in [Span -> BOOLEAN]
      BY <1>2, <1>4, Zenon DEF Types
    <3>. QED
      BY <1>1, <1>2, <1>4, <3>2, <3>3 DEF Types
  <2>2. ASSUME NEW d \in Span PROVE Knows(d)'
    <3>1. CASE d = e
      <4>1. cursor'[e] = a + 1
        BY <1>2, <1>4 DEF Types
      <4>2. lastErr'[e] <=> (lastErr[e] \/ id[a] \notin exist)
        BY <1>2, <1>4, Zenon DEF Types
      <4>3. ASSUME ~lastErr'[e], NEW b \in Span, b < a + 1 PROVE id[b] \in exist
        <5>1. ~lastErr[e] /\ id[a] \in exist
          BY <4>2, <4>3, Zenon
        <5>2. b < a \/ b = a
          BY <1>1, <4>3 DEF Span
        <5>. QED
          BY <1>1, <1>2, <5>1, <5>2 DEF Knows
      <4>. QED
        BY <1>1, <1>2, <1>4, <3>1, <4>1, <4>3 DEF Knows
    <3>2. CASE d # e
      <4>1. cursor'[d] = cursor[d]
        BY <1>2, <1>4, <3>2 DEF Types
      <4>2. lastErr'[d] = lastErr[d]
        BY <1>2, <1>4, <3>2, Zenon DEF Types
      <4>. QED
        BY <1>1, <1>2, <1>4, <4>1, <4>2 DEF Knows
    <3>. QED
      BY <3>1, <3>2
  <2>. QED
    BY <1>1, <2>1, <2>2 DEF SpanInv, MapIsTaken, NilIsEarned, NoPanic, DistinctIds
<1>. QED
  BY <1>3, <1>4, Zenon DEF Look

\* Taking it: the id enters the map with the goroutine that took it.
LEMMA StoreInv ==
  ASSUME SpanInv, NEW e \in Span, Store(e), outcome = "none" PROVE SpanInv'
<1>. DEFINE a == cursor[e]
<1>1. /\ id' = id /\ match' = match /\ cursor' = cursor /\ lastErr' = lastErr
      /\ errors' = errors /\ outcome' = outcome
      /\ exist' = exist \cup {id[a]} /\ pc[e] = "store"
      /\ pc' = [pc EXCEPT ![e] = "done"] /\ took' = [took EXCEPT ![e] = a]
  BY Zenon DEF Store
<1>2. Types /\ \A d \in Span : Knows(d)
  BY DEF SpanInv
<1>3. a \in Span /\ <<e, a>> \in match /\ took[e] = 0
  BY <1>1, <1>2 DEF Knows
<1>4. a \in 0..N /\ a # 0
  BY SpanAssumption, <1>3 DEF SpanAssumption, Span
<1>5. pc'[e] = "done" /\ took'[e] = a
  BY <1>1, <1>2 DEF Types
<1>6. \A d \in Span : d # e => pc'[d] = pc[d] /\ took'[d] = took[d]
  BY <1>1, <1>2 DEF Types
<1>7. Types'
  BY <1>1, <1>2, <1>4 DEF Types
<1>8. ASSUME NEW d \in Span PROVE Knows(d)'
  <2>1. CASE d = e
    BY <1>1, <1>3, <1>4, <1>5, <2>1 DEF Knows
  <2>2. CASE d # e
    BY <1>1, <1>2, <1>6, <2>2 DEF Knows
  <2>. QED
    BY <2>1, <2>2
<1>9. MapIsTaken'
  <2>. SUFFICES ASSUME NEW x \in exist'
                PROVE  \E f \in Span : took'[f] # 0 /\ id[took'[f]] = x
    BY <1>1 DEF MapIsTaken
  <2>1. CASE x = id[a]
    BY <1>4, <1>5, <2>1
  <2>2. CASE x \in exist
    <3>1. PICK f \in Span : took[f] # 0 /\ id[took[f]] = x
      BY <2>2 DEF SpanInv, MapIsTaken
    <3>2. f # e
      BY <1>3, <3>1
    <3>. QED
      BY <1>6, <3>1, <3>2
  <2>. QED
    BY <1>1, <2>1, <2>2
<1>. QED
  BY <1>1, <1>7, <1>8, <1>9 DEF SpanInv, NilIsEarned, NoPanic, DistinctIds

\* Finding nothing: with distinct ids something has been compared.
LEMMA NotFoundInv ==
  ASSUME SpanInv, NEW e \in Span, NotFound(e), outcome = "none" PROVE SpanInv'
<1>1. /\ id' = id /\ match' = match /\ cursor' = cursor /\ lastErr' = lastErr
      /\ took' = took /\ exist' = exist
      /\ pc[e] = "look" /\ cursor[e] > N /\ pc' = [pc EXCEPT ![e] = "done"]
  BY Zenon DEF NotFound
<1>2. Types /\ \A d \in Span : Knows(d)
  BY DEF SpanInv
<1>3. took[e] = 0
  BY <1>1, <1>2 DEF Knows
<1>4. pc'[e] = "done" /\ \A d \in Span : d # e => pc'[d] = pc[d]
  BY <1>1, <1>2 DEF Types
<1>5. Types'
  BY <1>1, <1>2 DEF Types
<1>6. DistinctIds => lastErr[e]
  <2>. SUFFICES ASSUME DistinctIds, ~lastErr[e] PROVE FALSE
    OBVIOUS
  <2>1. PICK a \in Span : \A f \in Span : took[f] # a
    BY <1>2, <1>3, Pigeonhole, Zenon DEF Types
  <2>2. a < cursor[e]
    BY <1>1, <1>2, SpanAssumption DEF Types, SpanAssumption, Span
  <2>3. id[a] \in exist
    BY <1>1, <1>2, <2>2 DEF Knows
  <2>4. PICK f \in Span : took[f] # 0 /\ id[took[f]] = id[a]
    BY <2>3 DEF SpanInv, MapIsTaken
  <2>5. took[f] \in Span
    <3>1. took[f] \in 0..N
      BY <1>2, Zenon DEF Types
    <3>. QED
      BY <2>4, <3>1, SpanAssumption DEF SpanAssumption, Span
  <2>. QED
    BY <2>1, <2>4, <2>5 DEF DistinctIds
<1>7. \/ lastErr[e] /\ errors' = errors \cup {e} /\ outcome' = outcome
      \/ ~lastErr[e] /\ errors' = errors /\ outcome' = "panic"
  BY Zenon DEF NotFound
<1>8. ASSUME NEW d \in Span PROVE Knows(d)'
  <2>1. CASE d = e
    BY <1>1, <1>3, <1>4, <1>7, <2>1 DEF Knows
  <2>2. CASE d # e
    BY <1>1, <1>2, <1>4, <1>7, <2>2 DEF Knows
  <2>. QED
    BY <2>1, <2>2
<1>9. NilIsEarned' /\ NoPanic'
  BY <1>1, <1>6, <1>7 DEF NilIsEarned, NoPanic, DistinctIds
<1>10. MapIsTaken'
  BY <1>1 DEF SpanInv, MapIsTaken
<1>. QED
  BY <1>5, <1>8, <1>9, <1>10 DEF SpanInv

\* The answer is given when every goroutine is done.
LEMMA AnswerInv == ASSUME SpanInv, Answer, outcome = "none" PROVE SpanInv'
<1>1. /\ id' = id /\ match' = match /\ cursor' = cursor /\ lastErr' = lastErr
      /\ took' = took /\ exist' = exist /\ errors' = errors /\ pc' = pc
      /\ \A e \in Span : pc[e] = "done"
      /\ outcome' = IF errors = {} THEN "nil" ELSE "err"
  BY DEF Answer
<1>2. Types' /\ MapIsTaken' /\ NilIsEarned' /\ NoPanic'
  BY <1>1 DEF SpanInv, Types, MapIsTaken, NilIsEarned, NoPanic
<1>3. ASSUME NEW d \in Span PROVE Knows(d)'
  BY <1>1 DEF SpanInv, Knows
<1>. QED
  BY <1>2, <1>3 DEF SpanInv

\* The invariant holds in every reachable state.
LEMMA SpanInvHolds == Spec => []SpanInv
<1>1. SpanInv /\ [Next]_vars => SpanInv'
  <2>. SUFFICES ASSUME SpanInv, [Next]_vars PROVE SpanInv'
    OBVIOUS
  <2>1. CASE UNCHANGED vars
    BY <2>1 DEF SpanInv, Types, Knows, MapIsTaken, NilIsEarned, NoPanic,
                DistinctIds, vars
  <2>2. CASE Next
    BY <2>2, LookInv, StoreInv, NotFoundInv, AnswerInv DEF Next
  <2>. QED
    BY <2>1, <2>2
<1>. QED
  BY <1>1, SpanInit, PTL DEF Spec

\* With distinct span ids spansAssert never panics, in whatever order its
\* goroutines load and store the ids.
THEOREM NeverPanics == Spec => []NoPanic
<1>1. SpanInv => NoPanic
  BY DEF SpanInv
<1>. QED
  BY <1>1, SpanInvHolds, PTL

\* A trace that is accepted has had each expected span found in it.
THEOREM AcceptedIsFound == Spec => []OkMeansAllFound
<1>1. SpanInv => OkMeansAllFound
  BY DEF SpanInv, NilIsEarned, Knows, OkMeansAllFound
<1>. QED
  BY <1>1, SpanInvHolds, PTL

-----------------------------------------------------------------------------
(* Where no two spans compete.                                             *)

\* A span that matches and was passed over is taken.
PassedIsTaken ==
  \A e, a \in Span :
    pc[e] = "look" /\ a < cursor[e] /\ <<e, a>> \in match => id[a] \in exist

\* A goroutine that sends its error has nothing to match; one that fails is
\* behind an answer that does.
ErrIsEarned ==
  /\ errors \subseteq Span /\ (outcome = "err" => errors # {})
  /\ Unambiguous /\ DistinctIds =>
       \A e \in errors : \A a \in Span : <<e, a>> \notin match

\* The inductive invariant, next to SpanInv.
RightInv == PassedIsTaken /\ ErrIsEarned

\* A step of the goroutines keeps both.
LEMMA SpanStep == ASSUME SpanInv, Next PROVE SpanInv'
  BY LookInv, StoreInv, NotFoundInv, AnswerInv DEF Next

\* The span that a goroutine which finds nothing would match is not taken by
\* another one, who would match it too.
LEMMA RightStep == ASSUME SpanInv, RightInv, Next PROVE RightInv'
<1>1. Types /\ (\A d \in Span : Knows(d)) /\ PassedIsTaken /\ ErrIsEarned
  BY DEF SpanInv, RightInv
<1>2. match' = match /\ id' = id /\ exist \subseteq exist' /\ outcome = "none"
  BY DEF Next, Look, Store, NotFound, Answer
<1>3. ASSUME UNCHANGED <<errors, outcome>> PROVE ErrIsEarned'
  BY <1>1, <1>2, <1>3 DEF ErrIsEarned, Unambiguous, DistinctIds
<1>4. ASSUME NEW e \in Span, UNCHANGED cursor,
             pc' = [pc EXCEPT ![e] = "store"] \/ pc' = [pc EXCEPT ![e] = "done"]
      PROVE  PassedIsTaken'
  <2>1. \A d \in Span : pc'[d] = "look" => pc[d] = "look"
    BY <1>1, <1>4 DEF Types
  <2>. QED
    BY <1>1, <1>2, <1>4, <2>1 DEF PassedIsTaken
<1>5. ASSUME NEW e \in Span, Look(e) PROVE RightInv'
  <2>1. ErrIsEarned'
    BY <1>3, <1>5 DEF Look
  <2>2. CASE pc' = [pc EXCEPT ![e] = "store"] /\ UNCHANGED cursor
    BY <1>4, <2>1, <2>2 DEF RightInv
  <2>3. CASE /\ id[cursor[e]] \in exist \/ <<e, cursor[e]>> \notin match
             /\ cursor' = [cursor EXCEPT ![e] = cursor[e] + 1] /\ UNCHANGED pc
    <3>1. cursor'[e] = cursor[e] + 1 /\ cursor[e] \in 1..(N + 1)
      BY <1>1, <2>3 DEF Types
    <3>2. \A d \in Span : d # e => cursor'[d] = cursor[d]
      BY <1>1, <2>3 DEF Types
    <3>3. ASSUME NEW d \in Span, NEW a \in Span, pc'[d] = "look", a < cursor'[d],
                 <<d, a>> \in match'
          PROVE  id'[a] \in exist'
      <4>1. CASE d # e
        BY <1>1, <1>2, <2>3, <3>2, <3>3, <4>1 DEF PassedIsTaken
      <4>2. CASE d = e /\ a = cursor[e]
        BY <1>2, <2>3, <3>3, <4>2
      <4>3. CASE d = e /\ a # cursor[e]
        <5>1. a < cursor[e]
          BY <3>1, <3>3, <4>3 DEF Span
        <5>. QED
          BY <1>1, <1>2, <2>3, <3>3, <4>3, <5>1 DEF PassedIsTaken
      <4>. QED
        BY <4>1, <4>2, <4>3
    <3>. QED
      BY <2>1, <3>3 DEF RightInv, PassedIsTaken
  <2>. QED
    BY <1>5, <2>2, <2>3 DEF Look
<1>6. ASSUME NEW e \in Span, Store(e) PROVE RightInv'
  <2>1. ErrIsEarned'
    BY <1>3, <1>6 DEF Store
  <2>. QED
    BY <1>4, <1>6, <2>1 DEF Store, RightInv
<1>7. ASSUME NEW e \in Span, NotFound(e) PROVE RightInv'
  <2>1. PassedIsTaken'
    BY <1>4, <1>7 DEF NotFound
  <2>2. pc[e] = "look" /\ cursor[e] > N /\ took[e] = 0
    BY <1>1, <1>7 DEF NotFound, Knows
  <2>3. ASSUME Unambiguous, DistinctIds, NEW a \in Span, <<e, a>> \in match PROVE FALSE
    <3>1. a < cursor[e]
      BY <1>1, <2>2, SpanAssumption DEF Types, SpanAssumption, Span
    <3>2. id[a] \in exist
      BY <1>1, <2>2, <2>3, <3>1 DEF PassedIsTaken
    <3>3. PICK f \in Span : took[f] # 0 /\ id[took[f]] = id[a]
      BY <3>2 DEF SpanInv, MapIsTaken
    <3>4. took[f] \in Span
      <4>1. took[f] \in 0..N
        BY <1>1, Zenon DEF Types
      <4>. QED
        BY <3>3, <4>1, SpanAssumption DEF SpanAssumption, Span
    <3>5. took[f] = a
      BY <2>3, <3>3, <3>4 DEF DistinctIds
    <3>6. <<f, a>> \in match
      BY <1>1, <3>3, <3>5 DEF Knows
    <3>7. <<e, a>> = <<f, a>>
      <4>1. \A p, q \in match : p[2] = q[2] => p = q
        BY <2>3 DEF Unambiguous
      <4>. QED
        BY <2>3, <3>6, <4>1
    <3>8. e = f
      BY <3>7
    <3>. QED
      BY <2>2, <3>3, <3>8
  <2>4. CASE errors' = errors \cup {e} /\ UNCHANGED outcome
    BY <1>1, <1>2, <2>1, <2>3, <2>4 DEF RightInv, ErrIsEarned, Unambiguous, DistinctIds
  <2>5. CASE outcome' = "panic" /\ UNCHANGED errors
    BY <1>1, <1>2, <2>1, <2>5 DEF RightInv, ErrIsEarned, Unambiguous, DistinctIds
  <2>. QED
    BY <1>7, <2>4, <2>5 DEF NotFound
<1>8. CASE Answer
  <2>1. PassedIsTaken'
    BY <1>1, <1>8 DEF Answer, PassedIsTaken
  <2>. QED
    BY <1>1, <1>8, <2>1 DEF Answer, RightInv, ErrIsEarned, Unambiguous, DistinctIds
<1>. QED
  BY <1>5, <1>6, <1>7, <1>8 DEF Next

\* Without competition the answer is right: what was taken is a matching, and
\* no matching has a place for a goroutine that failed.
LEMMA RightAnswer == ASSUME SpanInv, RightInv PROVE UnambiguousIsRight
<1>. SUFFICES ASSUME Unambiguous, DistinctIds
              PROVE  (outcome = "nil" => Matching) /\ (outcome = "err" => ~Matching)
  BY DEF UnambiguousIsRight
<1>1. ASSUME outcome = "nil" PROVE Matching
  <2>1. \A e \in Span : took[e] # 0 /\ <<e, took[e]>> \in match
    BY <1>1 DEF SpanInv, NilIsEarned, Knows
  <2>2. took \in [Span -> Span]
    <3>1. took \in [Span -> 0..N]
      BY DEF SpanInv, Types
    <3>2. \A x \in 0..N : x # 0 => x \in Span
      BY SpanAssumption DEF SpanAssumption, Span
    <3>. QED
      BY <2>1, <3>1, <3>2
  <2>3. ASSUME NEW d \in Span, NEW e \in Span, took[d] = took[e] PROVE d = e
    <3>1. \A p, q \in match : p[2] = q[2] => p = q
      BY DEF Unambiguous
    <3>2. <<d, took[d]>> = <<e, took[e]>>
      BY <2>1, <2>3, <3>1
    <3>. QED
      BY <3>2
  <2>4. took \in Injection(Span, Span)
    BY <2>2, <2>3 DEF Injection, IsInjective
  <2>. QED
    BY <2>1, <2>4 DEF Matching
<1>2. ASSUME outcome = "err", Matching PROVE FALSE
  <2>1. PICK e \in errors : TRUE
    BY <1>2 DEF RightInv, ErrIsEarned
  <2>2. PICK g \in Injection(Span, Span) : \A d \in Span : <<d, g[d]>> \in match
    BY <1>2 DEF Matching
  <2>3. e \in Span
    BY <2>1 DEF RightInv, ErrIsEarned
  <2>4. g[e] \in Span
    BY <2>2, <2>3 DEF Injection, IsInjective
  <2>. QED
    BY <2>1, <2>2, <2>3, <2>4 DEF RightInv, ErrIsEarned
<1>. QED
  BY <1>1, <1>2

-----------------------------------------------------------------------------
(* The traces.                                                             *)

\* Where the search is: a call compares two traces that are there, the actual
\* one not taken.
SearchInv ==
  /\ expected \in 0..MaxTraces /\ actual \in 0..MaxTraces
  /\ i \in 1..(MaxTraces + 1) /\ i <= expected + 1
  /\ calling => i <= expected /\ j \notin taken
  /\ found \in [Trace -> Nat] /\ j \in Nat

\* The expected traces that are passed have got a sound match, each its own.
PairedInv ==
  \A e \in Trace : e < i =>
    /\ found[e] \in taken /\ <<e, found[e]>> \in sound
    /\ \A f \in Trace : f < i /\ found[e] = found[f] => e = f

\* The inductive invariant.
TraceInv ==
  /\ SpanInv /\ RightInv /\ SearchInv /\ PairedInv
  /\ answer = "nil" => i > expected

\* As a call begins, and when it has returned, nothing is known or needed.
LEMMA FreshInv == ASSUME FreshSpans, id' \in [Span -> 1..N] PROVE SpanInv' /\ RightInv'
<1>1. N \in Nat \ {0} /\ 1 \in Span /\ 1 \in 1..(N + 1) /\ 0 \in 0..N
  BY SpanAssumption DEF SpanAssumption, Span
<1>2. Types'
  BY <1>1, Zenon DEF Types, FreshSpans
<1>3. ASSUME NEW e \in Span PROVE Knows(e)' /\ cursor'[e] = 1
  <2>1. pc'[e] = "look" /\ took'[e] = 0 /\ cursor'[e] = 1
    BY DEF FreshSpans
  <2>. QED
    BY <1>1, <2>1 DEF Knows, Span
<1>4. SpanInv'
  BY <1>2, <1>3 DEF SpanInv, MapIsTaken, NilIsEarned, NoPanic, FreshSpans
<1>5. PassedIsTaken'
  BY <1>3 DEF PassedIsTaken, Span
<1>6. ErrIsEarned'
  BY DEF ErrIsEarned, FreshSpans
<1>. QED
  BY <1>4, <1>5, <1>6 DEF RightInv

\* What is known of the spans does not change while they do not.
LEMMA SpansStay ==
  ASSUME SpanInv, RightInv, UNCHANGED vars PROVE SpanInv' /\ RightInv'
<1>1. SpanInv'
  BY DEF SpanInv, Types, Knows, MapIsTaken, NilIsEarned, NoPanic, DistinctIds, vars
<1>2. RightInv'
  BY DEF RightInv, PassedIsTaken, ErrIsEarned, Unambiguous, DistinctIds, vars
<1>. QED
  BY <1>1, <1>2

\* What a call knows of its spans, over the calls.
LEMMA CallsStep ==
  ASSUME SpanInv, RightInv, [TraceNext]_traceVars PROVE SpanInv' /\ RightInv'
<1>0. id \in [Span -> 1..N]
  BY DEF SpanInv, Types
<1>1. CASE UNCHANGED vars
  BY <1>1, SpansStay
<1>2. CASE Call
  <2>1. FreshSpans /\ id' \in [Span -> 1..N]
    BY <1>2, SpanAssumption DEF Call, SpanAssumption, Span
  <2>. QED
    BY <2>1, FreshInv
<1>3. CASE Goroutines
  BY <1>3, SpanStep, RightStep DEF Goroutines
<1>4. CASE Return
  <2>1. CASE FreshSpans /\ UNCHANGED id
    BY <1>0, <2>1, FreshInv
  <2>. QED
    BY <1>1, <1>4, <2>1 DEF Return
<1>5. CASE Pass \/ Unequal \/ TraceNotFound \/ TracesAnswer \/ UNCHANGED traceVars
  BY <1>1, <1>5 DEF Pass, Unequal, TraceNotFound, TracesAnswer, traceVars
<1>. QED
  BY <1>2, <1>3, <1>4, <1>5 DEF TraceNext

\* The search goes on with the next actual trace, or ends.
LEMMA SearchGoesOn ==
  ASSUME TraceInv, UNCHANGED <<expected, actual, i, taken, found, sound>>,
         j' \in {j, j + 1}, calling' => i <= expected /\ j' \notin taken,
         answer' = "nil" => i > expected
  PROVE  SearchInv' /\ PairedInv' /\ (answer' = "nil" => i' > expected')
<1>1. SearchInv'
  BY DEF TraceInv, SearchInv
<1>2. PairedInv'
  BY DEF TraceInv, PairedInv
<1>. QED
  BY <1>1, <1>2

\* The first actual trace that is not taken and is accepted is given to the
\* expected one: nobody has it, and every span was found in it.
LEMMA AcceptInv ==
  ASSUME TraceInv, calling, outcome = "nil", AcceptTrace, ~calling',
         UNCHANGED <<expected, actual>>
  PROVE  SearchInv' /\ PairedInv'
<1>1. /\ found' = [found EXCEPT ![i] = j] /\ taken' = taken \cup {j} /\ i' = i + 1
      /\ j' = 1
  BY DEF AcceptTrace
<1>2. SearchInv /\ PairedInv /\ SpanInv
  BY DEF TraceInv
<1>3. i \in Trace /\ i <= expected /\ j \notin taken /\ j \in Nat
  BY <1>2, TraceAssumption DEF SearchInv, Trace, TraceAssumption
<1>4. SearchInv'
  <2>1. found' \in [Trace -> Nat]
    BY <1>1, <1>2, <1>3 DEF SearchInv
  <2>2. i' \in 1..(MaxTraces + 1) /\ i' <= expected + 1
    BY <1>1, <1>2, <1>3, TraceAssumption DEF SearchInv, Trace, TraceAssumption
  <2>. QED
    BY <1>1, <1>2, <2>1, <2>2 DEF SearchInv
<1>5. \A e \in Span : <<e, took[e]>> \in match
  BY <1>2 DEF SpanInv, NilIsEarned, Knows
<1>6. sound' = sound \cup {<<i, j>>}
  BY <1>5 DEF AcceptTrace
<1>7. found'[i] = j /\ \A e \in Trace : e # i => found'[e] = found[e]
  BY <1>1, <1>2, <1>3 DEF SearchInv
<1>8. \A e \in Trace : e < i' => e < i \/ e = i
  BY <1>1, <1>3, TraceAssumption DEF Trace, TraceAssumption
<1>9. \A e \in Trace : e < i => e # i /\ found'[e] = found[e] /\ found[e] \in taken
  <2>1. ~(i < i)
    BY <1>3 DEF Trace
  <2>. QED
    BY <1>2, <1>7, <2>1 DEF PairedInv
<1>10. ASSUME NEW e \in Trace, e < i'
       PROVE  /\ found'[e] \in taken' /\ <<e, found'[e]>> \in sound'
              /\ \A f \in Trace : f < i' /\ found'[e] = found'[f] => e = f
  <2>1. CASE e = i
    BY <1>1, <1>3, <1>6, <1>7, <1>8, <1>9, <2>1
  <2>2. CASE e < i
    <3>1. found'[e] = found[e] /\ found[e] \in taken /\ <<e, found[e]>> \in sound
      BY <1>2, <1>9, <2>2 DEF PairedInv
    <3>2. ASSUME NEW f \in Trace, f < i', found'[e] = found'[f] PROVE e = f
      <4>1. CASE f = i
        BY <1>3, <1>7, <3>1, <3>2, <4>1
      <4>2. CASE f < i
        BY <1>2, <1>9, <2>2, <3>1, <3>2, <4>2 DEF PairedInv
      <4>. QED
        BY <1>8, <3>2, <4>1, <4>2
    <3>. QED
      BY <1>1, <1>6, <3>1, <3>2
  <2>. QED
    BY <1>8, <1>10, <2>1, <2>2
<1>. QED
  BY <1>4, <1>10 DEF PairedInv

\* A step keeps the invariant.
LEMMA TraceStep == ASSUME TraceInv, [TraceNext]_traceVars PROVE TraceInv'
<1>1. SpanInv' /\ RightInv'
  BY CallsStep DEF TraceInv
<1>2. SearchInv /\ PairedInv /\ (answer = "nil" => i > expected)
  BY DEF TraceInv
<1>3. CASE UNCHANGED traceVars
  <2>1. calling => i <= expected /\ j \notin taken
    BY <1>2 DEF SearchInv
  <2>. QED
    BY <1>1, <1>2, <1>3, <2>1, SearchGoesOn DEF traceVars, files, search, TraceInv
<1>4. CASE answer = "none" /\ Pass
  BY <1>1, <1>4, SearchGoesOn DEF Pass, Searching, files, TraceInv
<1>5. CASE answer = "none" /\ Unequal
  BY <1>1, <1>5, SearchGoesOn DEF Unequal, Searching, RefuseTrace, files, TraceInv
<1>6. CASE answer = "none" /\ Call
  BY <1>1, <1>6, SearchGoesOn DEF Call, Searching, files, search, TraceInv
<1>7. CASE answer = "none" /\ Goroutines
  <2>1. calling => i <= expected /\ j \notin taken
    BY <1>2 DEF SearchInv
  <2>. QED
    BY <1>1, <1>2, <1>7, <2>1, SearchGoesOn DEF Goroutines, files, search, TraceInv
<1>8. CASE answer = "none" /\ Return
  <2>0. ~calling' /\ calling /\ UNCHANGED <<expected, actual>>
    BY <1>8 DEF Return, files
  <2>1. CASE outcome = "nil" /\ AcceptTrace /\ UNCHANGED answer
    BY <1>1, <1>8, <2>0, <2>1, AcceptInv DEF TraceInv
  <2>2. CASE RefuseTrace /\ UNCHANGED answer
    BY <1>1, <1>8, <2>0, <2>2, SearchGoesOn DEF RefuseTrace, TraceInv
  <2>3. CASE answer' = "panic" /\ UNCHANGED <<search, sound>>
    BY <1>1, <2>0, <2>3, SearchGoesOn DEF search, TraceInv
  <2>. QED
    BY <1>8, <2>1, <2>2, <2>3 DEF Return
<1>9. CASE answer = "none" /\ (TraceNotFound \/ TracesAnswer)
  <2>1. ~calling' /\ UNCHANGED <<expected, actual, i, j, taken, found, sound>>
    BY <1>9 DEF TraceNotFound, TracesAnswer, files, search
  <2>2. answer' = "nil" => i > expected
    BY <1>9 DEF TraceNotFound, TracesAnswer
  <2>. QED
    BY <1>1, <2>1, <2>2, SearchGoesOn DEF TraceInv
<1>. QED
  BY <1>3, <1>4, <1>5, <1>6, <1>7, <1>8, <1>9 DEF TraceNext

\* It holds of every state of a comparison of two files.
LEMMA TraceInvHolds == TraceSpec => []TraceInv
<1>1. TraceInit => TraceInv
  <2>. SUFFICES ASSUME TraceInit PROVE TraceInv
    OBVIOUS
  <2>1. SpanInv
    BY SpanInit DEF TraceInit
  <2>2. RightInv
    <3>1. \A e \in Span : cursor[e] = 1
      BY DEF TraceInit, Init
    <3>. QED
      BY <3>1 DEF TraceInit, Init, RightInv, PassedIsTaken, ErrIsEarned, Span
  <2>3. SearchInv /\ PairedInv
    BY TraceAssumption DEF TraceInit, SearchInv, PairedInv, TraceAssumption, Trace
  <2>. QED
    BY <2>1, <2>2, <2>3 DEF TraceInit, TraceInv
<1>2. TraceInv /\ [TraceNext]_traceVars => TraceInv'
  BY TraceStep
<1>. QED
  BY <1>1, <1>2, PTL DEF TraceSpec

\* In every call of every comparison an accepted trace has had each of its
\* expected spans found in it, and no goroutine panics over distinct ids.
THEOREM CallsAreSafe == TraceSpec => [](OkMeansAllFound /\ NoPanic)
<1>1. TraceInv => OkMeansAllFound /\ NoPanic
  BY DEF TraceInv, SpanInv, NilIsEarned, Knows, OkMeansAllFound
<1>. QED
  BY <1>1, TraceInvHolds, PTL

\* Where no two spans compete, spansAssert answers rightly in every
\* interleaving of its goroutines: it accepts exactly what can be matched.
THEOREM WithoutCompetitionRight == TraceSpec => []UnambiguousIsRight
<1>1. TraceInv => UnambiguousIsRight
  BY RightAnswer DEF TraceInv
<1>. QED
  BY <1>1, TraceInvHolds, PTL

\* Accepted files pair every expected trace with an actual one of its own, in
\* which each of its spans was found.
THEOREM AcceptedIsPaired == TraceSpec => []OkMeansPaired
<1>1. TraceInv => OkMeansPaired
  <2>. SUFFICES ASSUME TraceInv, answer = "nil" PROVE OkMeansPaired
    BY DEF OkMeansPaired
  <2>1. PairedInv /\ SearchInv /\ i > expected
    BY DEF TraceInv
  <2>2. \A e \in 1..expected : e \in Trace /\ e < i
    BY <2>1, TraceAssumption DEF SearchInv, Trace, TraceAssumption
  <2>. QED
    BY <2>1, <2>2 DEF PairedInv, OkMeansPaired
<1>. QED
  BY <1>1, TraceInvHolds, PTL
=============================================================================

------------------------- MODULE AssertCases_proofs -------------------------
(***************************************************************************)
(* Proofs about VerifyCases and AssertCases, for every number of cases and *)
(* every retry count.  The invariant of a list of cases holds in           *)
(* AssertCases too: a step of the assert stage, or of a process that dies, *)
(* is a step of VerifyCases or leaves its variables alone.  And it         *)
(* implements CaseVerdict: a step decides one case, ends the list, or is   *)
(* not seen by its caller.                                                 *)
(***************************************************************************)
EXTENDS AssertCases, FiniteSetTheorems, TLAPS

-----------------------------------------------------------------------------
(* A list of cases.                                                        *)

\* Retry counts are natural numbers, whatever the file says.
LEMMA RetriesNat == ASSUME cfg \in Config PROVE Retries \in Nat
<1>1. cfg.count \in RetryCounts
  BY DEF Config
<1>2. cfg.count \in Int /\ NoRetry \in Nat
  BY <1>1, CasesAssumption DEF CasesAssumption, NoRetry
<1>. QED
  BY <1>2 DEF Retries

\* The number PrintResult returns is positive exactly when a case failed.
LEMMA NumFailedPositive ==
  NumFailed \in Nat /\ (NumFailed > 0 <=> \E c \in Case : ~res[c].skip /\ res[c].err)
<1> DEFINE F == {c \in Case : ~res[c].skip /\ res[c].err}
<1>1. IsFiniteSet(Case)
  BY CasesAssumption, FS_Interval DEF CasesAssumption, Case
<1>2. IsFiniteSet(F)
  BY <1>1, FS_Subset
<1>3. Cardinality(F) \in Nat /\ (Cardinality(F) = 0 <=> F = {})
  BY <1>2, FS_CardinalityType, FS_EmptySet
<1>. QED
  BY <1>3 DEF NumFailed

-----------------------------------------------------------------------------
(* Type correctness.                                                       *)

\* The initial states, whatever the configuration, have the types.
LEMMA InitTypeOK == Init => TypeOK
<1> SUFFICES ASSUME Init PROVE TypeOK
  OBVIOUS
<1>1. Retries \in Nat
  BY RetriesNat DEF Init
<1>2. current \in [Case -> 0..Retries] /\ idx \in 0..(N + 1) /\ good \subseteq Case
  BY <1>1, CasesAssumption DEF CasesAssumption, Init
<1>3. local \in [Case -> Result] /\ res \in [Case -> Result]
  BY DEF Init, Result, Zero, Preset
<1>. QED
  BY <1>2, <1>3 DEF Init, TypeOK

\* The results the code builds, and the updates of one of their fields.
LEMMA ResultType ==
  /\ Zero \in Result /\ Preset \in Result /\ Failure \in Result
  /\ \A r \in Result, b \in BOOLEAN :
       [r EXCEPT !.skip = b] \in Result /\ [r EXCEPT !.err = b] \in Result
BY DEF Result, Zero, Preset, Failure

\* No action takes a variable out of its type: in particular the loop stops
\* counting at the configured number of retries.
LEMMA NextTypeOK == TypeOK /\ [Next]_vars => TypeOK'
<1> SUFFICES ASSUME TypeOK, [Next]_vars PROVE TypeOK'
  OBVIOUS
<1> USE CasesAssumption, ResultType DEF CasesAssumption, TypeOK
<1>0. Retries \in Nat
  BY RetriesNat
<1>a. ASSUME cfg' = cfg PROVE Retries' = Retries
  BY <1>a DEF Retries, NoRetry
<1>1. CASE DoVerify
  BY <1>0, <1>a, <1>1 DEF DoVerify
<1>2. CASE SerialStep
  <2>0. Retries' = Retries
    BY <1>2, <1>a DEF SerialStep
  <2>1. CASE idx > N /\ ReturnNow /\ UNCHANGED <<current, res, good>>
    BY <1>0, <1>2, <2>0, <2>1 DEF SerialStep, ReturnNow
  <2>2. CASE /\ idx \in Case \ cfg.expected
             /\ res' = [res EXCEPT ![idx] = Failure]
             /\ AfterFailure /\ UNCHANGED <<current, good>>
    BY <1>0, <1>2, <2>0, <2>2
    DEF SerialStep, AfterFailure, ReturnNow, NextCase, Case
  <2>3. ASSUME idx \in Case \cap cfg.expected, NEW ok \in BOOLEAN, SerialAttempt(ok)
        PROVE  TypeOK'
    <3> USE <2>3 DEF SerialAttempt, Case
    <3>1. main' \in {"serial", "print"} /\ idx' \in 0..(N + 1)
      BY <1>2 DEF SerialStep, AfterFailure, ReturnNow, NextCase
    <3>2. current' \in [Case -> 0..Retries]
      <4>1. idx \in Case /\ current[idx] \in 0..Retries
        OBVIOUS
      <4>2. CASE current[idx] # Retries /\ current' = [current EXCEPT ![idx] = @ + 1]
        BY <1>0, <4>1, <4>2 DEF TypeOK
      <4>3. CASE current' = current
        BY <4>3
      <4>. QED
        BY <4>2, <4>3
    <3>3. res' \in [Case -> Result] /\ good' \subseteq Case
      <4>1. [res[idx] EXCEPT !.skip = FALSE] \in Result
        BY ResultType
      <4>. QED
        BY <4>1
    <3>. QED
      BY <1>2, <2>0, <3>1, <3>2, <3>3 DEF SerialStep
  <2>. QED
    BY <1>2, <2>1, <2>2, <2>3 DEF SerialStep
<1>3. CASE Spawn
  <2>1. CASE idx < N
    <3>1. idx + 1 \in Case /\ idx' = idx + 1
      BY <1>3, <2>1 DEF Spawn, Case
    <3>2. pc' \in [Case -> {"new", "precheck", "enter", "select", "attempt",
                           "defer", "store", "done"}]
      BY <1>3, <2>1, <3>1 DEF Spawn
    <3>. QED
      BY <1>a, <1>3, <2>1, <3>1, <3>2 DEF Spawn
  <2>2. CASE ~(idx < N)
    BY <1>a, <1>3, <2>2 DEF Spawn
  <2>. QED
    BY <2>1, <2>2
<1>4. CASE WaitAll
  BY <1>0, <1>a, <1>4 DEF WaitAll
<1>5. CASE Report
  BY <1>0, <1>a, <1>5 DEF Report
<1>6. ASSUME NEW c \in Case, Goroutine(c) PROVE TypeOK'
  <2> USE <1>0, <1>a DEF Goto
  <2>0. /\ [res[c] EXCEPT !.skip = TRUE] \in Result
        /\ [local[c] EXCEPT !.skip = TRUE] \in Result
        /\ [local[c] EXCEPT !.err = TRUE] \in Result
    BY ResultType
  <2>1. CASE PreCheck(c)
    BY <2>0, <2>1 DEF PreCheck
  <2>2. CASE Enter(c)
    BY <2>2 DEF Enter
  <2>3. CASE Select(c)
    BY <2>0, <2>3 DEF Select
  <2>4. CASE Attempt(c)
    <3>1. current' \in [Case -> 0..Retries]
      BY <2>4 DEF Attempt
    <3>2. local' \in [Case -> Result] /\ good' \subseteq Case
      BY <2>0, <2>4 DEF Attempt
    <3>3. pc' \in [Case -> {"new", "precheck", "enter", "select", "attempt",
                           "defer", "store", "done"}]
      BY <2>4 DEF Attempt
    <3>. QED
      BY <2>4, <3>1, <3>2, <3>3 DEF Attempt
  <2>5. CASE CancelOnFailure(c)
    BY <2>5 DEF CancelOnFailure
  <2>6. CASE StoreResult(c)
    BY <2>6 DEF StoreResult
  <2>. QED
    BY <1>6, <2>1, <2>2, <2>3, <2>4, <2>5, <2>6 DEF Goroutine
<1>7. CASE UNCHANGED vars
  BY <1>a, <1>7 DEF vars
<1>. QED
  BY <1>1, <1>2, <1>3, <1>4, <1>5, <1>6, <1>7 DEF Next, Caller

\* Every variable keeps its type, and no retry counter passes the bound.
THEOREM TypeCorrect == Spec => []TypeOK
BY InitTypeOK, NextTypeOK, PTL DEF Spec

-----------------------------------------------------------------------------
(* The inductive invariant.                                                *)

\* What the fields of the results the code builds are; two results with the
\* same fields are the same.
LEMMA ResultFields ==
  /\ Zero.skip = FALSE /\ Zero.err = FALSE
  /\ Preset.skip = TRUE /\ Preset.err = FALSE
  /\ Failure.skip = FALSE /\ Failure.err = TRUE
  /\ [Zero EXCEPT !.skip = TRUE] = Preset /\ [Zero EXCEPT !.err = TRUE] = Failure
  /\ [Preset EXCEPT !.skip = FALSE] = Zero
<1>1. /\ Zero.skip = FALSE /\ Zero.err = FALSE
      /\ Preset.skip = TRUE /\ Preset.err = FALSE
      /\ Failure.skip = FALSE /\ Failure.err = TRUE
  BY DEF Zero, Preset, Failure
<1>2. \A r, s \in Result : r.skip = s.skip /\ r.err = s.err => r = s
  BY DEF Result
<1>4. [Zero EXCEPT !.skip = TRUE] = Preset
  <2> DEFINE r == [Zero EXCEPT !.skip = TRUE]
  <2>1. r \in Result /\ Preset \in Result
    BY ResultType
  <2>2. r.skip = Preset.skip /\ r.err = Preset.err
    BY DEF Zero, Preset
  <2>. QED
    BY <1>2, <2>1, <2>2
<1>5. [Zero EXCEPT !.err = TRUE] = Failure
  <2> DEFINE r == [Zero EXCEPT !.err = TRUE]
  <2>1. r \in Result /\ Failure \in Result
    BY ResultType
  <2>2. r.skip = Failure.skip /\ r.err = Failure.err
    BY DEF Zero, Failure
  <2>. QED
    BY <1>2, <2>1, <2>2
<1>6. [Preset EXCEPT !.skip = FALSE] = Zero
  <2> DEFINE r == [Preset EXCEPT !.skip = FALSE]
  <2>1. r \in Result /\ Zero \in Result
    BY ResultType
  <2>2. r.skip = Zero.skip /\ r.err = Zero.err
    BY DEF Zero, Preset
  <2>. QED
    BY <1>2, <2>1, <2>2
<1>. QED
  BY <1>1, <1>4, <1>5, <1>6

\* The inductive invariant holds before DoVerify* is called.
LEMMA InitInv == Init => Inv
<1> SUFFICES ASSUME Init PROVE Inv
  OBVIOUS
<1>1. TypeOK
  BY InitTypeOK
<1>2. CallerInv /\ SerialInv /\ ConcurrentInv /\ CancelInv
  BY ResultFields DEF Init, CallerInv, SerialInv, ConcurrentInv, CancelInv, Running
<1>. QED
  BY <1>1, <1>2 DEF Inv

\* Refusing the configuration, or choosing the mode and presetting the slots,
\* keeps the invariant.
LEMMA DoVerifyInv == Inv /\ TypeOK' /\ DoVerify => Inv'
<1> SUFFICES ASSUME Inv, TypeOK', DoVerify PROVE Inv'
  OBVIOUS
<1> USE ResultFields DEF Inv, DoVerify, Running
<1>1. CallerInv'
  BY DEF CallerInv, TypeOK, Config
<1>2. SerialInv'
  BY DEF SerialInv, CallerInv, Decided, TypeOK, Case
<1>3. ConcurrentInv'
  BY CasesAssumption DEF CasesAssumption, ConcurrentInv, GoroutineInv, CallerInv, TypeOK, Case
<1>4. CancelInv'
  BY DEF CancelInv
<1>. QED
  BY <1>1, <1>2, <1>3, <1>4

\* Reporting keeps the invariant: an ok answer is given on a list without a
\* failed slot.
LEMMA ReportInv == Inv /\ TypeOK' /\ Report => Inv'
<1> SUFFICES ASSUME Inv, TypeOK', Report PROVE Inv'
  OBVIOUS
<1> USE DEF Inv, Report, Running
<1>1. CallerInv'
  BY NumFailedPositive DEF CallerInv
<1>2. SerialInv'
  BY DEF SerialInv, Decided
<1>3. ConcurrentInv'
  BY DEF ConcurrentInv, GoroutineInv, Decided
<1>4. CancelInv'
  BY DEF CancelInv
<1>. QED
  BY <1>1, <1>2, <1>3, <1>4

\* The caller passes the wait group only with every goroutine done.
LEMMA WaitAllInv == Inv /\ TypeOK' /\ WaitAll => Inv'
<1> SUFFICES ASSUME Inv, TypeOK', WaitAll PROVE Inv'
  OBVIOUS
<1> USE DEF Inv, WaitAll, Running
<1>1. CallerInv' /\ SerialInv'
  BY DEF CallerInv, SerialInv
<1>2. ConcurrentInv'
  BY DEF ConcurrentInv, GoroutineInv, CallerInv, Decided
<1>3. CancelInv'
  BY DEF CancelInv
<1>. QED
  BY <1>1, <1>2, <1>3

\* Starting the goroutine of the next case keeps the invariant.
LEMMA SpawnInv == Inv /\ TypeOK' /\ Spawn => Inv'
<1> SUFFICES ASSUME Inv, TypeOK', Spawn PROVE Inv'
  OBVIOUS
<1> USE DEF Inv, Spawn, Running
<1>0. cfg.concurrency /\ ~cfg.error /\ err = "none"
  BY DEF CallerInv
<1>1. CallerInv' /\ SerialInv'
  BY <1>0 DEF CallerInv, SerialInv
<1>2. CASE idx < N
  <2>1. \A c \in Case : pc'[c] = IF c = idx + 1 THEN "precheck" ELSE pc[c]
    BY <1>2 DEF TypeOK
  <2>2. main' = "spawn" /\ idx' = idx + 1 /\ idx' <= N /\ idx \in Nat
    BY <1>2, CasesAssumption DEF CasesAssumption, TypeOK
  <2>3. \A c \in Case : pc'[c] = "new" <=> c > idx'
    BY <1>0, <2>1, <2>2 DEF ConcurrentInv, Case
  <2>4. ConcurrentInv'
    BY <1>0, <2>1, <2>2, <2>3 DEF ConcurrentInv, GoroutineInv, Decided, Case
  <2>5. CancelInv'
    BY <1>0, <1>2, <2>1 DEF CancelInv, ConcurrentInv, GoroutineInv, TypeOK, Case
  <2>. QED
    BY <1>1, <2>4, <2>5
<1>3. CASE idx = N
  <2>1. ConcurrentInv'
    BY <1>0, <1>3, CasesAssumption DEF CasesAssumption, ConcurrentInv, GoroutineInv, Decided, TypeOK, Case
  <2>2. CancelInv'
    BY <1>3, CasesAssumption DEF CasesAssumption, CancelInv, TypeOK
  <2>. QED
    BY <1>1, <2>1, <2>2
<1>. QED
  BY <1>2, <1>3

-----------------------------------------------------------------------------
(* The steps of a goroutine.                                               *)

\* A goroutine runs only in concurrent mode, before the caller reports.
LEMMA GoroutineRuns ==
  ASSUME Inv, NEW c \in Case, pc[c] \notin {"new", "done"}
  PROVE  /\ Running /\ cfg.concurrency /\ err = "none"
         /\ main \notin {"print", "done"} /\ res[c] = Zero
BY DEF Inv, CallerInv, ConcurrentInv, GoroutineInv, TypeOK

\* What a step of goroutine c leaves to check once the frame is known.
LEMMA GoroutineFrame ==
  ASSUME Inv, NEW c \in Case, pc[c] \notin {"new", "done"},
         UNCHANGED <<cfg, main, idx, err>>
  PROVE  CallerInv' /\ SerialInv'
BY GoroutineRuns DEF Inv, CallerInv, SerialInv, Running

\* Each step of a goroutine keeps the invariant, the cancellation it may
\* bring included.
LEMMA GoroutineStepInv ==
  ASSUME Inv, TypeOK', NEW c \in Case, Goroutine(c)
  PROVE  Inv'
<1> USE DEF Goto
<1>1. /\ Running /\ cfg.concurrency /\ err = "none" /\ res[c] = Zero
      /\ main \notin {"print", "done"} /\ UNCHANGED <<cfg, main, idx, err>>
      /\ pc[c] \notin {"new", "done"} /\ pc'[c] # "new"
  <2>1. pc[c] \notin {"new", "done"} /\ pc'[c] # "new" /\ UNCHANGED <<cfg, main, idx, err>>
    BY DEF Goroutine, PreCheck, Enter, Select, Attempt, CancelOnFailure,
           StoreResult, Inv, TypeOK
  <2>. QED
    BY <2>1, GoroutineRuns
<1>2. CallerInv' /\ SerialInv'
  BY <1>1, GoroutineFrame
<1>3. ASSUME NEW d \in Case
      PROVE  GoroutineInv(d)' /\ (pc'[d] = "new" <=> pc[d] = "new")
  <2> USE <1>1, ResultFields
      DEF Inv, ConcurrentInv, GoroutineInv, Decided, TypeOK, Running
  <2>1. CASE PreCheck(c)
    BY <2>1 DEF PreCheck
  <2>2. CASE Enter(c)
    BY <2>2 DEF Enter
  <2>3. CASE Select(c)
    BY <2>3 DEF Select
  <2>4. CASE Attempt(c)
    BY <2>4 DEF Attempt
  <2>5. CASE CancelOnFailure(c)
    BY <2>5 DEF CancelOnFailure
  <2>6. CASE StoreResult(c)
    BY <2>6 DEF StoreResult
  <2>. QED
    BY <2>1, <2>2, <2>3, <2>4, <2>5, <2>6 DEF Goroutine
<1>4. ConcurrentInv'
  BY <1>1, <1>3 DEF Inv, ConcurrentInv, Running
<1>5. CancelInv'
  <2> USE <1>1, ResultFields
      DEF Inv, CancelInv, ConcurrentInv, GoroutineInv, Decided, TypeOK, Running
  <2>1. CASE PreCheck(c)
    BY <2>1 DEF PreCheck
  <2>2. CASE Enter(c)
    BY <2>2 DEF Enter
  <2>3. CASE Select(c)
    BY <2>3 DEF Select
  <2>4. CASE Attempt(c)
    BY <2>4 DEF Attempt
  <2>5. CASE CancelOnFailure(c)
    BY <2>5 DEF CancelOnFailure
  <2>6. CASE StoreResult(c)
    BY <2>6 DEF StoreResult
  <2>. QED
    BY <2>1, <2>2, <2>3, <2>4, <2>5, <2>6 DEF Goroutine
<1>. QED
  BY <1>2, <1>4, <1>5 DEF Inv

-----------------------------------------------------------------------------
(* The steps of the serial loop.                                           *)

\* In serial mode only the caller moves, and what it writes is at idx.
LEMMA SerialStepInv == Inv /\ TypeOK' /\ SerialStep => Inv'
<1> SUFFICES ASSUME Inv, TypeOK', SerialStep PROVE Inv'
  OBVIOUS
<1>1. /\ Running /\ ~cfg.concurrency /\ err = "none" /\ ~cancelled
      /\ \A c \in Case : pc[c] = "new" /\ local[c] = Zero
      /\ main' \in {"serial", "print"} /\ UNCHANGED <<cfg, pc, cancelled, local, err>>
  BY DEF Inv, CallerInv, Running, SerialStep, SerialAttempt, AfterFailure,
         ReturnNow, NextCase
<1>2. CallerInv' /\ ConcurrentInv' /\ CancelInv'
  BY <1>1 DEF CallerInv, ConcurrentInv, CancelInv, Inv, Running
<1>3. idx \in Nat /\ idx >= 1 /\ N \in Nat
  BY <1>1, CasesAssumption DEF CasesAssumption, Inv, SerialInv, TypeOK
<1>4. SerialInv'
  <2> USE <1>1, <1>3, ResultFields
      DEF Inv, SerialInv, Decided, TypeOK, Running, Case,
          AfterFailure, ReturnNow, NextCase
  <2>1. CASE idx > N
    BY <2>1 DEF SerialStep
  <2>2. CASE idx \in Case \ cfg.expected
    <3>1. /\ good' = good /\ res' = [res EXCEPT ![idx] = Failure] /\ idx \notin good
          /\ cfg.failFast => main' = "print" /\ idx' = idx
          /\ ~cfg.failFast => main' = "serial" /\ idx' = idx + 1
      BY <2>2 DEF SerialStep
    <3>2. \A c \in Case : res'[c] = IF c = idx THEN Failure ELSE res[c]
      BY <3>1
    <3>. QED
      BY <2>2, <3>1, <3>2
  <2>3. ASSUME idx \in Case \cap cfg.expected, NEW ok \in BOOLEAN, SerialAttempt(ok)
        PROVE  SerialInv'
    <3>0. res[idx] = Preset /\ main = "serial" /\ idx \notin good
      BY <2>3 DEF SerialStep
    <3>1. CASE ok
      <4>1. /\ good' = good \cup {idx} /\ main' = main /\ idx' = idx + 1
            /\ res' = [res EXCEPT ![idx].skip = FALSE]
        BY <2>3, <3>1 DEF SerialAttempt
      <4>2. \A c \in Case : res'[c] = IF c = idx THEN Zero ELSE res[c]
        <5>1. res \in [Case -> Result] /\ idx \in Case
          BY <2>3
        <5>. HIDE <1>1, <1>3, ResultFields
             DEF Inv, SerialInv, Decided, TypeOK, Running, Case,
                 AfterFailure, ReturnNow, NextCase
        <5>2. [res[idx] EXCEPT !.skip = FALSE] = Zero
          BY <3>0, ResultFields
        <5>. QED
          BY <4>1, <5>1, <5>2
      <4>. QED
        BY <2>3, <3>0, <4>1, <4>2
    <3>2. CASE ~ok /\ current[idx] # Retries
      BY <2>3, <3>0, <3>2 DEF SerialAttempt
    <3>3. CASE ~ok /\ current[idx] = Retries
      <4>1. /\ good' = good /\ res' = [res EXCEPT ![idx] = Failure]
            /\ cfg.failFast => main' = "print" /\ idx' = idx
            /\ ~cfg.failFast => main' = "serial" /\ idx' = idx + 1
        BY <2>3, <3>0, <3>3 DEF SerialAttempt
      <4>2. \A c \in Case : res'[c] = IF c = idx THEN Failure ELSE res[c]
        BY <2>3, <4>1
      <4>. QED
        BY <2>3, <3>0, <4>1, <4>2
    <3>. QED
      BY <3>1, <3>2, <3>3
  <2>. QED
    BY <2>1, <2>2, <2>3 DEF SerialStep
<1>. QED
  BY <1>2, <1>4 DEF Inv

\* The invariant is inductive.
LEMMA NextInv == Inv /\ [Next]_vars => Inv'
<1> SUFFICES ASSUME Inv, [Next]_vars PROVE Inv'
  OBVIOUS
<1>1. TypeOK'
  BY NextTypeOK DEF Inv
<1>2. CASE UNCHANGED vars
  BY <1>2, <1>1 DEF vars, Inv, CallerInv, SerialInv, ConcurrentInv, GoroutineInv,
                    CancelInv, Decided, Running
<1>. QED
  BY <1>1, <1>2, DoVerifyInv, ReportInv, WaitAllInv, SpawnInv, SerialStepInv,
     GoroutineStepInv DEF Next, Caller

\* The inductive invariant of the list holds in every reachable state, in
\* both modes, for every number of cases and every retry count.
THEOREM InvHolds == Spec => []Inv
BY InitInv, NextInv, PTL DEF Spec

-----------------------------------------------------------------------------
(* The safety properties.                                                  *)

\* A verify stage that returns no error has verified every case.
LEMMA InvOk == Inv => OkMeansAllPassed
<1> SUFFICES ASSUME Inv, err = "ok", NEW c \in Case PROVE c \in good
  BY DEF OkMeansAllPassed, Inv, TypeOK
<1>1. Running /\ main = "done"
  BY DEF Inv, CallerInv, Running
<1>2. CASE ~cfg.concurrency
  <2>1. \A d \in Case : res[d].skip \/ ~res[d].err
    BY DEF Inv, CallerInv
  <2>2. /\ idx \notin Case
        /\ Decided(c, res[c]) /\ (c < idx => ~res[c].skip) /\ idx >= 1 /\ idx \in Nat
    BY <1>1, <1>2, <2>1, ResultFields DEF Inv, SerialInv, TypeOK
  <2>3. c < idx
    BY <2>2, CasesAssumption DEF CasesAssumption, Case
  <2>. QED
    BY <2>1, <2>2, <2>3, Zenon DEF Decided
<1>3. CASE cfg.concurrency
  <2>0. \A d \in Case : GoroutineInv(d) /\ pc[d] = "done"
    BY <1>1, <1>3 DEF Inv, ConcurrentInv
  <2>1. Decided(c, res[c])
    BY <2>0, Zenon DEF GoroutineInv
  <2>2. ASSUME cancelled PROVE FALSE
    <3>1. PICK d \in Case : local[d].err
      BY <2>2 DEF Inv, CancelInv
    <3>2. /\ res[d].skip \/ ~res[d].err
          /\ Decided(d, res[d])
          /\ res[d] = local[d] \/ (res[d].skip /\ local[d] = Zero)
      <4>1. res[d].skip \/ ~res[d].err
        BY DEF Inv, CallerInv
      <4>. QED
        BY <2>0, <4>1, Zenon DEF GoroutineInv
    <3>. QED
      BY <3>1, <3>2, ResultFields, Zenon DEF Decided
  <2>. QED
    <3>1. ~res[c].skip /\ ~res[c].err
      BY <2>0, <2>2 DEF Inv, CallerInv, GoroutineInv
    <3>. QED
      BY <2>1, <3>1, Zenon DEF Decided
<1>. QED
  BY <1>2, <1>3

\* Every skip is explained by a failure that the report shows.
LEMMA InvSkip == Inv => SkipOnlyAfterFailure
<1> SUFFICES ASSUME Inv, main = "done", ~cfg.error, NEW c \in Case, res[c].skip
             PROVE  cfg.failFast /\ \E d \in Case : ~res[d].skip /\ res[d].err
  BY NumFailedPositive DEF SkipOnlyAfterFailure
<1>1. CASE ~cfg.concurrency
  BY <1>1, CasesAssumption, ResultFields
  DEF CasesAssumption, Inv, SerialInv, Decided, Running, TypeOK, Case
<1>2. CASE cfg.concurrency
  BY <1>2, ResultFields
  DEF Inv, ConcurrentInv, GoroutineInv, CancelInv, Decided, Running
<1>. QED
  BY <1>1, <1>2

\* A settled case is reported as its attempts showed it.
LEMMA InvReport == Inv => ReportMatchesAttempts
BY DEF Inv, ReportMatchesAttempts, SerialInv, ConcurrentInv, GoroutineInv,
       Decided, Running

\* Serial fail-fast skips exactly the tail that follows one failure.
LEMMA InvTail == Inv => SerialSkipsTheTail
<1> SUFFICES ASSUME Inv, main = "done", ~cfg.error, ~cfg.concurrency,
                    NEW c \in Case, res[c].skip
             PROVE  \E f \in 1..(c - 1) :
                      /\ res[f] = Failure
                      /\ 1..(f - 1) \subseteq good /\ \A d \in f..N : d \notin good
  BY DEF SerialSkipsTheTail
<1> USE CasesAssumption, ResultFields
    DEF CasesAssumption, Inv, SerialInv, Decided, Running, TypeOK, Case
<1>1. idx \in 1..(c - 1) /\ res[idx] = Failure /\ cfg.failFast
  OBVIOUS
<1>2. ASSUME NEW d \in 1..(idx - 1) PROVE d \in good
  <2>1. d \in Case /\ d < idx
    BY <1>1
  <2>. QED
    BY <1>1, <2>1
<1>3. ASSUME NEW d \in idx..N PROVE d \notin good
  <2>1. d \in Case /\ (d = idx \/ d > idx)
    BY <1>1
  <2>. QED
    BY <1>1, <2>1
<1>. QED
  BY <1>1, <1>2, <1>3

\* A verify stage that returns no error has verified every case.
THEOREM OkIsTrue == Spec => []OkMeansAllPassed
BY InvOk, InvHolds, PTL

\* The report of a list tells the truth about the attempts of its cases.
THEOREM ReportIsTrue == Spec => []ReportIsRight
<1>1. Inv => ReportIsRight
  BY InvSkip, InvReport, InvTail DEF ReportIsRight
<1>. QED
  BY <1>1, InvHolds, PTL

\* No goroutine of the list outlives it.
THEOREM NoGoroutineIsLate == Spec => []NoLateGoroutine
<1>1. Inv => NoLateGoroutine
  BY DEF Inv, NoLateGoroutine, CallerInv, ConcurrentInv, Running
<1>. QED
  BY <1>1, InvHolds, PTL

-----------------------------------------------------------------------------
(* The assert stage.                                                       *)

\* Each step of AssertCases is one of VerifyCases, or stutters there.
LEMMA AssertStep == [AssertNext]_assertVars => [Next]_vars
<1> SUFFICES ASSUME [AssertNext]_assertVars PROVE [Next]_vars
  OBVIOUS
<1>1. CASE StageCaller
  BY <1>1 DEF StageCaller, Next
<1>2. CASE AttemptPanics
  BY <1>2 DEF AttemptPanics
<1>3. ASSUME NEW c \in Case, VerifyGoroutine(c) PROVE Next
  BY <1>3 DEF VerifyGoroutine, Next
<1>4. ASSUME NEW c \in Case, ConcurrentlyAssertSingleCase(c) PROVE Next
  <2>1. Goroutine(c)
    BY <1>4 DEF ConcurrentlyAssertSingleCase, Goroutine
  <2>. QED
    BY <2>1 DEF Next
<1>5. CASE UNCHANGED assertVars
  BY <1>5 DEF assertVars
<1>. QED
  BY <1>1, <1>2, <1>3, <1>4, <1>5 DEF AssertNext

\* The inductive invariant holds in both stages, and up to a panic.
THEOREM AssertInvHolds == AssertSpec => []Inv
<1>1. AssertInit => Inv
  BY InitInv DEF AssertInit
<1>2. Inv /\ [AssertNext]_assertVars => Inv'
  BY AssertStep, NextInv
<1>. QED
  BY <1>1, <1>2, PTL DEF AssertSpec

\* An assert stage, too, returns no error only when every case has succeeded.
THEOREM AssertOkIsTrue == AssertSpec => []OkMeansAllPassed
BY InvOk, AssertInvHolds, PTL

\* Its report tells the truth about the attempts.
THEOREM AssertReportIsTrue == AssertSpec => []ReportIsRight
<1>1. Inv => ReportIsRight
  BY InvSkip, InvReport, InvTail DEF ReportIsRight
<1>. QED
  BY <1>1, AssertInvHolds, PTL

\* A list of the assert stage is reported as a whole or not at all: a process
\* that has died has reported nothing.
THEOREM DeadReportsNothing == AssertSpec => []DeadIsSilent
<1> DEFINE J == Inv /\ DeadIsSilent
<1>1. AssertInit => J
  BY InitInv DEF AssertInit, DeadIsSilent
<1>2. J /\ [AssertNext]_assertVars => J'
  <2> SUFFICES ASSUME J, [AssertNext]_assertVars PROVE J'
    OBVIOUS
  <2>1. Inv'
    BY AssertStep, NextInv
  <2>2. DeadIsSilent'
    <3>1. CASE StageCaller
      BY <3>1 DEF StageCaller, DeadIsSilent
    <3>2. CASE AttemptPanics
      <4>1. main # "done"
        <5>1. CASE main = "serial"
          BY <5>1
        <5>2. ASSUME NEW c \in Case, pc[c] = "attempt" PROVE main # "done"
          BY <5>2, GoroutineRuns
        <5>. QED
          BY <3>2, <5>1, <5>2 DEF AttemptPanics
      <4>. QED
        BY <3>2, <4>1 DEF AttemptPanics, DeadIsSilent, Inv, CallerInv, vars
    <3>3. ASSUME NEW c \in Case, VerifyGoroutine(c) PROVE DeadIsSilent'
      BY <3>3 DEF VerifyGoroutine, Goroutine, PreCheck, Enter, Select, Attempt,
                  CancelOnFailure, StoreResult, DeadIsSilent
    <3>4. ASSUME NEW c \in Case, ConcurrentlyAssertSingleCase(c) PROVE DeadIsSilent'
      <4>1. err' = err /\ pc[c] \notin {"new", "done"}
        BY <3>4 DEF ConcurrentlyAssertSingleCase, PreCheck, Enter, Select, Attempt, Goto
      <4>2. err = "none"
        BY <4>1, GoroutineRuns
      <4>. QED
        BY <4>1, <4>2 DEF DeadIsSilent
    <3>5. CASE UNCHANGED assertVars
      BY <3>5 DEF assertVars, vars, DeadIsSilent
    <3>. QED
      BY <3>1, <3>2, <3>3, <3>4, <3>5 DEF AssertNext
  <2>. QED
    BY <2>1, <2>2
<1>. QED
  BY <1>1, <1>2, PTL DEF AssertSpec

-----------------------------------------------------------------------------
(* The refinement of CaseVerdict.                                          *)

\* Only an assert stage dies; until it does no goroutine of it comes to its
\* deferred call; and a list that has not begun to run has skipped everything.
StageInv ==
  /\ crashed \in BOOLEAN /\ crashed => cfg.stage = "assert"
  /\ cfg.stage = "assert" /\ cfg.concurrency /\ ~crashed =>
       \A c \in Case : pc[c] \notin {"defer", "store", "done"}
  /\ ~Running => \A c \in Case : res[c] = Preset

RefinesInv == Inv /\ DeadIsSilent /\ StageInv

\* At the start.
LEMMA StageInit == AssertInit => StageInv
BY DEF AssertInit, Init, StageInv, Running

\* A process that has died takes no step.
LEMMA DeadTakesNoStep == ASSUME StageInv, AssertNext PROVE ~crashed
<1>1. ASSUME NEW c \in Case, VerifyGoroutine(c) PROVE ~crashed
  <2>1. cfg.stage = "verify" /\ "verify" # "assert"
    BY <1>1 DEF VerifyGoroutine
  <2>. QED
    BY <2>1 DEF StageInv
<1>. QED
  BY <1>1, Zenon DEF AssertNext, StageCaller, AttemptPanics, ConcurrentlyAssertSingleCase

\* Every step preserves it.
LEMMA StageStep == ASSUME Inv, StageInv, [AssertNext]_assertVars PROVE StageInv'
<1>1. CASE UNCHANGED assertVars
  BY <1>1 DEF assertVars, vars, StageInv, Running
<1>2. CASE AttemptPanics
  BY <1>2 DEF AttemptPanics, vars, StageInv, Running
<1>3. CASE StageCaller
  <2>1. ~crashed /\ ~crashed' /\ Caller /\ crashed' = crashed
    BY <1>3 DEF StageCaller
  <2>2. CASE DoVerify
    BY <2>1, <2>2 DEF DoVerify, StageInv, Running
  <2>3. CASE SerialStep
    <3>1. main = "serial" /\ cfg' = cfg /\ pc' = pc /\ main' \in {"serial", "print"}
      BY <2>3 DEF SerialStep, SerialAttempt, AfterFailure, NextCase, ReturnNow
    <3>2. ~cfg.error
      BY <3>1 DEF Inv, CallerInv
    <3>. QED
      BY <2>1, <3>1, <3>2 DEF StageInv, Running
  <2>4. CASE Spawn
    <3>1. cfg' = cfg /\ res' = res /\ main' # "start" /\ ~cfg.error
      BY <2>4 DEF Spawn, Inv, CallerInv
    <3>2. \A c \in Case : pc'[c] = pc[c] \/ pc'[c] = "precheck"
      BY <2>4 DEF Spawn, Inv, TypeOK
    <3>. QED
      BY <2>1, <3>1, <3>2 DEF StageInv, Running
  <2>5. CASE WaitAll \/ Report
    BY <2>1, <2>5 DEF WaitAll, Report, StageInv, Running, Inv, CallerInv
  <2>. QED
    BY <2>1, <2>2, <2>3, <2>4, <2>5 DEF Caller
<1>4. ASSUME NEW c \in Case, VerifyGoroutine(c) PROVE StageInv'
  <2>1. /\ cfg' = cfg /\ main' = main /\ crashed' = crashed /\ cfg.stage = "verify"
        /\ pc[c] \notin {"new", "done"}
    BY <1>4 DEF VerifyGoroutine, Goroutine, PreCheck, Enter, Select, Attempt,
                CancelOnFailure, StoreResult, Goto
  <2>2. Running
    BY <2>1, GoroutineRuns
  <2>. QED
    BY <2>1, <2>2 DEF StageInv, Running
<1>5. ASSUME NEW c \in Case, ConcurrentlyAssertSingleCase(c) PROVE StageInv'
  <2>1. /\ cfg' = cfg /\ main' = main /\ ~crashed /\ cfg.stage = "assert"
        /\ pc[c] \notin {"new", "done"} /\ crashed' = (pc'[c] = "defer")
    BY <1>5 DEF ConcurrentlyAssertSingleCase, PreCheck, Enter, Select, Attempt, Goto
  <2>2. Running /\ cfg.concurrency
    BY <2>1, GoroutineRuns
  <2>3. ~cancelled
    BY <2>1, <2>2 DEF StageInv, Inv, CancelInv
  <2>4. \A d \in Case : d # c => pc'[d] = pc[d]
    BY <1>5 DEF ConcurrentlyAssertSingleCase, PreCheck, Enter, Select, Attempt, Goto,
                Inv, TypeOK
  <2>5. pc'[c] \in {"enter", "select", "attempt", "defer"}
    BY <1>5, <2>3 DEF ConcurrentlyAssertSingleCase, PreCheck, Enter, Select, Attempt, Goto,
                      Inv, TypeOK
  <2>6. crashed' \in BOOLEAN
    BY <2>1, Zenon
  <2>. QED
    BY <2>1, <2>2, <2>4, <2>5, <2>6 DEF StageInv, Running
<1>. QED
  BY <1>1, <1>2, <1>3, <1>4, <1>5 DEF AssertNext

\* The three ways in which a step is seen by the caller.
LEMMA IsStutter ==
  ASSUME cfg' = cfg, outcomeBar' = outcomeBar,
         \A c \in Case : verdictBar'[c] = verdictBar[c]
  PROVE  UNCHANGED Abstract!vars
<1>1. verdictBar' = verdictBar
  BY DEF verdictBar
<1>. QED
  BY <1>1 DEF Abstract!vars

LEMMA IsSettle ==
  ASSUME NEW c \in Case, cfg' = cfg, outcomeBar = "running", outcomeBar' = "running",
         verdictBar[c] = "pending", verdictBar'[c] \in {"pass", "fail"},
         \A d \in Case \ {c} : verdictBar'[d] = verdictBar[d]
  PROVE  Abstract!Next
<1>. DEFINE v == verdictBar'[c]
<1>1. verdictBar' = [verdictBar EXCEPT ![c] = v]
  BY DEF verdictBar
<1>2. v \in {"pass", "fail"}
  OBVIOUS
<1>3. Abstract!Settle(c)
  BY <1>1, <1>2 DEF Abstract!Settle
<1>. QED
  BY <1>3 DEF Abstract!Next

LEMMA IsDie ==
  ASSUME cfg' = cfg, cfg.stage = "assert", outcomeBar = "running", outcomeBar' = "dead",
         \A c \in Case : verdictBar'[c] = verdictBar[c]
  PROVE  Abstract!Next
<1>1. verdictBar' = verdictBar
  BY DEF verdictBar
<1>. QED
  BY <1>1 DEF Abstract!Next, Abstract!Die

\* A result that has a slot of its own.
Shown(r) == IF r.skip THEN "pending" ELSE IF r.err THEN "fail" ELSE "pass"

\* What the caller sees of a list that is running: of a serial one its slots, of
\* a concurrent one the results of the goroutines that have come to their
\* deferred call.
LEMMA SeenOfSerial ==
  LET Seen == main \notin {"start", "done"} /\ ~cfg.concurrency =>
                \A c \in Case : verdictBar[c] = Shown(res[c])
  IN  Seen /\ Seen'
BY DEF verdictBar, Settled, Latest, Shown

LEMMA SeenOfConcurrent ==
  LET Seen == main \notin {"start", "done"} /\ cfg.concurrency =>
                \A c \in Case :
                  verdictBar[c] =
                    IF crashed \/ pc[c] \notin {"defer", "store", "done"} THEN "pending"
                    ELSE Shown(IF pc[c] = "done" THEN res[c] ELSE local[c])
  IN  Seen /\ Seen'
BY DEF verdictBar, Settled, Latest, Shown

\* Before it runs, and if it is refused, nothing.
LEMMA SeenOfRefused ==
  LET Seen == Inv /\ StageInv /\ ~Running => \A c \in Case : verdictBar[c] = "pending"
  IN  Seen /\ Seen'
<1>1. Inv /\ StageInv /\ ~Running =>
        \A c \in Case : res[c].skip /\ pc[c] = "new" /\ (main = "start" \/ cfg.error)
  BY ResultFields DEF Inv, CallerInv, StageInv, Running
<1>2. Inv' /\ StageInv' /\ ~Running' =>
        \A c \in Case : res'[c].skip /\ pc'[c] = "new" /\ (main' = "start" \/ cfg.error')
  BY ResultFields DEF Inv, CallerInv, StageInv, Running
<1>3. \A c \in Case : res[c].skip /\ pc[c] = "new" /\ (main = "start" \/ cfg.error) =>
        verdictBar[c] = "pending"
  BY DEF verdictBar, Settled
<1>4. \A c \in Case : res'[c].skip /\ pc'[c] = "new" /\ (main' = "start" \/ cfg.error') =>
        verdictBar'[c] = "pending"
  BY DEF verdictBar, Settled
<1>. QED
  BY <1>1, <1>2, <1>3, <1>4

\* The configuration is read: the list is refused, or nothing is seen yet.
LEMMA DoVerifyRefines ==
  ASSUME Inv, StageInv, ~crashed, DoVerify, crashed' = crashed, Inv', StageInv'
  PROVE  Abstract!Next \/ UNCHANGED Abstract!vars
<1>1. main = "start" /\ cfg' = cfg /\ err = "none" /\ pc' = pc
  BY DEF DoVerify, Inv, CallerInv
<1>2. \A c \in Case : verdictBar[c] = "pending"
  BY <1>1, SeenOfRefused DEF Running
<1>3. CASE cfg.error
  <2>1. main' = "done" /\ err' = "error" /\ ~Running'
    BY <1>1, <1>3 DEF DoVerify, Running
  <2>2. \A c \in Case : verdictBar'[c] = "pending"
    BY <1>1, <2>1, SeenOfRefused
  <2>3. verdictBar' = verdictBar
    BY <1>2, <2>2 DEF verdictBar
  <2>4. outcomeBar = "running" /\ outcomeBar' = "error"
    BY <1>1, <2>1 DEF outcomeBar
  <2>5. Abstract!Refuse
    BY <1>1, <1>2, <2>3, <2>4 DEF Abstract!Refuse, Abstract!Pending
  <2>. QED
    BY <2>5 DEF Abstract!Next
<1>4. CASE ~cfg.error /\ cfg.concurrency
  <2>1. main' = "spawn" /\ err' = err
    BY <1>4 DEF DoVerify
  <2>2. \A c \in Case : pc[c] = "new"
    BY <1>1 DEF Inv, CallerInv, Running
  <2>3. \A c \in Case : verdictBar'[c] = "pending"
    BY <1>1, <1>4, <2>1, <2>2, SeenOfConcurrent
  <2>4. outcomeBar' = outcomeBar
    BY <2>1 DEF outcomeBar
  <2>. QED
    BY <1>1, <1>2, <2>3, <2>4, IsStutter
<1>5. CASE ~cfg.error /\ ~cfg.concurrency
  <2>1. main' = "serial" /\ err' = err /\ \A c \in Case : res'[c] = Preset
    BY <1>5 DEF DoVerify
  <2>2. \A c \in Case : verdictBar'[c] = "pending"
    BY <1>1, <1>5, <2>1, SeenOfSerial, ResultFields DEF Shown
  <2>3. outcomeBar' = outcomeBar
    BY <2>1 DEF outcomeBar
  <2>. QED
    BY <1>1, <1>2, <2>2, <2>3, IsStutter
<1>. QED
  BY <1>3, <1>4, <1>5

\* The serial loop decides the case it is at, or is not seen.
LEMMA SerialRefines ==
  ASSUME Inv, ~crashed, SerialStep, crashed' = crashed, Inv'
  PROVE  Abstract!Next \/ UNCHANGED Abstract!vars
<1>1. /\ main = "serial" /\ ~cfg.concurrency /\ cfg' = cfg /\ err' = err /\ err = "none"
      /\ Running
  BY DEF SerialStep, Inv, CallerInv, Running
<1>2. main' \in {"serial", "print"}
  BY <1>1 DEF SerialStep, SerialAttempt, AfterFailure, NextCase, ReturnNow
<1>3. \A c \in Case : verdictBar[c] = Shown(res[c]) /\ verdictBar'[c] = Shown(res'[c])
  BY <1>1, <1>2, SeenOfSerial
<1>4. outcomeBar = "running" /\ outcomeBar' = "running"
  BY <1>1 DEF outcomeBar
<1>5. CASE res' = res
  BY <1>1, <1>3, <1>4, <1>5, IsStutter
<1>6. CASE res' # res
  <2>1. /\ idx \in Case
        /\ \/ res' = [res EXCEPT ![idx] = Failure]
           \/ res' = [res EXCEPT ![idx].skip = FALSE]
    BY <1>6 DEF SerialStep, SerialAttempt
  <2>2. res[idx] = Preset
    BY <1>1, <2>1 DEF Inv, SerialInv
  <2>3. \A d \in Case \ {idx} : res'[d] = res[d]
    BY <2>1 DEF Inv, TypeOK
  <2>4. res'[idx] = Failure \/ res'[idx] = [Preset EXCEPT !.skip = FALSE]
    BY <2>1, <2>2 DEF Inv, TypeOK
  <2>5. Shown(Failure) = "fail" /\ Shown([Preset EXCEPT !.skip = FALSE]) = "pass"
    BY ResultFields DEF Shown, Preset
  <2>6. verdictBar[idx] = "pending" /\ verdictBar'[idx] \in {"pass", "fail"}
    BY <1>3, <2>1, <2>2, <2>4, <2>5, ResultFields DEF Shown
  <2>7. \A d \in Case \ {idx} : verdictBar'[d] = verdictBar[d]
    BY <1>3, <2>3 DEF Shown
  <2>. QED
    BY <1>1, <1>4, <2>1, <2>6, <2>7, IsSettle
<1>. QED
  BY <1>5, <1>6

\* The caller begins a goroutine, or has waited for all: nobody sees it.
LEMMA SpawnRefines ==
  ASSUME Inv, ~crashed, Spawn \/ WaitAll, crashed' = crashed
  PROVE  UNCHANGED Abstract!vars
<1>1. /\ main \in {"spawn", "wait"} /\ main' \in {"spawn", "wait", "print"} /\ cfg' = cfg
      /\ err' = err /\ res' = res /\ local' = local
  BY DEF Spawn, WaitAll
<1>2. cfg.concurrency /\ Running
  BY <1>1 DEF Inv, CallerInv, Running
<1>4. \A c \in Case : pc'[c] = pc[c] \/ (pc[c] = "new" /\ pc'[c] = "precheck")
  <2>1. CASE pc' = pc
    BY <2>1
  <2>2. CASE pc' # pc
    <3>1. /\ main = "spawn" /\ idx \in Nat /\ N \in Nat /\ idx < N
          /\ pc' = [pc EXCEPT ![idx + 1] = "precheck"]
      BY <2>2, CasesAssumption DEF CasesAssumption, Spawn, WaitAll, Inv, TypeOK
    <3>2. idx + 1 \in Case /\ pc[idx + 1] = "new"
      BY <1>2, <3>1 DEF Inv, ConcurrentInv, Case
    <3>. QED
      BY <3>1, <3>2 DEF Inv, TypeOK
  <2>. QED
    BY <2>1, <2>2
<1>3. \A c \in Case : verdictBar'[c] = verdictBar[c]
  BY <1>1, <1>2, <1>4, SeenOfConcurrent
<1>. QED
  BY <1>1, <1>3, IsStutter DEF outcomeBar

\* The report: what is not settled is skipped for a failure that shows.
LEMMA ReportRefines ==
  ASSUME Inv, ~crashed, Report, crashed' = crashed, Inv'
  PROVE  Abstract!Next
<1>1. /\ main = "print" /\ main' = "done" /\ cfg' = cfg /\ res' = res /\ pc' = pc
      /\ local' = local /\ err = "none" /\ ~cfg.error
      /\ err' = IF NumFailed > 0 THEN "error" ELSE "ok"
  BY DEF Report, Inv, CallerInv
<1>2. cfg.concurrency => \A c \in Case : pc[c] = "done"
  BY <1>1 DEF Inv, ConcurrentInv, Running
<1>3. \A c \in Case : verdictBar[c] = Shown(res[c])
  BY <1>1, <1>2, SeenOfSerial, SeenOfConcurrent DEF Shown
<1>4. \A c \in Case :
        verdictBar'[c] = IF verdictBar[c] = "pending" THEN "skip" ELSE verdictBar[c]
  <2>. SUFFICES ASSUME NEW c \in Case
                PROVE  verdictBar'[c] = IF res[c].skip THEN "skip"
                                        ELSE IF res[c].err THEN "fail" ELSE "pass"
    BY <1>3 DEF Shown
  <2>. QED
    BY <1>1, <1>2 DEF verdictBar, Settled, Latest
<1>5. Abstract!Failed # {} <=> NumFailed > 0
  BY <1>3, NumFailedPositive DEF Abstract!Failed, Shown
<1>6. Abstract!Pending # {} => cfg.failFast /\ Abstract!Failed # {}
  <2>. SUFFICES ASSUME NEW c \in Case, verdictBar[c] = "pending"
                PROVE  cfg.failFast /\ Abstract!Failed # {}
    BY DEF Abstract!Pending
  <2>1. res[c].skip
    BY <1>3 DEF Shown
  <2>2. SkipOnlyAfterFailure'
    BY InvSkip, PTL
  <2>3. NumFailed' = NumFailed
    BY <1>1 DEF NumFailed
  <2>. QED
    BY <1>1, <1>5, <2>1, <2>2, <2>3 DEF SkipOnlyAfterFailure
<1>7. verdictBar' = [c \in Case |-> IF c \in Abstract!Pending THEN "skip" ELSE verdictBar[c]]
  BY <1>4 DEF verdictBar, Abstract!Pending
<1>8. outcomeBar = "running" /\ outcomeBar' = IF Abstract!Failed # {} THEN "error" ELSE "ok"
  BY <1>1, <1>5 DEF outcomeBar
<1>. QED
  BY <1>1, <1>6, <1>7, <1>8 DEF Abstract!Finish, Abstract!Next

\* A goroutine that is running, and nothing but its own place and results
\* changes.
LEMMA GoroutineTouches ==
  ASSUME Inv, NEW c \in Case, Goroutine(c)
  PROVE  /\ Running /\ cfg.concurrency /\ err = "none" /\ main \notin {"start", "done"}
         /\ cfg' = cfg /\ main' = main /\ err' = err /\ pc[c] \notin {"new", "done"}
         /\ \A d \in Case \ {c} : pc'[d] = pc[d] /\ local'[d] = local[d] /\ res'[d] = res[d]
<1>1. cfg' = cfg /\ main' = main /\ err' = err /\ pc[c] \notin {"new", "done"}
  BY DEF Goroutine, PreCheck, Enter, Select, Attempt, CancelOnFailure, StoreResult, Goto
<1>2. \A d \in Case \ {c} : pc'[d] = pc[d] /\ local'[d] = local[d] /\ res'[d] = res[d]
  BY DEF Goroutine, PreCheck, Enter, Select, Attempt, CancelOnFailure, StoreResult, Goto,
         Inv, TypeOK
<1>3. Running /\ cfg.concurrency /\ err = "none" /\ main \notin {"print", "done"}
  BY <1>1, GoroutineRuns
<1>. QED
  BY <1>1, <1>2, <1>3 DEF Running

\* A goroutine of a verify stage decides its case when it comes to its deferred
\* call with a result that is not skipped.
LEMMA VerifyRefines ==
  ASSUME Inv, NEW c \in Case, ~crashed, Goroutine(c), crashed' = crashed
  PROVE  Abstract!Next \/ UNCHANGED Abstract!vars
<1>1. /\ Running /\ cfg.concurrency /\ err = "none" /\ main \notin {"start", "done"}
      /\ cfg' = cfg /\ main' = main /\ err' = err /\ pc[c] \notin {"new", "done"}
      /\ \A d \in Case \ {c} : pc'[d] = pc[d] /\ local'[d] = local[d] /\ res'[d] = res[d]
  BY GoroutineTouches
<1>2. outcomeBar = "running" /\ outcomeBar' = "running"
  BY <1>1 DEF outcomeBar
<1>3. \A d \in Case \ {c} : verdictBar'[d] = verdictBar[d]
  BY <1>1, SeenOfConcurrent
<1>4. /\ verdictBar[c] = IF pc[c] \notin {"defer", "store"} THEN "pending" ELSE Shown(local[c])
      /\ verdictBar'[c] = IF pc'[c] \notin {"defer", "store", "done"} THEN "pending"
                          ELSE Shown(IF pc'[c] = "done" THEN res'[c] ELSE local'[c])
  BY <1>1, SeenOfConcurrent
<1>5. pc \in [Case -> {"new", "precheck", "enter", "select", "attempt", "defer", "store", "done"}]
      /\ local \in [Case -> Result] /\ res \in [Case -> Result]
  BY DEF Inv, TypeOK
<1>6. /\ GoroutineInv(c) /\ res[c] = Zero
      /\ pc[c] \notin {"defer", "store"} => local[c] = Zero
  BY <1>1, GoroutineRuns DEF Inv, ConcurrentInv, GoroutineInv
<1>7. /\ Shown(Preset) = "pending" /\ Shown(Zero) = "pass" /\ Shown(Failure) = "fail"
  BY ResultFields DEF Shown
<1>8. CASE PreCheck(c)
  <2>1. \/ pc'[c] = "enter"
        \/ pc'[c] = "done" /\ res'[c] = Preset
    BY <1>5, <1>6, <1>8, ResultFields DEF PreCheck, Goto
  <2>2. pc[c] = "precheck"
    BY <1>8 DEF PreCheck, Goto
  <2>3. verdictBar'[c] = verdictBar[c]
    BY <1>4, <1>7, <2>1, <2>2
  <2>. QED
    BY <1>1, <1>2, <1>3, <2>3, IsStutter
<1>9. CASE Enter(c)
  <2>1. /\ pc[c] = "enter"
        /\ pc'[c] = "select" \/ (pc'[c] = "defer" /\ local'[c] = Failure)
    BY <1>5, <1>9 DEF Enter, Goto
  <2>2. verdictBar[c] = "pending" /\ verdictBar'[c] \in {"pending", "fail"}
    BY <1>4, <1>7, <2>1
  <2>. QED
    BY <1>1, <1>2, <1>3, <2>2, IsStutter, IsSettle
<1>10. CASE Select(c)
  <2>1. /\ pc[c] = "select"
        /\ pc'[c] = "attempt" \/ (pc'[c] = "defer" /\ local'[c] = Preset)
    <3>1. /\ pc[c] = "select"
          /\ \/ pc'[c] = "attempt"
             \/ pc'[c] = "defer" /\ local'[c] = [Zero EXCEPT !.skip = TRUE]
      BY <1>5, <1>6, <1>10 DEF Select, Goto
    <3>2. [Zero EXCEPT !.skip = TRUE] = Preset
      BY ResultFields
    <3>. QED
      BY <3>1, <3>2, Zenon
  <2>2. verdictBar'[c] = verdictBar[c]
    BY <1>4, <1>7, <2>1
  <2>. QED
    BY <1>1, <1>2, <1>3, <2>2, IsStutter
<1>11. CASE Attempt(c)
  <2>1. /\ pc[c] = "attempt"
        /\ \/ pc'[c] = "select"
           \/ pc'[c] = "defer" /\ local'[c] \in {Zero, [Zero EXCEPT !.err = TRUE]}
    BY <1>5, <1>6, <1>11 DEF Attempt, Goto
  <2>2. verdictBar[c] = "pending" /\ verdictBar'[c] \in {"pending", "pass", "fail"}
    BY <1>4, <1>7, <2>1, ResultFields
  <2>. QED
    BY <1>1, <1>2, <1>3, <2>2, IsStutter, IsSettle
<1>12. CASE CancelOnFailure(c)
  <2>1. pc[c] = "defer" /\ pc'[c] = "store" /\ local'[c] = local[c]
    BY <1>5, <1>12 DEF CancelOnFailure, Goto
  <2>2. verdictBar'[c] = verdictBar[c]
    BY <1>4, <2>1
  <2>. QED
    BY <1>1, <1>2, <1>3, <2>2, IsStutter
<1>13. CASE StoreResult(c)
  <2>1. pc[c] = "store" /\ pc'[c] = "done" /\ res'[c] = local[c]
    BY <1>5, <1>13 DEF StoreResult, Goto
  <2>2. verdictBar'[c] = verdictBar[c]
    BY <1>4, <2>1
  <2>. QED
    BY <1>1, <1>2, <1>3, <2>2, IsStutter
<1>. QED
  BY <1>8, <1>9, <1>10, <1>11, <1>12, <1>13 DEF Goroutine

\* A goroutine of an assert stage is not seen: where it would decide its case
\* the process dies.
LEMMA AssertRefines ==
  ASSUME Inv, StageInv, NEW c \in Case, ConcurrentlyAssertSingleCase(c)
  PROVE  Abstract!Next \/ UNCHANGED Abstract!vars
<1>1. /\ cfg.stage = "assert" /\ ~crashed /\ Goroutine(c) /\ crashed' = (pc'[c] = "defer")
  BY DEF ConcurrentlyAssertSingleCase, Goroutine
<1>2. /\ Running /\ cfg.concurrency /\ err = "none" /\ main \notin {"start", "done"}
      /\ cfg' = cfg /\ main' = main /\ err' = err /\ pc[c] \notin {"new", "done"}
      /\ \A d \in Case \ {c} : pc'[d] = pc[d] /\ local'[d] = local[d] /\ res'[d] = res[d]
  BY <1>1, GoroutineTouches
<1>3. \A d \in Case : pc[d] \notin {"defer", "store", "done"}
  BY <1>1, <1>2 DEF StageInv
<1>4. \A d \in Case : verdictBar[d] = "pending"
  BY <1>2, <1>3, SeenOfConcurrent
<1>5. ~cancelled
  BY <1>3 DEF Inv, CancelInv
<1>6. pc'[c] \in {"enter", "select", "attempt", "defer"}
  BY <1>5 DEF ConcurrentlyAssertSingleCase, PreCheck, Enter, Select, Attempt, Goto,
              Inv, TypeOK
<1>7. \A d \in Case : crashed' \/ pc'[d] \notin {"defer", "store", "done"}
  BY <1>1, <1>2, <1>3, <1>6
<1>8. \A d \in Case : verdictBar'[d] = "pending"
  BY <1>2, <1>7, SeenOfConcurrent
<1>9. outcomeBar = "running" /\ outcomeBar' = IF crashed' THEN "dead" ELSE "running"
  BY <1>1, <1>2 DEF outcomeBar
<1>10. CASE crashed'
  BY <1>1, <1>2, <1>4, <1>8, <1>9, <1>10, IsDie
<1>11. CASE ~crashed'
  BY <1>2, <1>4, <1>8, <1>9, <1>11, IsStutter
<1>. QED
  BY <1>10, <1>11

\* A panic of an attempt ends the process.
LEMMA PanicRefines ==
  ASSUME Inv, StageInv, AttemptPanics
  PROVE  Abstract!Next
<1>1. /\ cfg.stage = "assert" /\ ~crashed /\ crashed' /\ UNCHANGED vars
      /\ main = "serial" \/ \E c \in Case : pc[c] = "attempt"
  BY DEF AttemptPanics
<1>2. err = "none" /\ main \notin {"start", "done"}
  <2>1. CASE main = "serial"
    BY <2>1 DEF Inv, CallerInv
  <2>2. ASSUME NEW c \in Case, pc[c] = "attempt" PROVE err = "none" /\ main \notin {"start", "done"}
    BY <2>2, GoroutineRuns DEF Running
  <2>. QED
    BY <1>1, <2>1, <2>2
<1>3. cfg' = cfg /\ main' = main /\ res' = res
  BY <1>1 DEF vars
<1>4. \A c \in Case : verdictBar'[c] = verdictBar[c]
  <2>1. CASE cfg.concurrency
    <3>1. \A c \in Case : pc[c] \notin {"defer", "store", "done"}
      BY <1>1, <2>1 DEF StageInv
    <3>. QED
      BY <1>1, <1>2, <1>3, <2>1, <3>1, SeenOfConcurrent
  <2>2. CASE ~cfg.concurrency
    BY <1>2, <1>3, <2>2, SeenOfSerial
  <2>. QED
    BY <2>1, <2>2
<1>5. outcomeBar = "running" /\ outcomeBar' = "dead"
  BY <1>1, <1>2 DEF outcomeBar
<1>. QED
  BY <1>1, <1>3, <1>4, <1>5, IsDie

\* A list of either stage, run in either way, does nothing that CaseVerdict does
\* not allow: a case is decided once, the list answers for its cases, and what
\* is skipped is skipped for a failure.
THEOREM PromiseIsKept == AssertSpec => Abstract!Init /\ [][Abstract!Next]_(Abstract!vars)
<1>1. AssertInit => RefinesInv /\ Abstract!Init
  <2>. SUFFICES ASSUME AssertInit PROVE RefinesInv /\ Abstract!Init
    OBVIOUS
  <2>1. RefinesInv
    BY InitInv, StageInit DEF AssertInit, DeadIsSilent, RefinesInv
  <2>2. \A c \in Case : verdictBar[c] = "pending"
    BY <2>1, SeenOfRefused DEF RefinesInv, AssertInit, Init, Running
  <2>3. verdictBar = [c \in Case |-> "pending"]
    BY <2>2 DEF verdictBar
  <2>4. outcomeBar = "running"
    BY DEF AssertInit, Init, outcomeBar
  <2>5. cfg.failFast \in BOOLEAN /\ (cfg.stage = "assert") \in BOOLEAN
    BY DEF AssertInit, Init, Config
  <2>. QED
    BY <2>1, <2>3, <2>4, <2>5 DEF Abstract!Init
<1>2. RefinesInv /\ [AssertNext]_assertVars => StageInv'
  BY StageStep DEF RefinesInv
<1>3. Inv /\ [AssertNext]_assertVars => Inv'
  BY AssertStep, NextInv
<1>4. Inv /\ Inv' /\ StageInv /\ StageInv' /\ [AssertNext]_assertVars =>
        [Abstract!Next]_(Abstract!vars)
  <2>. SUFFICES ASSUME Inv, Inv', StageInv, StageInv', [AssertNext]_assertVars
                PROVE  Abstract!Next \/ UNCHANGED Abstract!vars
    OBVIOUS
  <2>1. CASE StageCaller
    <3>1. Caller /\ ~crashed /\ crashed' = crashed
      BY <2>1 DEF StageCaller
    <3>. QED
      BY <3>1, DoVerifyRefines, SerialRefines, SpawnRefines, ReportRefines DEF Caller
  <2>2. CASE AttemptPanics
    BY <2>2, PanicRefines
  <2>3. ASSUME NEW c \in Case, VerifyGoroutine(c)
        PROVE  Abstract!Next \/ UNCHANGED Abstract!vars
    <3>1. AssertNext
      BY <2>3 DEF AssertNext
    <3>2. ~crashed
      BY <3>1, DeadTakesNoStep
    <3>. QED
      BY <2>3, <3>2, VerifyRefines DEF VerifyGoroutine
  <2>4. ASSUME NEW c \in Case, ConcurrentlyAssertSingleCase(c)
        PROVE  Abstract!Next \/ UNCHANGED Abstract!vars
    BY <2>4, AssertRefines
  <2>5. CASE UNCHANGED assertVars
    <3>1. /\ cfg' = cfg /\ main' = main /\ pc' = pc /\ local' = local /\ res' = res
          /\ err' = err /\ crashed' = crashed
      BY <2>5 DEF assertVars, vars
    <3>2. verdictBar' = verdictBar /\ outcomeBar' = outcomeBar
      BY <3>1 DEF verdictBar, outcomeBar, Settled, Latest
    <3>. QED
      BY <3>1, <3>2, IsStutter
  <2>. QED
    BY <2>1, <2>2, <2>3, <2>4, <2>5 DEF AssertNext
<1>. QED
  BY <1>1, <1>2, <1>3, <1>4, DeadReportsNothing, PTL DEF AssertSpec, RefinesInv
=============================================================================

---------------------------- MODULE AssertCases ----------------------------
(***************************************************************************)
(* commands/assert/assert.go beside commands/verify/verify.go: the assert  *)
(* stage runs its cases with the code of the verify stage, copied, but for *)
(* one difference: a goroutine never allocates the result it returns.      *)
(* Every path of it that reaches the deferred call has dereferenced that   *)
(* nil result: the goroutine panics, nothing recovers it, and the whole    *)
(* process dies.  Both stages keep the promise of CaseVerdict.             *)
(***************************************************************************)
EXTENDS VerifyCases

CONSTANT AttemptMayPanic   \* whether a goroutine of an attempt may panic: two
                           \* actual spans share an id, a regexp is malformed

VARIABLE crashed   \* the process has died of a panic

assertVars == <<vars, crashed>>

ASSUME AssertAssumption == AttemptMayPanic \in BOOLEAN

AssertInit == Init /\ crashed = FALSE

\* The recover of assertSingleCase does not reach the goroutines in which the
\* spans (SpanMatch) and the metrics are compared: their panic ends the process.
AttemptPanics ==
  /\ AttemptMayPanic /\ cfg.stage = "assert" /\ ~crashed
  /\ \/ main = "serial" /\ idx \in Case \cap cfg.expected
     \/ \E c \in Case : pc[c] = "attempt"
  /\ crashed' = TRUE /\ UNCHANGED vars

StageCaller == ~crashed /\ Caller /\ UNCHANGED crashed

VerifyGoroutine(c) == cfg.stage = "verify" /\ Goroutine(c) /\ UNCHANGED crashed

ConcurrentlyAssertSingleCase(c) ==
  /\ cfg.stage = "assert" /\ ~crashed
  /\ PreCheck(c) \/ Enter(c) \/ Select(c) \/ Attempt(c)
  /\ crashed' = (pc'[c] = "defer")

AssertNext ==
  \/ StageCaller \/ AttemptPanics
  \/ \E c \in Case : VerifyGoroutine(c) \/ ConcurrentlyAssertSingleCase(c)

\* The Go scheduler runs every runnable goroutine; an attempt ends because
\* the command or the file read behind it does.
AssertFairness ==
  /\ WF_assertVars(StageCaller)
  /\ \A c \in Case :
       WF_assertVars(VerifyGoroutine(c)) /\ WF_assertVars(ConcurrentlyAssertSingleCase(c))

AssertSpec == AssertInit /\ [][AssertNext]_assertVars /\ AssertFairness

-----------------------------------------------------------------------------
\* A list is reported as a whole or not at all: a process that has died of a
\* panic has given no answer.
DeadIsSilent == crashed => err = "none"

\* What README.md promises of the stage: running its cases concurrently is a
\* way to run them.
ConcurrencyIsUsable == ~crashed

-----------------------------------------------------------------------------
(* The list keeps the promise of CaseVerdict.                              *)
Settled(c) ==
  IF main # "start" /\ cfg.concurrency
  THEN ~crashed /\ pc[c] \in {"defer", "store", "done"} ELSE ~res[c].skip
Latest(c) == IF cfg.concurrency /\ pc[c] # "done" THEN local[c] ELSE res[c]

verdictBar == [c \in Case |->
  IF Settled(c) /\ ~Latest(c).skip
  THEN IF Latest(c).err THEN "fail" ELSE "pass"
  ELSE IF main = "done" /\ ~cfg.error THEN "skip" ELSE "pending"]

outcomeBar == IF crashed THEN "dead" ELSE IF err = "none" THEN "running" ELSE err

Abstract == INSTANCE CaseVerdict
  WITH failFast <- cfg.failFast, mayDie <- cfg.stage = "assert",
       verdict <- verdictBar, outcome <- outcomeBar

\* Whatever runs the cases, in whatever order they end: each is settled once,
\* the skipped ones are so for a failure, and the list answers for what they
\* showed, or the process of an assert stage dies first.  It does so in the
\* end: no lost wg.Done, no retry loop that never stops.
Refines == Abstract!Spec
=============================================================================

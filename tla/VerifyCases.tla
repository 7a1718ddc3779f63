---------------------------- MODULE VerifyCases ----------------------------
(***************************************************************************)
(* commands/verify/verify.go: the cases of the verify stage, run either    *)
(* one after the other or in one goroutine each, with retries and          *)
(* fail-fast.  commands/assert/assert.go is a copy of it for the assert    *)
(* stage: the default of the retries is all that differs here, and what    *)
(* else does is in AssertCases.  What an attempt finds (read or query the  *)
(* data, compare it) is a free choice; everything around it is the code's. *)
(* A case result is [skip, err], the two fields PrintResult looks at: the  *)
(* zero value, no skip and no error, counts as a PASS.                     *)
(***************************************************************************)
EXTENDS Integers, FiniteSets

CONSTANTS N,            \* number of cases of the stage
          RetryCounts   \* the values of its retry.count to consider

ASSUME CasesAssumption == N \in Nat /\ RetryCounts \subseteq Int

Case == 1..N

VARIABLES
  cfg,        \* the stage and its section of the configuration, fixed
  main,       \* where the calling goroutine is
  idx,        \* its loop index: last case spawned, or case being verified
  pc,         \* where the goroutine of each case is
  current,    \* the retry counter of each case
  cancelled,  \* the shared context has been cancelled
  local,      \* the result a goroutine is building
  res,        \* the shared slice of results, a slot per case
  err,        \* the returned error: "none" until it returns
  good        \* history: cases of which an attempt succeeded

vars == <<cfg, main, idx, pc, current, cancelled, local, res, err, good>>

Result == [skip : BOOLEAN, err : BOOLEAN]
Zero   == [skip |-> FALSE, err |-> FALSE]
Preset == [skip |-> TRUE, err |-> FALSE]
Failure == [skip |-> FALSE, err |-> TRUE]

\* What a count that is not positive is replaced by.
NoRetry == IF cfg.stage = "assert" THEN 1 ELSE 0

\* The configured count, or its default.
Retries == IF cfg.count <= 0 THEN NoRetry ELSE cfg.count

Config ==
  [stage : {"verify", "assert"},
   error : BOOLEAN,           \* the file, or its retry.interval, is bad
   count : RetryCounts, failFast : BOOLEAN, concurrency : BOOLEAN,
   expected : SUBSET Case]    \* cases that name their expected data

Init ==
  /\ cfg \in Config
  /\ main = "start" /\ idx = 0 /\ err = "none"
  /\ pc = [c \in Case |-> "new"]
  /\ current = [c \in Case |-> 0]
  /\ cancelled = FALSE
  /\ local = [c \in Case |-> Zero]
  /\ res = [c \in Case |-> Preset]
  /\ good = {}

-----------------------------------------------------------------------------
\* The caller reads the configuration, refuses a bad one and picks the mode.
DoVerify ==
  /\ main = "start"
  /\ \/ /\ cfg.error
        /\ main' = "done" /\ err' = "error"
        /\ UNCHANGED <<idx, res>>
     \/ /\ ~cfg.error /\ cfg.concurrency
        /\ main' = "spawn" /\ res' = [c \in Case |-> Zero]
        /\ UNCHANGED <<idx, err>>
     \/ /\ ~cfg.error /\ ~cfg.concurrency
        /\ main' = "serial" /\ idx' = 1 /\ res' = [c \in Case |-> Preset]
        /\ UNCHANGED err
  /\ UNCHANGED <<cfg, pc, current, cancelled, local, good>>

\* PrintResult counts the results; one failed case makes the list an error.
NumFailed == Cardinality({c \in Case : ~res[c].skip /\ res[c].err})

Report ==
  /\ main = "print"
  /\ main' = "done"
  /\ err' = IF NumFailed > 0 THEN "error" ELSE "ok"
  /\ UNCHANGED <<cfg, idx, pc, current, cancelled, local, res, good>>

-----------------------------------------------------------------------------
(* Serial mode: the caller itself walks the cases.                         *)

\* The loop leaves the case it is at, or returns early from the whole list.
NextCase   == idx' = idx + 1 /\ UNCHANGED main
ReturnNow  == main' = "print" /\ UNCHANGED idx
AfterFailure == IF cfg.failFast THEN ReturnNow ELSE NextCase

\* One attempt at the case the loop is at: it succeeds, it fails with retries
\* left (the sleep of the interval is not modelled), or it fails for good.
SerialAttempt(ok) ==
  LET c == idx IN
  \/ /\ ok
     /\ res' = [res EXCEPT ![c].skip = FALSE]
     /\ good' = good \cup {c}
     /\ NextCase /\ UNCHANGED current
  \/ /\ ~ok /\ current[c] # Retries
     /\ current' = [current EXCEPT ![c] = @ + 1]
     /\ UNCHANGED <<main, idx, res, good>>
  \/ /\ ~ok /\ current[c] = Retries
     /\ res' = [res EXCEPT ![c] = Failure]
     /\ AfterFailure /\ UNCHANGED <<current, good>>

SerialStep ==
  /\ main = "serial"
  /\ \/ /\ idx > N
        /\ ReturnNow /\ UNCHANGED <<current, res, good>>
     \/ /\ idx \in Case \ cfg.expected
        /\ res' = [res EXCEPT ![idx] = Failure]
        /\ AfterFailure /\ UNCHANGED <<current, good>>
     \/ /\ idx \in Case \cap cfg.expected
        /\ \E ok \in BOOLEAN : SerialAttempt(ok)
  /\ UNCHANGED <<cfg, pc, cancelled, local, err>>

-----------------------------------------------------------------------------
(* Concurrent mode: a goroutine per case, one context, one result slot     *)
(* each, and a caller that waits for all of them.                          *)

Goto(c, from, to) == pc[c] = from /\ pc' = [pc EXCEPT ![c] = to]

Spawn ==
  /\ main = "spawn"
  /\ \/ /\ idx < N
        /\ idx' = idx + 1
        /\ pc' = [pc EXCEPT ![idx + 1] = "precheck"]
        /\ UNCHANGED main
     \/ /\ idx = N
        /\ main' = "wait" /\ UNCHANGED <<idx, pc>>
  /\ UNCHANGED <<cfg, current, cancelled, local, res, err, good>>

\* Fault: it leaves without wg.Done.
PreCheck_without_done(c) ==
  /\ Goto(c, "precheck", IF cancelled THEN "new" ELSE "enter")
  /\ UNCHANGED <<cfg, main, idx, current, cancelled, local, res, err, good>>

\* A goroutine that starts after the cancellation marks its slot and leaves.
PreCheck(c) ==
  /\ \/ /\ cancelled
        /\ Goto(c, "precheck", "done")
        /\ res' = [res EXCEPT ![c].skip = TRUE]
     \/ /\ ~cancelled
        /\ Goto(c, "precheck", "enter")
        /\ UNCHANGED res
  /\ UNCHANGED <<cfg, main, idx, current, cancelled, local, err, good>>

\* A case that names no expected data fails without an attempt.
Enter(c) ==
  /\ \/ /\ c \notin cfg.expected
        /\ Goto(c, "enter", "defer")
        /\ local' = [local EXCEPT ![c] = Failure]
     \/ /\ c \in cfg.expected
        /\ Goto(c, "enter", "select")
        /\ UNCHANGED local
  /\ UNCHANGED <<cfg, main, idx, current, cancelled, res, err, good>>

\* Before each attempt the context is polled; an attempt under way is not.
Select(c) ==
  /\ \/ /\ cancelled
        /\ Goto(c, "select", "defer")
        /\ local' = [local EXCEPT ![c].skip = TRUE]
     \/ /\ ~cancelled
        /\ Goto(c, "select", "attempt")
        /\ UNCHANGED local
  /\ UNCHANGED <<cfg, main, idx, current, cancelled, res, err, good>>

\* Fault: one attempt too many.
Attempt_off_by_one(c) ==
  /\ \/ /\ Goto(c, "attempt", "defer")
        /\ good' = good \cup {c} /\ UNCHANGED current
     \/ /\ current[c] <= Retries
        /\ Goto(c, "attempt", "select")
        /\ current' = [current EXCEPT ![c] = @ + 1] /\ UNCHANGED good
  /\ UNCHANGED <<cfg, main, idx, cancelled, local, res, err>>

\* The same three ends of an attempt, for a goroutine.
Attempt(c) ==
  /\ \/ /\ Goto(c, "attempt", "defer")
        /\ good' = good \cup {c}
        /\ UNCHANGED <<current, local>>
     \/ /\ current[c] # Retries
        /\ Goto(c, "attempt", "select")
        /\ current' = [current EXCEPT ![c] = @ + 1]
        /\ UNCHANGED <<local, good>>
     \/ /\ current[c] = Retries
        /\ Goto(c, "attempt", "defer")
        /\ local' = [local EXCEPT ![c].err = TRUE]
        /\ UNCHANGED <<current, good>>
  /\ UNCHANGED <<cfg, main, idx, cancelled, res, err>>

\* Fault: a failure cancels the others without fail-fast too.
CancelOnFailure_always(c) ==
  /\ Goto(c, "defer", "store")
  /\ cancelled' = (cancelled \/ local[c].err)
  /\ UNCHANGED <<cfg, main, idx, current, local, res, err, good>>

\* The deferred call of a failed case cancels the context BEFORE the result
\* reaches the slot: others may see the cancellation first.
CancelOnFailure(c) ==
  /\ Goto(c, "defer", "store")
  /\ cancelled' = (cancelled \/ (local[c].err /\ cfg.failFast))
  /\ UNCHANGED <<cfg, main, idx, current, local, res, err, good>>

\* The result reaches the slot, then the deferred wg.Done releases the caller.
StoreResult(c) ==
  /\ Goto(c, "store", "done")
  /\ res' = [res EXCEPT ![c] = local[c]]
  /\ UNCHANGED <<cfg, main, idx, current, cancelled, local, err, good>>

\* Fault: the caller does not wait.
WaitAll_does_not_wait ==
  /\ main = "wait" /\ main' = "print"
  /\ UNCHANGED <<cfg, idx, pc, current, cancelled, local, res, err, good>>

WaitAll ==
  /\ main = "wait"
  /\ \A c \in Case : pc[c] = "done"
  /\ main' = "print"
  /\ UNCHANGED <<cfg, idx, pc, current, cancelled, local, res, err, good>>

Goroutine(c) ==
  \/ PreCheck(c) \/ Enter(c) \/ Select(c) \/ Attempt(c)
  \/ CancelOnFailure(c) \/ StoreResult(c)

Caller == DoVerify \/ SerialStep \/ Spawn \/ WaitAll \/ Report

Next == Caller \/ \E c \in Case : Goroutine(c)

\* The Go scheduler runs every runnable goroutine; an attempt ends because
\* the command or the file read behind it does.
Fairness == WF_vars(Caller) /\ \A c \in Case : WF_vars(Goroutine(c))

Spec == Init /\ [][Next]_vars /\ Fairness

-----------------------------------------------------------------------------
\* The variables keep their types; no case is attempted more often than its
\* retries allow.
TypeOK ==
  /\ cfg \in Config
  /\ main \in {"start", "serial", "spawn", "wait", "print", "done"}
  /\ idx \in 0..(N + 1)
  /\ pc \in [Case -> {"new", "precheck", "enter", "select", "attempt",
                      "defer", "store", "done"}]
  /\ current \in [Case -> 0..Retries]
  /\ cancelled \in BOOLEAN
  /\ local \in [Case -> Result] /\ res \in [Case -> Result]
  /\ err \in {"none", "ok", "error"}
  /\ good \subseteq Case

\* A list that returns no error has really checked every case: each one had
\* an attempt that succeeded.  Skipped cases are not counted as failures, and
\* an unwritten slot reads as a pass, so this rests on the wait for all the
\* goroutines and on nothing being skipped without a failure.
OkMeansAllPassed == err = "ok" => good = Case

\* When a list has run, a case is skipped only under fail-fast and only
\* because another case is reported as failed: the report always shows the
\* reason why the others were not run.
SkipOnlyAfterFailure ==
  main = "done" /\ ~cfg.error =>
    \A c \in Case : res[c].skip => cfg.failFast /\ NumFailed > 0

\* A settled case is reported as what its attempts showed: failed exactly
\* when no attempt succeeded, in whatever order cancellation arrived.
ReportMatchesAttempts ==
  main = "done" /\ ~cfg.error =>
    \A c \in Case : ~res[c].skip => (res[c].err <=> c \notin good)

\* Serial fail-fast stops at the first failure: the skipped cases are the
\* tail of the list after one failed case, and all before it passed.
SerialSkipsTheTail ==
  main = "done" /\ ~cfg.error /\ ~cfg.concurrency =>
    \A c \in Case : res[c].skip =>
      \E f \in 1..(c - 1) :
        /\ res[f] = Failure
        /\ 1..(f - 1) \subseteq good /\ \A d \in f..N : d \notin good

\* The report tells the truth: what it skips is explained by a failure it shows,
\* what it settles is what the attempts showed, and a serial list has stopped
\* at its first failure and nowhere else.
ReportIsRight == SkipOnlyAfterFailure /\ ReportMatchesAttempts /\ SerialSkipsTheTail

\* Once the caller has returned no goroutine of the list runs any more.
NoLateGoroutine ==
  main = "done" => \A c \in Case : pc[c] \in {"new", "done"}

-----------------------------------------------------------------------------
(* The inductive invariant behind the safety properties.                   *)

Running == main # "start" /\ ~cfg.error

\* A final result says what the attempts of its case showed.
Decided(c, r) ==
  IF r.skip THEN ~r.err /\ c \notin good ELSE r.err <=> c \notin good

\* The caller follows the mode of the configuration; nothing runs beside it
\* before the list starts, in serial mode, or when the list is refused.
CallerInv ==
  /\ err # "none" <=> main = "done"
  /\ cfg.error => main \in {"start", "done"} /\ err # "ok"
  /\ cfg.concurrency => main # "serial"
  /\ ~cfg.concurrency => main \notin {"spawn", "wait"}
  /\ err = "ok" => \A c \in Case : res[c].skip \/ ~res[c].err
  /\ main = "start" => good = {} /\ idx = 0
  /\ ~(Running /\ cfg.concurrency) =>
       ~cancelled /\ \A c \in Case : pc[c] = "new" /\ local[c] = Zero

SerialInv ==
  Running /\ ~cfg.concurrency =>
    /\ idx >= 1
    /\ \A c \in Case :
         /\ Decided(c, res[c])
         /\ c < idx => ~res[c].skip
         /\ c < idx /\ cfg.failFast => c \in good
         /\ c > idx => res[c] = Preset
    /\ idx \in Case => IF main = "serial" THEN res[idx] = Preset
                       ELSE cfg.failFast /\ res[idx] = Failure

\* What the results of one case are at each place of its goroutine.
GoroutineInv(c) ==
  /\ pc[c] \in {"defer", "store"} => Decided(c, local[c])
  /\ pc[c] = "done" =>
       /\ Decided(c, res[c])
       /\ res[c] = local[c] \/ (res[c].skip /\ local[c] = Zero)
  /\ pc[c] # "done" => res[c] = Zero
  /\ pc[c] \notin {"defer", "store", "done"} => local[c] = Zero /\ c \notin good
  /\ local[c].skip \/ res[c].skip => cancelled

ConcurrentInv ==
  Running /\ cfg.concurrency =>
    /\ \A c \in Case : GoroutineInv(c)
    /\ main = "spawn" => idx <= N /\ \A c \in Case : pc[c] = "new" <=> c > idx
    /\ main = "wait" => \A c \in Case : pc[c] # "new"
    /\ main \in {"print", "done"} => \A c \in Case : pc[c] = "done"

\* A cancellation always has a failed case behind it, in fail-fast mode.
CancelInv ==
  cancelled => /\ cfg.failFast
               /\ \E c \in Case : pc[c] \in {"store", "done"} /\ local[c].err

\* The whole of it: what the caller, a serial list, the goroutines and their
\* results are at every step, no case attempted more often than its retries
\* allow, no goroutine left when the caller reports.
Inv == TypeOK /\ CallerInv /\ SerialInv /\ ConcurrentInv /\ CancelInv

=============================================================================

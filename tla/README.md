# A TLA+ development of hera-infra-e2e

`e2e` is a command-line program that runs end-to-end tests: it reads a
configuration file, sets up an environment (docker-compose or a kind cluster),
generates traffic, compares what the services recorded with expected data, and
cleans up. Most of its code is sequential, but at every stage a few goroutines
share a channel, a slice, a map, a file or a variable, and what the program tells
its user depends on the order in which they run. This directory models those
parts, checks them with TLC and proves many of the results with TLAPS. File names
below are those of the repository.

Contents: [inventory](#inventory), [modules](#modules),
[runs and bounds](#runs-and-bounds), [fairness](#fairness),
[what is proved](#what-is-proved), [what the code does not
guarantee](#what-the-code-does-not-guarantee), [not modelled](#not-modelled),
[plan](#plan), [running it](#running-it).

## Inventory

| component | code | state it keeps | operations |
|---|---|---|---|
| configuration loader | `internal/config/globalConfig.go`, `commands/root.go` | the global configuration and its error | read the file, convert the cases with the files they include, finalize the timeout |
| verify stage | `commands/verify/verify.go` | a result slot and a retry counter per case, one cancellable context, a wait group | read the section, run the cases serially or a goroutine each, report |
| assert stage | `commands/assert/assert.go` | the same, from a copied text | the same; an attempt compares traces or metrics |
| trigger action | `internal/components/trigger/*.go` | ticker, attempt counter, result and stop channels | `Do`, `Stop`, execute a request |
| trigger command | `commands/trigger/trigger.go` | - | create the action, wait for its answer, wait for a signal, stop |
| run command | `commands/run/run.go` | `err`, the action, what it has deferred | setup, trigger, assert, verify, deferred clean-up |
| setup steps | `internal/components/setup/common.go`, `util/waitSet.go`, `util/k8s.go` | the remaining timeout, a `WaitSet` per step, the place in a manifest | apply a manifest, run a command, wait for conditions |
| compose setup | `setup/compose.go`, `compose_listener.go` | `err` shared with the listener, `beenFollowLog` per service | up, expose ports, follow logs, run steps; handle a container start |
| kind setup | `setup/kind.go`, `kind_listener.go` | `err` shared with the listener, a counter of images, port-forward context | create or join, pull images, steps, logs, forward ports; handle a pod event; `KindCleanNotify` |
| log follower | `util/env_log.go`, `kind.go` | a map of followed files, a context | create a file, copy the lines of its containers, close |
| setup and clean-up commands, clean-up executors | `commands/{setup,cleanup}/*.go`, `components/cleanup/*.go` | what a process leaves behind: the cluster or containers, the kubeconfig file | set up and wait for a signal; delete the cluster with retries, compose down |
| trace assertion | `components/assert/trace_assert.go` | a map of taken traces, a shared map of taken span ids | find a trace, match its spans |
| comparison of spans and values | `components/assert/{span_assert,assert}.go` | pooled contexts | build a chain of handlers, run it, reset |
| metric assertion | `components/assert/metric_assert.go`, `data_assert.go` | channel of families, channel of check results, merge indices | fetch, check forbidden families, merge, search in a family |
| verifier, template engine, command and environment utilities, docker provider, assister | `components/verifier`, `third-party`, `internal/util`, `components/assister` | - | functions of their input and single calls |

How they interact. A hook of the root command loads the configuration and keeps
the error for later. `run` calls the stages in order and returns the first
error; functions it deferred at two points of its body then clean up as
`cleanup.on` asks. The goroutine of the trigger action goes on beside the later
stages until the clean-up stops it. Both setups start a listener goroutine that
calls back into the variables of its caller while it runs the steps; both
goroutines may follow the log of one pod. The assert stage calls the trace or
metric comparison from each attempt; the goroutines of a trace share a pool of
contexts; and a panic there may or may not be recovered, depending on the
goroutine it happens in. The cleanup command runs in another process, which
finds only what the first one left: of a kind cluster the nodes, which are made
first and deleted first, and its kubeconfig file, which is written last.

What makes each of them correct, and which behaviour makes that hard:

* a configuration means what its files say, although each is resolved against
  the one that includes it and an error is kept in a variable that a later line
  writes;
* a list of cases must report what its attempts showed, although results are
  written by goroutines, cancellation arrives at any time, and the zero value
  of a result reads as a pass;
* the answer of a trigger must mean that traffic succeeded, or that all attempts
  were used up, and a stop must get through between ticks and requests;
* the environment is cleaned up exactly when the policy says so, and not under
  running traffic; a cluster that was made keeps the file to reach it with as
  long as it is there, over failed deletions and processes that were killed;
* steps and the documents of their manifests are applied in order, under one
  timeout, and a failed one must surface through a select with three ready
  channels;
* a setup must return the error of its own stages although a listener writes to
  the same variable; every log is followed; every forwarded port is released;
* a log holds what was printed, although several goroutines write to it and it
  may be created twice;
* a trace is accepted only if all its spans are found, in every interleaving of
  the goroutines that look for them, and no comparison sees what another left in
  a pooled context; families of metrics likewise.

## Modules

| module | models | remarks |
|---|---|---|
| `CaseVerdict` | what a list of cases promises | abstract specification, implemented by `AssertCases` |
| `VerifyCases` | `verify.go`, and what `assert.go` copies | one action per step of a goroutine: entry, poll of the context, attempt, deferred cancel, store of the result |
| `AssertCases` | both stages with the panics of the assert stage | extends `VerifyCases`; refines `CaseVerdict` |
| `TriggerAction` | `http.go`, `hera_http.go` | no caller of its own |
| `ConfigFile` | `globalConfig.go` | no caller of its own |
| `Run` | `run.go`, `trigger.go`, `root.go` | extends `ConfigFile` and `TriggerAction`: either command beside its action, after its configuration |
| `SetupSteps` | `common.go`, the manifests of `k8s.go`, and the waits of `kind.go` | |
| `SetupErr` | the variable `err` shared with a listener | extended by the next two |
| `ComposeSetup` | `compose.go`, `compose_listener.go` | |
| `KindSetup` | `kind.go`, `kind_listener.go`, `KindCleanNotify` | |
| `Environment` | `setup.go`, `cleanup.go`, the executors, the part of `run.go` that calls them | composes one instance of each setup with the commands around them, over two processes |
| `LogFollower` | `env_log.go`, `exposePerContainerLog` | the lines of one pod |
| `SpanMatch` | `spansAssert`, `findSpan` | a goroutine per expected span |
| `TracesAssert` | `doTracesAssert`, `findTrace` | composes `SpanMatch`: each call of `spansAssert` runs it anew |
| `SpanEquals` | `assert.go` (the expressions), what the handlers of `span_assert.go` compare | operators only |
| `SpanAssert` | the pool and the chains of `span_assert.go` | extends `SpanEquals`; its verdict is the relation `match` of `SpanMatch` |
| `MetricMatch` | `doAssertFunc` and the three copies of the search | |
| `MetricsAssert` | `MetricsAssert`, `LoadMetricsData`, `doMetricsAssert` | extends `MetricMatch`: the search runs anew for each pair of families |
| `MC...` | constants for TLC | |
| `..._proofs` | theorems | |

State and code. In `VerifyCases`, `main` and `idx` are the place of the caller
and its loop index, `pc[c]` the place of the goroutine of case `c`, `current[c]`
its loop variable, `cancelled` the context, `local[c]` the result it is building
and `res[c]` its slot; `good` is a history variable with the cases of which an
attempt succeeded. A result is reduced to the two fields `PrintResult` looks at.
What an attempt finds is a free choice: the comparisons behind it have modules of
their own. In `Run`, `main` is the stage, and a stage other than the trigger is
its outcome. In `ConfigFile` the recursion of `convertSingleCase` is a stack of
what is left of each file, and `written` is what the files say; a case is known by the
file it stands in and its name, which is what resolving its paths amounts to. In
`SetupSteps`, the wait group is a condition on the places of the goroutines, the
error channel (which has room for one) a Boolean, and time a counter of ticks
that stops at zero; `failed`, `met` and `applied` are history. In `SetupErr` each
access to `err` is a step, since the two goroutines access it without a lock. In
`Environment` the memory of a process is reset when it ends, and `cluster` and
`kubeFile` stay. `kind create cluster` is two steps there, `CreateNodes` and the
file, with minutes between them in which the process may be killed or the command
fail; `cluster = "nodes"` is what is left then. The deletion and the removal of the file are
two as well. In `LogFollower` the file is a sequence of lines and each handle
has its own offset, so that a file emptied by a second creation is written by
both. In `SpanMatch` the Load of the shared map together with the comparison is
one step and the Store another; whether two spans match is an arbitrary relation,
chosen in the initial state. In `SpanEquals` a string is the sequence of its
words, which is what the parser of expressions sees of it. In `MetricMatch`
indices start at 0 as in the code, and the wrap-around writes the loop variable;
`match` and `mistyped` say which comparisons succeed and which expected metrics are
refused for their type, by any of the five tests of it. In
`MetricsAssert` a family is its name, a number, since the merge only compares
names; `broken` are the expected names that are no regular expression,
`capacity` is the room in the channel, and `passed` is history.

Definitions whose comment begins with "Fault:" are not part of any
specification. Each is the operation that follows it with a plausible mistake in
it; put in its place, it makes TLC find a property violated, which shows that
the property is about the code. `PROJECT.json` lists which is which.

## Runs and bounds

| run | what is checked | bounds, and why they are enough |
|---|---|---|
| `assert_cases` | `Inv` (the inductive invariant, types included), `OkMeansAllPassed`, `ReportIsRight`; `Refines` (implements `CaseVerdict`, and so answers or dies) | 3 cases: one fails and cancels, one is at an attempt, one has not started. Counts -1, 0 and 2: defaults of both stages and a real retry |
| `run` | `Inv` (inductive), `LoadedAsWritten`, `CleanedIffAsked`, `NoTrafficDuringCleanup`; the action property `AnswerIsEarned`; `AnswerComes`, `StopEnds` | `times` up to 3; both commands and actions, every policy and the default, servers that hang, urls that cannot be requested, a panic in the assert stage. Five trees of three files: nested includes, a missing file, an item of both kinds, a file that includes itself (depth 4 stands for the stack) |
| `setup_steps` | `Inv`, `StepsInOrder`, `FailureKeepsError`, `AppliedInOrder`; `SetupReturns` | 2 steps (a step after another), 2 waits (two errors for a channel with room for one), 2 ticks or none; manifests with two files, and with a document that cannot be decoded between two that can |
| `environment` | `Inv`, `ReturnsItsOwn`, `OkMeansReady`, `NoForwardLeft`, `FileOutlivesCluster`; `EnvironmentEnds`, `ListenerEnds` | compose: 2 services, 2 starts each (one before, one after the flag is read). kind: 2 images, 2 exports (one ready while the next fails), 1 pod with 2 events. 5 deletions, as in the code; a process that makes the environment, killed at any moment, the one between the nodes of a cluster and its file included, and one that cleans up |
| `pod_logs` | `Inv`, `FileIsTrue`; `CloseEndsAll` | a call of the setup and one of its listener, hence 2 handles; 2 containers, 2 lines each (an order to lose) |
| `traces` | `OkMeansAllFound`, `UnambiguousIsRight`, `NoPanic`, `OkMeansPaired`; `TracesAnswered` | traces of 3 spans, all 512 relations, distinct ids and a shared one; up to 2 expected and 2 actual traces |
| `span_compare` | `Inv` (inductive: contexts are owned and clean), `VerdictIsOwn`, `AcceptedAgrees` | 2 goroutines that share 3 contexts, with no bound on their calls; 4 expected and 4 actual spans: fields, tags with a variable, references in another order, a malformed expression |
| `metrics_assert` | `Inv` (types and indices; results of checks are counted once, none runs late), `OkMeansHolds`, `AnswerIsRight`, `UnmarkedIsRight`; `FamilyIsAccepted`, `AnswersOrSticks` | names 1 and 2, every combination of expected, forbidden and actual, names that are no regular expression; room for 1 family (less than there are) and for 2; families of up to 3 metrics under every relation, any of them of the wrong type: start, wrap and end of the search |

Four more runs end in a violation: `assert_crash`, `setup_lost_error`,
`span_order`, `metric_loop`; see [below](#what-the-code-does-not-guarantee).

Every run says `CHECK_DEADLOCK FALSE`: a program that has returned its result takes no
further step, and that some goroutine is not left waiting is the subject of
the liveness properties instead.

The bounds in guards: `Counted` stops the attempt counter of a trigger at
`times + 1`, past which it is compared equal to nothing; `MaxStarts` and
`MaxEvents` bound the events of a listener, `MaxCalls`, `MaxHandles` and
`NumLines` what a pod and its followers do; a tick of `SetupSteps` stops at 0.
`MaxDepth` stands for the size of the stack, `MaxRetry` is the code's own, and
`MaxCapacity` stands for its 1024.

## Fairness

* The Go scheduler runs a goroutine that can run: weak fairness of each
  goroutine (of all its steps together), and of the caller.
* `Tick` of the trigger is weakly fair: a ticker keeps ticking.
* A `select` chooses at random among the ready cases, so a stop that is offered for ever is
  taken although ticks keep coming: strong fairness of `TakeStop`.
* An attempt of a case ends, a stage of `run` ends. This is an assumption about
  the commands and files behind them; the code sets no timeout to
  `util.ExecuteCommand`.
* A stream ends once its context is cancelled (`cancelled /\ EndStream` in
  `LogFollower`), which is what a context is for; before that it need not.
* Nothing is assumed where the code may wait for ever and does something about it
  or ought to: a request need not be answered (`ServerMayHang`), a step's
  command or wait need not end (only the timer of `SetupSteps` is fair), a
  signal, a container start, a pod event or a second command need not come, a
  pod need not print. `SpanAssert` is checked for safety only: no fairness.

## What is proved

TLAPS checks the following for every value of the constants. The theorems of
`PROJECT.json` are each about a property of a run, which shows it on a small
instance, or follow from one, or are the safety part of one.

* `AssertCases_proofs`, of the list (`VerifyCases`), from `CasesAssumption` (a
  natural number of cases, integer retry counts): `TypeCorrect`, `InvHolds`, and from the latter
  `OkIsTrue`, `ReportIsTrue` and `NoGoroutineIsLate`.
  None of the safety properties is inductive: that a skip is explained by a
  visible failure needs to know that a cancellation has a failed case behind it whose
  result is on its way (`CancelInv`), that what is in a slot is what the goroutine
  built (`GoroutineInv`), that serial mode decides the slots in order
  (`SerialInv`) and that the caller passes the wait group only when all are done
  (`ConcurrentInv`). `Inv` is their conjunction. Its preservation has one lemma
  for each operation of the caller and one for the steps of a goroutine.
* `AssertCases_proofs`, of both stages: every step of `AssertCases` is a step of `VerifyCases`
  or leaves its variables alone (`AssertStep`), so `Inv` holds there too
  (`AssertInvHolds`), and with it `AssertOkIsTrue` and `AssertReportIsTrue`; and
  a process that has died has not answered (`DeadReportsNothing`), since a
  goroutine that can die keeps the caller at the wait group.
  `PromiseIsKept` is the refinement of `CaseVerdict`, up to its fairness: seen
  through `verdictBar` and `outcomeBar` a step decides one case, ends the list,
  kills the process, or changes nothing. It needs that a goroutine of an assert
  stage never comes to its deferred call alive (`StageInv`), and that what the
  report leaves undecided is explained by a failure in it (`InvSkip`).
* `Run_proofs`, from the assumptions of `Run`, `TriggerAction` and `ConfigFile`:
  `RunIsInPlace`, `CleanedAsAsked`, `QuietCleanup`, `AnswersAreEarned`, for every
  set of trees and every number of attempts. The invariant is `Inv` (the policy in
  force is the one that is asked for, the setup and the action are where they
  belong) with `Earned`: what the action is about to send is what its requests
  showed. The lemma of a module's action is used for each of the commands'.
  `NoActionIsWaitedForInVain` says of the two waits of a command that they are not in vain:
  the answer of the action is due, its counter not past the number it is
  compared with; a stop that is offered meets a goroutine that comes back to take it.
* `Run_proofs`, of `ConfigFile`: `LoadsWhatIsWritten`. What is loaded, followed by what
  the stack still stands for (`ToCome`: of each open file its items after the
  current one), is what the file is written to hold; that is `LoadInv`, which a step keeps
  as it moves an item from the one to the other. `LoadedAsWritten` compares the loader with a
  definition by recursion, so lemmas come first that hold for every
  value: an induction with a set for the predicate (`UpTo`, from `<` being
  well-founded), that a function defined by recursion on numbers
  is what its equation says (`Iterate`, which gives `CasesOfIs` and `InPlaceOf`, and
  what flattening a list of lists does, `FlattenIs`), and that
  concatenation can be regrouped.
* `SetupSteps_proofs`, from `SetupAssumption`: `SetupInvHolds`,
  `StepsDoNotOverlap`, `FailureIsKept` and `DocumentsInOrder`. The
  invariant `StepsInv` says of each part of a step that it is under way or has
  its result, which is what the select of the caller relies on without seeing
  it. `DocumentsInOrder` needs another, `Reading`: what is applied is what
  stands before the place the decoder has come to, a strict order over steps,
  files and documents.
* `SpanAssert_proofs`, from `SpanAssertAssumption` (nil is no context and no
  span, a span has finitely many tags, its references are a list):
  `ContextsArePrivate`, `VerdictsAreOwn`, `AcceptedIsWhole`, for any number of
  goroutines, contexts and spans. The invariant `SpanInv` adds to `Inv` what a call
  knows of the part of its chain that has run (`CallInv`); a lemma shows that a
  step of one call leaves another's facts alone, since the context is its own.
  `AcceptedIsWhole` counts: as many tags on both sides, each expected one
  there, leave none too many.
* `TracesAssert_proofs`, of `SpanMatch`, from `SpanAssumption`: `AcceptedIsFound`
  (an accepted trace had every span found) and `NeverPanics`. The second is a counting
  argument: a goroutine that compared nothing found every actual span's id in the
  map; ids are distinct and each was put there by another goroutine that took that span; there
  are fewer of these than spans (`Pigeonhole`).
* `TracesAssert_proofs`, of `TracesAssert`, also from `TraceAssumption`:
  `CallsAreSafe` (both of the above in every call), `WithoutCompetitionRight`
  and `AcceptedIsPaired`. `FreshInv` shows that the invariants of `SpanMatch` hold
  anew as a call begins; `RightInv` adds that a matching span that was
  passed over is taken (`PassedIsTaken`), so that, without competition, who finds
  nothing has nothing to find (`ErrIsEarned`). `PairedInv` says of the
  expected traces that are passed what `OkMeansPaired` says of all in the end: each
  has its own, because what was found for it stays in `taken`.
* `MetricsAssert_proofs`, of `MetricMatch`, from `MetricAssumption`: `AnswersAreRight`: each
  expected metric of an accepted family has the wanted type and a match; a refused one is too
  small, or the metric it has come to, whichever that is, has the wrong type, or that is the first and has
  no match. The invariant is that the wrapped index never
  leaves the list (`Within`): hence no search but the first reaches `maxIndex`.
* `MetricsAssert_proofs`, of `MetricsAssert`, from both its assumptions:
  `ResultsAreCounted`, `AcceptedMetricsHold`, `RefusalsHaveReasons`, and
  `FamilyAnswersAreRight` for the search where it is called. That a list of names
  can be sorted is proved first (`SortedIs`: a name goes where the number of
  smaller ones says). `MetricsInv` says that an error of a check stays in the
  channel until it is received (`PollInv`) and that the names the merge has
  passed are too small for the one it looks for (`MergeInv`). The checks that
  look at the wrong families do no harm to what is accepted: were a family sorted
  before the marked ones, the first check would have found its name. There is none, then, so
  each check looked for its own, and had it been no regular expression the process
  would have died.
  `NobodyWaitsInVain` counts: a result that the poll is missing is that of a
  check that is not done, and none was told to stop without an error.

* `Environment_proofs`, from `EnvironmentAssumption` (natural bounds, finitely
  many images, at least one deletion is tried): `InvHolds`,
  `SetupReturnsItsOwn`, `SetupOkMeansReady`, `CleanupLeavesNoForward`,
  `FileIsKept`, for any number of services, images, pods and ports.
  `EnvInv` joins `PhaseInv`, where a process is, with an invariant of each setup:
  a step of `Environment` is one of that setup, leaves it alone, or ends the
  process. `ErrInv` is about the shared `err` and is proved once for
  everybody who assigns it (`ErrNext`): where a stage is tested it tells of
  a failure iff there was one, or is marked as overwritten. That the clean-up,
  which waits for a number of messages, leaves no forward behind is a counting
  argument: each forward that has ended sent one (`CountsAreTrue`), so as many messages as
  forwards leave none; it needs that once their context is kept all of
  them were ready, each after those before it (`ForwardInv`). For compose, a
  service that the loop has passed is followed (`PassedInv`), since a flag that
  is set, or about to be, has a log behind it (`FlagInv`).
  `MadeInv` says from where on a setup has a cluster that was made: behind its
  first stage, so that a creation cut short in it ends in the clean-up or in the end of the
  process, and no other stage finds half a cluster.
  `NoForwardIsWaitedForInVain`: the caller waits for a forward that was started
  or has reported its error (`AwaitInv`), the clean-up for one that goes on and
  has been told to stop, as long as a message is missing.
* `LogFollower_proofs`, from `FollowerAssumption` (the bounds are natural
  numbers): `ClosedBehindTheLast` and `LogIsTrue`. A handle that waits for its
  goroutines must not get another one: `CallInv` says that it belongs to one
  call until all its streams are open, and `HandleInv` what its goroutines have read.
  `FileInv` is about the contents: a write at the end adds the line that is
  next of its container, and one inside a file of one container puts the line
  where it was, since the handle is at as many lines as it has written
  (`OffsetInv`). The order of lines is stated by their rank (`Rank`), since
  tlapm has no definition of `SelectSeq`.
  `NoCloserWaitsInVain`: a stream that was counted and never opened is not waited for.

Only model-checked: liveness, with it that of `Refines` (TLAPS has no rules
for `ENABLED` here). Of the waits it is about, the theorems named "in vain" above
show the part that is safety: who is waited for is there and has not been passed
over. What they leave to TLC is that the scheduler lets it come. Every
invariant and every action property of a run that passes is a theorem.

## What the code does not guarantee

Four disagreements between the code and what its documents or comments say have
a run that ends in a counterexample:

1. `assert_crash`: `concurrentlyAssertSingleCase` (`assert.go:81`) returns a
   result it never allocated; its deferred function reads `res.Err`. Every
   concurrent assert case dies of a nil dereference, and the process with it.
2. `setup_lost_error`: a failed command or wait puts its error into the channel and then
   leaves the wait group, so the finish channel may be closed before the select
   (`common.go:116` and `:146`) has looked. Both are ready, one is taken at random, and
   a failed setup may count as a success.
3. `span_order`: `findSpan` takes the first span that matches. Where an expected
   span matches two, it may take the only one of another, and a trace that could be
   matched is refused. It depends on the goroutines whether it is.
4. `metric_loop`: the wrap of the search (`metric_assert.go:181`) writes the
   loop variable, so that for every expected metric but the first `maxIndex` is never
   reached. A metric without a match is searched for for ever.

Others show in the hypotheses of the properties and are described here only.

Of the configuration and the run:

* The error of `Finalize` is overwritten by the nil of the next line
  (`globalConfig.go:78`). A `setup.timeout` that is absent or cannot be parsed
  is then zero, and a setup that has any step ends in a timeout
  (`timeout = "zero"` in `ConfigFile`, `budget = 0` in `SetupSteps`).
* A file that includes itself exhausts the stack: nothing counts the depth
  (`loading = "exhausted"`).
* A panic in a goroutine of the assert stage ends `run` before its deferred clean-up,
  even under `always` (`AssertCrash`: `CleanedIffAsked` says nothing of a process that is `"dead"`); so does a signal, for which
  `run` installs no handler (`Kill` of `Environment`).
* A request that is never answered (`http.go:64`, a client without a timeout)
  blocks `Stop`, and with it the clean-up (`place = "hung"`).
* A url that `http.NewRequest` refuses is tried for ever, since the attempt is counted
  after it (`http.go:116`); `times: 0` also means for ever (`cfg.times > 0 /\ ~cfg.badURL`).
* Under the policy `failure` a setup that fails is not cleaned up: only `always`
  is deferred before the setup (`run.go:59` and `:70`), while
  `docs/en/setup/Configuration-File.md` speaks of any failure. Hence `setup = "ok"` in
  `CleanedIffAsked`.
* The cleanup command does not look at the error of the configuration: what it
  finds of one that could not be read is no environment to clean.

Of the setup:

* A listener that handles an event between the failure of a stage and its test
  overwrites the error (`~overwritten` in `ReturnsItsOwn`).
* A document that cannot be decoded ends its file as the end of the file would
  (`k8s.go`): nothing behind it is applied, and nothing tells of it
  (`Readable` in `AppliedInOrder`).
* A log may be followed twice, its file being created anew: the flag is set after
  the log is followed (`compose.go:145`) or by its first line (`kind.go:570`).
  The log of one container heals, since both handles write the same lines in
  the same places; that of several does not (`created = 1` and
  `containers = {c}` in `FileIsTrue`).
* A setup without a cluster (compose) whose command has a wait dereferences
  the missing cluster in its goroutine (`NilOptions` in `SetupSteps`).
* A creation of a kind cluster that is killed, or whose wait or file fails, may leave
  its nodes without the kubeconfig file (`cluster = "nodes"`): behind a
  kill only the cleanup command deletes them, which needs no file for it. `FileOutlivesCluster` is about
  clusters whose creation came to its end, and about the file being there: what `kind delete`
  takes out of it before it fails is not modelled.
* An export that fails leaves those before it forwarded (`~bound`): nothing
  stops them before the end of the process.

Of the comparisons:

* Where actual spans share an id, a goroutine may compare nothing and format a nil error
  (`trace_assert.go:108`), outside the `recover` of `assertSingleCase`
  (`DistinctIds` in `NoPanic`); the same happens to a search for a trace when
  all are taken (`TraceNotFound`), inside it.
* A malformed regular expression panics in the goroutine that compares
  (`assert.go:86`): `crashed` in `SpanAssert`. So does a forbidden family whose name
  is none (`metric_assert.go:122`), or, for the index that is used, a wanted one
  whose name is none beside it; that goroutine is the check's own, nothing recovers
  the panic, and the process dies (`Panicked` in `AnswersOrSticks`).
* An expected metric that is no map, does not decode, or is compared with one of another
  type, is an error at once, at whatever index (`metric_assert.go:157`, `:171`, `:186` and
  their copies): `TypeError`. The last of them should not come: the type of an actual
  metric follows from that of its family, which the merge has compared.
* A string field that is left out of an expected span is not compared, while a
  number that is left out is compared with 0 (`ZeroValue`). An operator
  with more than one operand is its own operand: `eq a b` accepts `eq`.
* A tag that is not there reads as an empty one, and references are counted
  but not matched one to one: the hypotheses of `TagsAgree` and `RefsAgree`.
* The goroutines that check the forbidden families index the list of all families
  (`metric_assert.go:97`); whatever they look at, a forbidden family is refused
  (`OkMeansHolds`), but a wanted one may be too (`marked = {}` in
  `UnmarkedIsRight`).
* More than 1024 families block the fetch, which is received from only when it
  has ended (`Overfull` in `AnswersOrSticks`), and a later metric without a match is
  looked for for ever (`Endless`). These, and the panic, are the only ways in which
  the call does not answer.

## Not modelled

* The verifier (rendering and comparison of templates), the `contains` action of
  the template engine, the comparison of the labels and values of metrics: functions
  of their input. They are the free choice of an attempt and the given relation of
  `MetricMatch`. Their recursion over data is neither concurrent nor stateful.
* The assister, a web page that renders what it is given; the utilities that run
  a command or set a variable; the provider of docker, a copy of a library:
  their answers are choices of the actions that call them.
* Docker, Kubernetes, kind, the HTTP server: their answers, in any order. Of
  `kind create cluster` the order of nodes and file is modelled, and that it may
  undo the nodes when it fails, as it does unless it is told to retain them; calls of the Kubernetes API are
  assumed to return; the `client.Events` and watch channels after their failure are not
  modelled: what they do is their library's.
* The construction of clients of the cluster, and the deletion of manifests, which nothing
  calls.
* In `SpanEquals`: the caches of parsed expressions (they hold what parsing gives
  again), NaN, spaces around words, the logs of a span (the code compares
  none).
* A trace with no spans is accepted at once by `spansAssert`; `SpanMatch` starts
  at one span. Actual traces that share a trace id, which are taken together.
* Marks other than `notContains`, which only rename a family. A family that is listed
  twice, since names are a set. An error of the write to a log (`env_log.go:86`).

## Plan

The order of the models follows what the program exists for: the verdict first
(`CaseVerdict`, `VerifyCases` with its proofs, `AssertCases`); then
`TriggerAction` and `Run`; `SetupSteps`; `SetupErr`, `ComposeSetup`, `KindSetup`;
`SpanMatch`, `TracesAssert`; `MetricMatch`, `MetricsAssert`. On these:
`ConfigFile` under `Run`, the manifests of `SetupSteps`, `Environment` over both
setups, `LogFollower`, `SpanEquals` and `SpanAssert`, and the proofs of `Run`
with its configuration, `SetupSteps`, `SpanAssert`, `MetricsAssert`, `Environment`,
`TracesAssert` and `LogFollower`.

What would be worth adding:

1. the `contains` action of the template engine (`walkContains`), as an
   operator against a reference definition;
2. that the actions of `SetupErr`, which both setups are proved with, refine one
   specification of a shared error, stated on its own.

## Running it

    tlc -config MCRun.cfg MCRun          # any run: see PROJECT.json
    tlapm Environment_proofs.tla

All proofs take about twelve minutes.

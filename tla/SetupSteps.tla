----------------------------- MODULE SetupSteps -----------------------------
(***************************************************************************)
(* internal/components/setup/common.go: the steps of the setup stage run   *)
(* one after the other under one timeout.  A step applies a manifest, the  *)
(* documents of its files one after the other (internal/util/k8s.go), or   *)
(* runs a command, then waits for its conditions: the waits of a manifest  *)
(* run at once, a goroutine each, those of a command in turn, in the       *)
(* goroutine that ran the command.  The caller learns how they went from a *)
(* WaitSet: an error channel with room for one, a channel closed when all  *)
(* goroutines are done, and a timer.                                       *)
(***************************************************************************)
EXTENDS Integers, FiniteSets, Sequences

CONSTANTS NumSteps,   \* number of setup.steps
          MaxWaits,   \* bound on the wait conditions of a step
          Timeout,    \* setup.timeout, in ticks of the model's clock
          Manifests   \* the manifests a step may apply: a sequence of files,
                      \* each the sequence of its documents

ASSUME SetupAssumption ==
  /\ NumSteps \in Nat /\ MaxWaits \in Nat /\ Timeout \in Nat
  /\ Manifests \subseteq Seq(Seq({"document", "malformed"}))

Step == 1..NumSteps
Wait == 1..MaxWaits

VARIABLES
  steps,     \* the configured steps, fixed
  cluster,   \* there is a k8s cluster: kind, not compose, fixed
  main,      \* where RunStepsAndWait, or the call it makes, is
  step,      \* the step it is at
  file, doc, \* the file and the document of a manifest it is at
  budget,    \* waitTimeout: what the step may take
  left,      \* what remains of it, never below 0
  timer,     \* what remains of time.After in the select
  spawned,   \* waits of the step that have been started
  wait,      \* where the goroutine of each wait is, or a command's wait
  cmd,       \* where the goroutine of a command is
  errChan,   \* the error channel holds an error
  finished,  \* FinishChan is closed
  failed,    \* history: <<step, k>> that failed: its wait k, or for k = 0
             \* its manifest or command
  met,       \* history: <<step, k>> that succeeded
  applied    \* history: <<step, file, doc>> created in the cluster

given == <<steps, cluster>>
manifest == <<file, doc, applied>>
vars == <<given, main, step, budget, left, timer, spawned, wait, cmd, errChan,
          finished, failed, met, manifest>>
clocks == <<budget, left, timer>>
channels == <<errChan, finished>>

StepConfig ==
  [kind : {"manifest"}, waits : 0..MaxWaits, files : Manifests] \cup
  [kind : {"command", "invalid"}, waits : 0..MaxWaits, files : {<<>>}]

\* A timeout that is not configured, or that cannot be parsed, is left at zero
\* (ConfigFile).
Init ==
  /\ steps \in [Step -> StepConfig] /\ cluster \in BOOLEAN
  /\ main = "next" /\ step = 1 /\ file = 1 /\ doc = 1
  /\ budget \in {0, Timeout} /\ left = budget /\ timer = 0
  /\ spawned = 0 /\ wait = [k \in Wait |-> "none"] /\ cmd = "none"
  /\ errChan = FALSE /\ finished = FALSE
  /\ failed = {} /\ met = {} /\ applied = {}

Waits == steps[step].waits
Kind == steps[step].kind
Files == steps[step].files
Over == main \in {"ok", "error", "crashed"}

Fails(what) == failed' = failed \cup {<<step, what>>} /\ UNCHANGED met
Meets(what) == met' = met \cup {<<step, what>>} /\ UNCHANGED failed
Neither == UNCHANGED <<failed, met>>

-----------------------------------------------------------------------------
(* The caller.                                                             *)

\* The loop takes the next step with a fresh WaitSet, or ends.
NextStep ==
  /\ main = "next"
  /\ IF step > NumSteps THEN main' = "ok" /\ UNCHANGED <<cmd, failed, met>>
     ELSE \/ /\ Kind = "invalid" \/ (Kind = "manifest" /\ ~cluster)
             /\ main' = "error" /\ Fails(0) /\ UNCHANGED cmd
          \/ /\ Kind = "manifest" /\ cluster
             /\ main' = "create" /\ UNCHANGED cmd /\ Neither
          \/ Kind = "command" /\ main' = "select" /\ cmd' = "exec" /\ Neither
  /\ timer' = budget
  /\ UNCHANGED <<given, step, budget, left, spawned, wait, channels, manifest>>

\* createByManifest: GetManifests finds the files, all of them or none.
Create ==
  /\ main = "create"
  /\ \/ main' = "error" /\ Fails(0)
     \/ main' = "apply" /\ Neither
  /\ UNCHANGED <<given, step, clocks, spawned, wait, cmd, channels, manifest>>

\* Fault: what cannot be decoded ends the manifest, not its file.
FileEnds_manifest ==
  /\ main = "apply" /\ file <= Len(Files)
  /\ doc <= Len(Files[file]) => Files[file][doc] = "malformed"
  /\ file' = IF doc > Len(Files[file]) THEN file + 1 ELSE Len(Files) + 1
  /\ doc' = 1 /\ UNCHANGED <<main, applied>> /\ Neither

\* OperateManifest: what ends the decoder, its file or a document that cannot
\* be decoded, is not an error.
FileEnds ==
  /\ main = "apply" /\ file <= Len(Files)
  /\ doc <= Len(Files[file]) => Files[file][doc] = "malformed"
  /\ file' = file + 1 /\ doc' = 1 /\ UNCHANGED <<main, applied>> /\ Neither

\* A document is created ...
ApplyDocument ==
  /\ main = "apply" /\ file <= Len(Files) /\ doc <= Len(Files[file])
  /\ Files[file][doc] = "document"
  /\ doc' = doc + 1 /\ applied' = applied \cup {<<step, file, doc>>}
  /\ UNCHANGED <<main, file>> /\ Neither

\* ... or refused, or the file cannot be read, which ends the step.
Refused ==
  /\ main = "apply" /\ file <= Len(Files)
  /\ doc # 1 => doc <= Len(Files[file]) /\ Files[file][doc] = "document"
  /\ main' = "error" /\ Fails(0) /\ UNCHANGED manifest

\* Without waits the step is over when its files are applied.
Created ==
  /\ main = "apply" /\ file > Len(Files)
  /\ main' = (IF Waits = 0 THEN "after" ELSE "spawn") /\ Meets(0)
  /\ file' = 1 /\ UNCHANGED <<doc, applied>>

Apply ==
  /\ FileEnds \/ ApplyDocument \/ Refused \/ Created
  /\ UNCHANGED <<given, step, clocks, spawned, wait, cmd, channels>>

\* A goroutine for each wait whose options can be built; the first whose
\* options cannot ends the step and leaves the others running.
Spawn ==
  /\ main = "spawn"
  /\ IF spawned = Waits
     THEN main' = "select" /\ timer' = budget /\ UNCHANGED <<spawned, wait, failed, met>>
     ELSE /\ UNCHANGED timer
          /\ \/ /\ spawned' = spawned + 1
                /\ wait' = [wait EXCEPT ![spawned + 1] = "running"]
                /\ UNCHANGED main /\ Neither
             \/ main' = "error" /\ Fails(spawned + 1) /\ UNCHANGED <<spawned, wait>>
  /\ UNCHANGED <<given, step, budget, left, cmd, channels, manifest>>

\* Fault: the caller leaves the select as soon as its timer starts.
Select_without_waiting ==
  /\ main = "select" /\ main' = "after"
  /\ UNCHANGED <<errChan, given, step, clocks, spawned, wait, cmd, finished, failed, met, manifest>>

\* Fault: the select has no case for the timer.
Select_without_timer ==
  /\ main = "select"
  /\ \/ finished /\ main' = "after" /\ UNCHANGED errChan
     \/ errChan /\ main' = "error" /\ errChan' = FALSE
  /\ UNCHANGED <<given, step, clocks, spawned, wait, cmd, finished, failed, met, manifest>>

\* The select takes any of the channels that are ready.
Select ==
  /\ main = "select"
  /\ \/ finished /\ main' = "after" /\ UNCHANGED errChan
     \/ errChan /\ main' = "error" /\ errChan' = FALSE
     \/ timer = 0 /\ main' = "error" /\ UNCHANGED errChan
  /\ UNCHANGED <<given, step, clocks, spawned, wait, cmd, finished, failed, met, manifest>>

\* Fault: the time a step took is added to the timeout, not taken from it.
After_adds_elapsed ==
  /\ main = "after"
  /\ budget' = 2 * budget - left
  /\ IF left = 0 THEN main' = "error" /\ UNCHANGED step
     ELSE main' = "next" /\ step' = step + 1
  /\ spawned' = 0 /\ wait' = [k \in Wait |-> "none"] /\ cmd' = "none"
  /\ finished' = FALSE /\ errChan' = FALSE
  /\ timer' = 0 /\ UNCHANGED <<given, left, failed, met, manifest>>

\* What remains of the timeout is the budget of the next step; nothing left
\* is an error, after the last step too.
After ==
  /\ main = "after"
  /\ budget' = left
  /\ IF left = 0 THEN main' = "error" /\ UNCHANGED step
     ELSE main' = "next" /\ step' = step + 1
  /\ spawned' = 0 /\ wait' = [k \in Wait |-> "none"] /\ cmd' = "none"
  /\ finished' = FALSE /\ errChan' = FALSE
  /\ timer' = 0 /\ UNCHANGED <<given, left, failed, met, manifest>>

-----------------------------------------------------------------------------
(* The goroutines.                                                         *)

WaitGroupZero ==
  /\ main \notin {"create", "apply", "spawn"}
  /\ cmd \in {"none", "done"} /\ \A k \in Wait : wait[k] \in {"none", "done"}

\* The third goroutine closes FinishChan when all others are done.
Finish ==
  /\ main = "select" /\ ~finished /\ WaitGroupZero
  /\ finished' = TRUE
  /\ UNCHANGED <<given, main, step, clocks, spawned, wait, cmd, errChan, failed, met, manifest>>

\* A manifest's wait ends: met, or with an error still to be sent.
WaitEnds(k) ==
  /\ wait[k] = "running"
  /\ \/ wait' = [wait EXCEPT ![k] = "done"] /\ Meets(k)
     \/ wait' = [wait EXCEPT ![k] = "sending"] /\ Fails(k)
  /\ UNCHANGED <<given, main, step, clocks, spawned, cmd, channels, manifest>>

\* Fault: a failed wait is only logged.
WaitSends_forgets(k) ==
  /\ wait[k] = "sending" /\ wait' = [wait EXCEPT ![k] = "done"]
  /\ UNCHANGED <<given, main, step, clocks, spawned, cmd, channels, failed, met, manifest>>

\* The error enters the channel while there is room, then wg.Done runs.
WaitSends(k) ==
  /\ wait[k] = "sending" /\ ~errChan
  /\ errChan' = TRUE /\ wait' = [wait EXCEPT ![k] = "done"]
  /\ UNCHANGED <<given, main, step, clocks, spawned, cmd, finished, failed, met, manifest>>

\* The command ends.  Its error is to be sent, and the waits follow it: there
\* is no return after the send.
CommandEnds ==
  /\ cmd = "exec"
  /\ \/ cmd' = "waits" /\ Meets(0)
     \/ cmd' = "sendFailure" /\ Fails(0)
  /\ UNCHANGED <<given, main, step, clocks, spawned, wait, channels, manifest>>

\* Sending from the command's goroutine blocks it while the channel is full.
CommandSends(from, to) ==
  /\ cmd = from /\ cmd' = to
  /\ ~errChan /\ errChan' = TRUE
  /\ UNCHANGED <<given, main, step, clocks, spawned, wait, finished, failed, met, manifest>>

CommandSendsError ==
  \/ CommandSends("sendFailure", "waits")
  \/ CommandSends("sendOptions", "nilOptions")
  \/ CommandSends("sendWait", "done")

\* The waits of a command in turn; options that cannot be built are sent as
\* an error too, again without a return.  Without a cluster the options of
\* any wait that is not refused before dereference it.
CommandWaits ==
  /\ cmd = "waits"
  /\ IF spawned = Waits THEN cmd' = "done" /\ UNCHANGED spawned /\ Neither
     ELSE /\ spawned' = spawned + 1
          /\ \/ cluster /\ cmd' = "waits" /\ Meets(spawned + 1)
             \/ cluster /\ cmd' = "sendWait" /\ Fails(spawned + 1)
             \/ ~cluster /\ cmd' = "nilOptions" /\ Fails(spawned + 1)
             \/ cmd' = "sendOptions" /\ Fails(spawned + 1)
  /\ UNCHANGED <<given, main, step, clocks, wait, channels, manifest>>

\* RunWait is called on nil options, or a nil cluster copied: the process
\* panics.
NilOptions ==
  /\ cmd = "nilOptions" /\ main' = "crashed"
  /\ UNCHANGED <<given, step, clocks, spawned, wait, cmd, channels, failed, met, manifest>>

\* The clock: bounded because what it counts stops at zero.
Tick ==
  /\ left > 0 \/ timer > 0
  /\ left' = (IF left = 0 THEN 0 ELSE left - 1)
  /\ timer' = (IF timer = 0 THEN 0 ELSE timer - 1)
  /\ UNCHANGED <<given, main, step, budget, spawned, wait, cmd, channels, failed, met, manifest>>

Caller == NextStep \/ Create \/ Apply \/ Spawn \/ Select \/ After

Goroutines ==
  \/ Finish \/ CommandEnds \/ CommandSendsError \/ CommandWaits \/ NilOptions
  \/ \E k \in Wait : WaitEnds(k) \/ WaitSends(k)

Next == ~Over /\ (Caller \/ Goroutines \/ Tick)

\* Time passes and the caller runs; nothing is assumed of the commands and
\* the waits, which may take for ever.
Fairness == WF_vars(~Over /\ Caller) /\ WF_vars(~Over /\ Tick)

Spec == Init /\ [][Next]_vars /\ Fairness

-----------------------------------------------------------------------------
TypeOK ==
  /\ steps \in [Step -> StepConfig] /\ cluster \in BOOLEAN
  /\ main \in {"next", "create", "apply", "spawn", "select", "after", "ok", "error", "crashed"}
  /\ step \in 1..(NumSteps + 1)
  /\ budget \in 0..Timeout /\ left \in 0..budget /\ timer \in 0..Timeout
  /\ spawned \in 0..MaxWaits
  /\ wait \in [Wait -> {"none", "running", "sending", "done"}]
  /\ cmd \in {"none", "exec", "waits", "sendFailure", "sendOptions", "sendWait",
              "nilOptions", "done"}
  /\ errChan \in BOOLEAN /\ finished \in BOOLEAN
  /\ file \in Nat \ {0} /\ doc \in Nat \ {0}
  /\ failed \in SUBSET (Step \X (0..MaxWaits))

Result(k) == <<step, k>> \in met \cup failed

\* A step that has not started its waits or its command has nothing left over
\* from the one before, and no failure.
Fresh ==
  main \in {"next", "create", "apply"} =>
    /\ spawned = 0 /\ cmd = "none" /\ ~errChan
    /\ \A k \in Wait : wait[k] = "none"
    /\ \A p \in failed : p[1] < step

\* The waits of a manifest that are started run, or have their result.
ManifestUnderWay ==
  /\ main \in {"create", "apply", "spawn"} => Kind = "manifest"
  /\ \A k \in Wait : wait[k] \in {"sending", "done"} => Result(k)
  /\ main \in {"spawn", "select"} /\ Kind = "manifest" =>
       /\ cmd = "none" /\ Result(0) /\ spawned <= Waits
       /\ \A k \in Wait : wait[k] = "none" <=> k > spawned
       /\ main = "select" => spawned = Waits

\* A command, and those of its waits it has come to, have their results; it
\* ends before the last one only behind one that failed.
CommandUnderWay ==
  main = "select" /\ Kind # "manifest" =>
    /\ Kind = "command" /\ cmd # "none" /\ spawned <= Waits
    /\ cmd = "exec" => spawned = 0
    /\ cmd # "exec" => \A k \in 0..spawned : Result(k)
    /\ cmd = "sendWait" => spawned > 0 /\ <<step, spawned>> \in failed
    /\ cmd = "done" => spawned = Waits \/ \E j \in 1..spawned : <<step, j>> \in failed

\* What is finished has no goroutine left.
FinishedIsQuiet ==
  /\ finished => main \in {"select", "after", "ok", "error", "crashed"}
  /\ finished \/ main = "after" =>
       cmd \in {"none", "done"} /\ \A k \in Wait : wait[k] \in {"none", "done"}

\* The variables keep their types, what remains of a timeout never exceeds it,
\* and what runs, or has run, of a step is accounted for.
Inv ==
  /\ TypeOK /\ (main \in {"create", "apply", "spawn", "select", "after"} => step \in Step)
  /\ Fresh /\ ManifestUnderWay /\ CommandUnderWay /\ FinishedIsQuiet

\* Everything a step has to do has ended; what a command never came to is
\* behind a wait of it that failed.
Ended(s) ==
  \A k \in 0..steps[s].waits :
    \/ <<s, k>> \in met \cup failed
    \/ steps[s].kind = "command" /\ \E j \in 1..(k - 1) : <<s, j>> \in failed

\* A step is left only when it has ended, whichever channel of the select was
\* ready: no step starts beside an earlier one, and setup does not succeed
\* while a condition is still being waited for.
StepsInOrder == \A s \in 1..(step - 1) : Ended(s)

\* The documents of a manifest that the decoder comes to: a file is read up to
\* the first that cannot be decoded.
Readable(s) ==
  LET files == steps[s].files
      documents == UNION {{<<s, f, d>> : d \in DOMAIN files[f]} : f \in DOMAIN files}
  IN  {p \in documents : \A e \in 1..p[3] : files[p[2]][e] = "document"}

Before(p, q) ==
  \/ p[1] < q[1]
  \/ p[1] = q[1] /\ (p[2] < q[2] \/ (p[2] = q[2] /\ p[3] < q[3]))

\* The documents of the manifests are applied in their order, over steps and
\* files: one that is refused leaves those before it in the cluster and nothing
\* behind it.  A step that is left has applied all of them, but for those
\* behind one that could not be decoded, which nothing tells of.
AppliedInOrder ==
  /\ \A q \in applied :
       /\ q \in Readable(q[1])
       /\ \A s \in 1..q[1] : \A p \in Readable(s) : Before(p, q) => p \in applied
  /\ \A s \in 1..(step - 1) : Readable(s) \subseteq applied

\* The caller never waits for ever, even if a command does.
SetupReturns == <>Over

\* A failure is not lost as long as another part of the step still runs: it is
\* in the channel, or on its way to it, or the process is about to die of it.
\* The only success after a failure is a finished channel closed beside it.
FailureKeepsError ==
  main \in {"spawn", "select"} /\ (\E p \in failed : p[1] = step) =>
    \/ errChan \/ \E k \in Wait : wait[k] = "sending"
    \/ cmd \in {"sendFailure", "sendOptions", "sendWait", "nilOptions"}

\* Configuration-File.md: "Wait until all steps are finished and all services
\* are ready": success means that nothing failed.
OkMeansNothingFailed == main = "ok" => failed = {}
=============================================================================

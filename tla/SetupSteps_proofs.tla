------------------------- MODULE SetupSteps_proofs --------------------------
(***************************************************************************)
(* Proofs about SetupSteps, for any number of steps and of waits, every    *)
(* timeout and every set of manifests: the steps are in order, and a       *)
(* failure is not lost while another part of its step runs.  Both rest on  *)
(* what Inv knows of the goroutines: one that has ended has left a result, *)
(* and one that has failed has sent its error or is still to send it.      *)
(***************************************************************************)
EXTENDS SetupSteps, TLAPS

\* A step whose select is over has ended; failures are of steps begun.
StepEnds ==
  /\ main = "after" => Ended(step)
  /\ \A p \in failed : p[1] <= step

\* The inductive invariant.
StepsInv == Inv /\ StepEnds /\ StepsInOrder /\ FailureKeepsError

\* A configured step has a kind and a number of waits.
LEMMA StepFacts ==
  ASSUME TypeOK
  PROVE  /\ NumSteps \in Nat /\ MaxWaits \in Nat /\ Timeout \in Nat
         /\ \A s \in Step : /\ steps[s].kind \in {"manifest", "command", "invalid"}
                            /\ steps[s].waits \in 0..MaxWaits
BY SetupAssumption DEF SetupAssumption, TypeOK, StepConfig

\* Results stay: a step that has ended has ended for good.
LEMMA EndedStays ==
  ASSUME UNCHANGED steps, met \subseteq met', failed \subseteq failed', NEW s, Ended(s)
  PROVE  Ended(s)'
BY DEF Ended

\* ... and so do the steps before an unchanged one.
LEMMA OrderStays ==
  ASSUME StepsInOrder, UNCHANGED <<steps, step>>, met \subseteq met', failed \subseteq failed'
  PROVE  StepsInOrder'
BY EndedStays DEF StepsInOrder

\* When all its goroutines are done, a step that is being waited for has ended.
LEMMA QuietHasEnded ==
  ASSUME Inv, main = "select", finished PROVE Ended(step)
<1>1. /\ step \in Step /\ Waits \in 0..MaxWaits /\ MaxWaits \in Nat /\ spawned \in Nat
      /\ Kind \in {"manifest", "command", "invalid"}
      /\ cmd \in {"none", "done"} /\ \A k \in Wait : wait[k] \in {"none", "done"}
  BY StepFacts DEF Inv, TypeOK, FinishedIsQuiet, Waits, Kind
<1>2. CASE Kind = "manifest"
  <2>1. /\ Result(0) /\ spawned = Waits /\ \A k \in Wait : wait[k] = "none" <=> k > spawned
        /\ \A k \in Wait : wait[k] \in {"sending", "done"} => Result(k)
    BY <1>2 DEF Inv, ManifestUnderWay
  <2>2. \A k \in 0..Waits : Result(k)
    BY <1>1, <2>1 DEF Wait
  <2>. QED
    BY <2>2 DEF Ended, Result, Waits
<1>3. CASE Kind # "manifest"
  <2>1. /\ Kind = "command" /\ \A k \in 0..spawned : Result(k)
        /\ spawned = Waits \/ \E j \in 1..spawned : <<step, j>> \in failed
    BY <1>1, <1>3 DEF Inv, CommandUnderWay
  <2>2. ASSUME NEW k \in 0..Waits, ~Result(k)
        PROVE  \E j \in 1..(k - 1) : <<step, j>> \in failed
    BY <1>1, <2>1, <2>2
  <2>. QED
    BY <2>1, <2>2 DEF Ended, Result, Waits, Kind
<1>. QED
  BY <1>2, <1>3

\* The parts of the invariant, once a step is begun.
LEMMA Begun ==
  ASSUME StepsInv, main \in {"create", "apply", "spawn", "select", "after"}
  PROVE  /\ Inv /\ StepEnds /\ StepsInOrder /\ FailureKeepsError /\ step \in Step
         /\ main = "after" => Ended(step)
         /\ main \in {"create", "apply", "spawn"} => ~finished
<1>1. Inv /\ StepEnds /\ StepsInOrder /\ FailureKeepsError
  BY DEF StepsInv
<1>2. TypeOK /\ step \in Step /\ FinishedIsQuiet
  BY <1>1 DEF Inv
<1>. QED
  BY <1>1, <1>2 DEF StepEnds, TypeOK, FinishedIsQuiet

\* At the start nothing has begun.
LEMMA StepsInit == Init => StepsInv
<1>. SUFFICES ASSUME Init PROVE StepsInv
  OBVIOUS
<1>1. TypeOK
  <2>1. NumSteps \in Nat /\ MaxWaits \in Nat /\ Timeout \in Nat
    BY SetupAssumption DEF SetupAssumption
  <2>2. wait \in [Wait -> {"none", "running", "sending", "done"}]
    BY DEF Init
  <2>3. main = "next" /\ cmd = "none" /\ step \in 1..(NumSteps + 1) /\ spawned \in 0..MaxWaits
    BY <2>1 DEF Init
  <2>4. budget \in 0..Timeout /\ left \in 0..budget /\ timer \in 0..Timeout
    BY <2>1 DEF Init
  <2>5. /\ steps \in [Step -> StepConfig] /\ cluster \in BOOLEAN
        /\ errChan \in BOOLEAN /\ finished \in BOOLEAN /\ failed = {}
    BY Zenon DEF Init
  <2>6. file \in Nat \ {0} /\ doc \in Nat \ {0}
    BY DEF Init
  <2>. QED
    BY <2>2, <2>3, <2>4, <2>5, <2>6 DEF TypeOK
<1>2. Fresh /\ ManifestUnderWay /\ CommandUnderWay /\ FinishedIsQuiet
  BY DEF Init, Fresh, ManifestUnderWay, CommandUnderWay, FinishedIsQuiet
<1>3. StepEnds /\ StepsInOrder /\ FailureKeepsError
  BY DEF Init, StepEnds, StepsInOrder, FailureKeepsError
<1>. QED
  BY <1>1, <1>2, <1>3 DEF Init, StepsInv, Inv

\* The caller takes up a step.
LEMMA NextStepInv == ASSUME StepsInv, NextStep PROVE StepsInv'
<1>1. /\ Inv /\ StepEnds /\ StepsInOrder /\ main = "next"
      /\ UNCHANGED <<steps, cluster, step, budget, left, spawned, wait, errChan, finished, file, doc>>
      /\ timer' = budget /\ step \in 1..(NumSteps + 1) /\ NumSteps \in Nat
      /\ ~finished /\ UNCHANGED met
  BY StepFacts
     DEF StepsInv, Inv, FinishedIsQuiet, TypeOK, NextStep, given, channels, manifest, Fails, Neither
<1>2. /\ failed \subseteq failed'
      /\ \/ main' \in {"ok", "error"} /\ failed' \subseteq failed \cup {<<step, 0>>} /\ UNCHANGED cmd
         \/ main' = "create" /\ UNCHANGED <<failed, cmd>> /\ Kind = "manifest"
         \/ main' = "select" /\ cmd' = "exec" /\ UNCHANGED failed /\ Kind = "command"
      /\ main' = "error" \/ main' = "ok" \/ step \in Step
      /\ step \notin Step => UNCHANGED failed
  BY <1>1 DEF NextStep, Fails, Neither, Step
<1>3. TypeOK' /\ (main' # "next" /\ main' # "ok" /\ main' # "error" => step' \in Step)
  BY <1>1, <1>2, StepFacts DEF Inv, TypeOK
<1>4. Fresh' /\ ManifestUnderWay' /\ FinishedIsQuiet'
  BY <1>1, <1>2 DEF Inv, Fresh, ManifestUnderWay, FinishedIsQuiet, Kind, Waits, Result
<1>5. CommandUnderWay'
  BY <1>1, <1>2, StepFacts DEF Inv, Fresh, CommandUnderWay, Kind, Waits
<1>6. StepEnds' /\ FailureKeepsError'
  BY <1>1, <1>2 DEF Inv, Fresh, StepEnds, FailureKeepsError
<1>7. StepsInOrder'
  BY <1>1, <1>2, OrderStays
<1>. QED
  BY <1>1, <1>2, <1>3, <1>4, <1>5, <1>6, <1>7 DEF StepsInv, Inv

\* The files of a manifest are found, or not.
LEMMA CreateInv == ASSUME StepsInv, Create PROVE StepsInv'
<1>1. /\ Inv /\ StepEnds /\ StepsInOrder /\ main = "create" /\ step \in Step /\ ~finished
      /\ UNCHANGED <<steps, cluster, step, budget, left, timer, spawned, wait, cmd, errChan,
                     finished, file, doc, met>>
      /\ (main' = "error" /\ failed' = failed \cup {<<step, 0>>}) \/ (main' = "apply" /\ failed' = failed)
  <2>1. main = "create"
    BY DEF Create
  <2>2. /\ UNCHANGED <<steps, cluster, step, budget, left, timer, spawned, wait, cmd, errChan,
                       finished, file, doc, met>>
        /\ (main' = "error" /\ failed' = failed \cup {<<step, 0>>}) \/ (main' = "apply" /\ failed' = failed)
    BY DEF Create, given, clocks, channels, manifest, Fails, Neither
  <2>. QED
    BY <2>1, <2>2, Begun
<1>2. TypeOK' /\ step' \in Step
  BY <1>1, StepFacts DEF Inv, TypeOK
<1>3. Fresh' /\ ManifestUnderWay' /\ CommandUnderWay' /\ FinishedIsQuiet'
  BY <1>1 DEF Inv, Fresh, ManifestUnderWay, CommandUnderWay, FinishedIsQuiet, Kind, Waits, Result
<1>4. StepEnds' /\ FailureKeepsError'
  BY <1>1, <1>2, StepFacts DEF Inv, TypeOK, StepEnds, FailureKeepsError, Step
<1>5. StepsInOrder'
  BY <1>1, OrderStays
<1>. QED
  BY <1>2, <1>3, <1>4, <1>5 DEF StepsInv, Inv

\* Its documents are applied, in the place of the caller.
LEMMA ApplyInv == ASSUME StepsInv, Apply PROVE StepsInv'
<1>1. /\ Inv /\ StepEnds /\ StepsInOrder /\ main = "apply" /\ step \in Step /\ ~finished
      /\ UNCHANGED <<steps, cluster, step, budget, left, timer, spawned, wait, cmd, errChan, finished>>
  BY DEF StepsInv, Inv, FinishedIsQuiet, Apply, FileEnds, ApplyDocument, Refused, Created,
         given, clocks, channels
<1>2. /\ file' \in Nat \ {0} /\ doc' \in Nat \ {0}
      /\ \/ main' = "error" /\ failed' = failed \cup {<<step, 0>>} /\ met' = met
         \/ main' = "apply" /\ failed' = failed /\ met' = met
         \/ /\ main' = IF Waits = 0 THEN "after" ELSE "spawn"
            /\ failed' = failed /\ met' = met \cup {<<step, 0>>}
  BY <1>1 DEF Inv, TypeOK, Apply, FileEnds, ApplyDocument, Refused, Created, Fails, Meets,
              Neither, manifest
<1>3. TypeOK' /\ step' \in Step
  BY <1>1, <1>2, StepFacts DEF Inv, TypeOK
<1>4. Fresh' /\ CommandUnderWay' /\ FinishedIsQuiet'
  BY <1>1, <1>2 DEF Inv, Fresh, ManifestUnderWay, CommandUnderWay, FinishedIsQuiet, Kind, Waits, Result
<1>5. ManifestUnderWay'
  <2>1. spawned = 0 /\ (\A k \in Wait : wait[k] = "none" /\ k > 0) /\ Waits \in Nat
    BY <1>1, StepFacts DEF Inv, Fresh, Wait, Waits
  <2>2. Kind' = Kind /\ Waits' = Waits /\ Kind = "manifest" /\ cmd = "none"
    BY <1>1 DEF Inv, Fresh, ManifestUnderWay, Kind, Waits
  <2>3. (main' \in {"spawn", "select"} => Result(0)') /\ main' # "select"
    BY <1>1, <1>2 DEF Result
  <2>. QED
    BY <1>1, <2>1, <2>2, <2>3 DEF ManifestUnderWay
<1>6. StepEnds' /\ FailureKeepsError'
  <2>1. main' = "after" => Ended(step)'
    BY <1>1, <1>2 DEF Ended, Waits
  <2>2. \A p \in failed' : p[1] <= step'
    BY <1>1, <1>2, StepFacts DEF StepEnds, Step
  <2>3. FailureKeepsError'
    BY <1>1, <1>2, StepFacts DEF Inv, Fresh, FailureKeepsError, Step
  <2>. QED
    BY <1>1, <2>1, <2>2, <2>3 DEF StepEnds
<1>7. StepsInOrder'
  BY <1>1, <1>2, OrderStays
<1>. QED
  BY <1>3, <1>4, <1>5, <1>6, <1>7 DEF StepsInv, Inv

\* A wait of the manifest is started, or all of them are.
LEMMA SpawnInv == ASSUME StepsInv, Spawn PROVE StepsInv'
<1>1. /\ Inv /\ StepEnds /\ StepsInOrder /\ FailureKeepsError
      /\ main = "spawn" /\ step \in Step /\ ~finished /\ Kind = "manifest" /\ met' = met
      /\ UNCHANGED <<steps, cluster, step, budget, left, cmd, errChan, finished, file, doc>>
      /\ spawned <= Waits /\ Waits \in 0..MaxWaits /\ MaxWaits \in Nat /\ spawned \in Nat
  BY StepFacts
     DEF StepsInv, Inv, TypeOK, FinishedIsQuiet, ManifestUnderWay, Spawn, given, channels,
         manifest, Fails, Neither, Waits
<1>2. \/ /\ main' = "select" /\ spawned = Waits /\ timer' = budget
         /\ UNCHANGED <<spawned, wait, failed>>
      \/ /\ spawned < Waits /\ spawned' = spawned + 1 /\ main' = "spawn"
         /\ wait' = [wait EXCEPT ![spawned + 1] = "running"] /\ UNCHANGED <<timer, failed>>
      \/ /\ main' = "error" /\ spawned < Waits /\ failed' = failed \cup {<<step, spawned + 1>>}
         /\ UNCHANGED <<timer, spawned, wait>>
  BY <1>1 DEF Spawn, Fails, Neither
<1>3. TypeOK' /\ step' \in Step
  BY <1>1, <1>2 DEF Inv, TypeOK, Wait
<1>4. Fresh' /\ CommandUnderWay' /\ FinishedIsQuiet'
  BY <1>1, <1>2 DEF Inv, Fresh, ManifestUnderWay, CommandUnderWay, FinishedIsQuiet, Kind, Waits, Result
<1>5. ManifestUnderWay'
  BY <1>1, <1>2 DEF Inv, TypeOK, Wait, ManifestUnderWay, Kind, Waits, Result
<1>6. StepEnds' /\ FailureKeepsError'
  <2>1. \A p \in failed' : p[1] <= step'
    BY <1>1, <1>2, StepFacts DEF StepEnds, Step
  <2>2. \A k \in Wait : wait[k] = "sending" /\ main' # "error" => wait'[k] = "sending" \/ k = spawned + 1
    BY <1>1, <1>2 DEF Inv, TypeOK
  <2>3. \A k \in Wait : k > spawned => wait[k] = "none"
    BY <1>1 DEF Inv, ManifestUnderWay
  <2>. QED
    BY <1>1, <1>2, <2>1, <2>2, <2>3 DEF StepEnds, FailureKeepsError
<1>7. StepsInOrder'
  BY <1>1, <1>2, OrderStays
<1>. QED
  BY <1>3, <1>4, <1>5, <1>6, <1>7 DEF StepsInv, Inv

\* The select is left: for the end of the step only when it has ended.
LEMMA SelectInv == ASSUME StepsInv, Select PROVE StepsInv'
<1>1. /\ Inv /\ StepEnds /\ StepsInOrder /\ main = "select" /\ step \in Step
      /\ UNCHANGED <<steps, cluster, step, budget, left, timer, spawned, wait, cmd, finished,
                     failed, met, file, doc>>
      /\ (main' = "after" /\ finished /\ errChan' = errChan) \/ (main' = "error" /\ errChan' \in BOOLEAN)
  BY DEF StepsInv, Inv, TypeOK, Select, given, clocks, manifest
<1>2. TypeOK' /\ step' \in Step
  BY <1>1, StepFacts DEF Inv, TypeOK
<1>3. Fresh' /\ ManifestUnderWay' /\ CommandUnderWay' /\ FinishedIsQuiet'
  BY <1>1 DEF Inv, Fresh, ManifestUnderWay, CommandUnderWay, FinishedIsQuiet, Kind, Waits, Result
<1>4. StepEnds' /\ FailureKeepsError'
  <2>1. main' = "after" => Ended(step)'
    BY <1>1, QuietHasEnded, EndedStays
  <2>. QED
    BY <1>1, <2>1 DEF StepEnds, FailureKeepsError
<1>5. StepsInOrder'
  BY <1>1, OrderStays
<1>. QED
  BY <1>1, <1>2, <1>3, <1>4, <1>5 DEF StepsInv, Inv

\* What the step took is taken from the timeout, and the next one follows.
LEMMA AfterInv == ASSUME StepsInv, After PROVE StepsInv'
<1>1. /\ Inv /\ StepEnds /\ StepsInOrder /\ main = "after" /\ step \in Step /\ Ended(step)
      /\ UNCHANGED <<steps, cluster, left, failed, met, file, doc>>
      /\ budget' = left /\ spawned' = 0 /\ wait' = [k \in Wait |-> "none"] /\ cmd' = "none"
      /\ finished' = FALSE /\ errChan' = FALSE /\ timer' = 0
      /\ (main' = "error" /\ step' = step) \/ (main' = "next" /\ step' = step + 1)
  <2>1. main = "after"
    BY DEF After
  <2>2. /\ UNCHANGED <<steps, cluster, left, failed, met, file, doc>>
        /\ budget' = left /\ spawned' = 0 /\ wait' = [k \in Wait |-> "none"] /\ cmd' = "none"
        /\ finished' = FALSE /\ errChan' = FALSE /\ timer' = 0
        /\ (main' = "error" /\ step' = step) \/ (main' = "next" /\ step' = step + 1)
    BY DEF After, given, manifest
  <2>. QED
    BY <2>1, <2>2, Begun
<1>2. TypeOK'
  <2>1. wait' \in [Wait -> {"none", "running", "sending", "done"}]
    BY <1>1
  <2>2. step' \in 1..(NumSteps + 1) /\ main' \in {"error", "next"}
    BY <1>1, StepFacts DEF Inv, Step
  <2>3. budget' \in 0..Timeout /\ left' \in 0..budget' /\ timer' \in 0..Timeout
    BY <1>1, StepFacts DEF Inv, TypeOK
  <2>4. /\ steps' \in [Step -> StepConfig] /\ cluster' \in BOOLEAN
        /\ failed' \in SUBSET (Step \X (0..MaxWaits))
        /\ file' \in Nat \ {0} /\ doc' \in Nat \ {0}
    BY <1>1 DEF Inv, TypeOK
  <2>5. errChan' \in BOOLEAN /\ finished' \in BOOLEAN
    BY <1>1, Zenon
  <2>6. spawned' \in 0..MaxWaits
    BY <1>1, StepFacts DEF Inv
  <2>. QED
    BY <1>1, <2>1, <2>2, <2>3, <2>4, <2>5, <2>6 DEF TypeOK
<1>3. Fresh' /\ ManifestUnderWay' /\ CommandUnderWay' /\ FinishedIsQuiet'
  <2>1. \A k \in Wait : wait'[k] = "none"
    BY <1>1
  <2>2. main' = "next" => \A p \in failed : p[1] < step'
    BY <1>1, StepFacts DEF Inv, TypeOK, StepEnds, Step
  <2>. QED
    BY <1>1, <2>1, <2>2 DEF Fresh, ManifestUnderWay, CommandUnderWay, FinishedIsQuiet
<1>4. StepEnds' /\ FailureKeepsError'
  BY <1>1, StepFacts DEF Inv, TypeOK, StepEnds, FailureKeepsError, Step
<1>5. StepsInOrder'
  <2>. SUFFICES ASSUME NEW s \in 1..(step' - 1) PROVE Ended(s)'
    BY DEF StepsInOrder
  <2>1. s \in 1..(step - 1) \/ s = step
    BY <1>1, StepFacts DEF Step
  <2>2. Ended(s)
    BY <1>1, <2>1 DEF StepsInOrder
  <2>. QED
    BY <1>1, <2>2, EndedStays
<1>. QED
  BY <1>1, <1>2, <1>3, <1>4, <1>5 DEF StepsInv, Inv

\* A wait that is under way has the caller start others or wait for it.
LEMMA WaitRuns ==
  ASSUME StepsInv, ~Over, NEW k \in Wait, wait[k] \notin {"none", "done"}
  PROVE  main \in {"spawn", "select"} /\ ~finished
<1>1. main \in {"next", "create", "apply", "spawn", "select", "after"}
  BY DEF StepsInv, Inv, TypeOK, Over
<1>2. main \notin {"next", "create", "apply"}
  BY DEF StepsInv, Inv, Fresh
<1>3. main # "after" /\ ~(finished = TRUE)
  BY DEF StepsInv, Inv, FinishedIsQuiet
<1>. QED
  BY <1>1, <1>2, <1>3 DEF StepsInv, Inv, TypeOK

\* A command that is under way has the caller wait for it.
LEMMA CommandRuns ==
  ASSUME StepsInv, ~Over, cmd \notin {"none", "done"}
  PROVE  /\ main = "select" /\ Kind = "command" /\ ~finished
         /\ spawned \in Nat /\ Waits \in 0..MaxWaits /\ MaxWaits \in Nat /\ spawned <= Waits
         /\ cmd = "exec" => spawned = 0
         /\ cmd # "exec" => \A k \in 0..spawned : Result(k)
<1>1. main \in {"next", "create", "apply", "spawn", "select", "after"}
  BY DEF StepsInv, Inv, TypeOK, Over
<1>2. main \notin {"next", "create", "apply"}
  BY DEF StepsInv, Inv, Fresh
<1>3. main # "after" /\ ~(finished = TRUE)
  BY DEF StepsInv, Inv, FinishedIsQuiet
<1>4. main = "select" /\ Kind # "manifest"
  BY <1>1, <1>2, <1>3 DEF StepsInv, Inv, ManifestUnderWay
<1>5. /\ Kind = "command" /\ spawned <= Waits /\ (cmd = "exec" => spawned = 0)
      /\ cmd # "exec" => \A k \in 0..spawned : Result(k)
  BY <1>4 DEF StepsInv, Inv, CommandUnderWay
<1>6. finished \in BOOLEAN /\ spawned \in Nat /\ Waits \in 0..MaxWaits /\ MaxWaits \in Nat
  <2>1. TypeOK /\ step \in Step
    BY <1>4 DEF StepsInv, Inv
  <2>. QED
    BY <2>1, StepFacts DEF TypeOK, Waits
<1>. QED
  BY <1>3, <1>4, <1>5, <1>6

\* The goroutine of a wait ends, with a result, or is to send its error.
LEMMA WaitEndsInv ==
  ASSUME StepsInv, ~Over, NEW k \in Wait, WaitEnds(k) PROVE StepsInv'
<1>1. /\ main \in {"spawn", "select"} /\ ~finished /\ step \in Step
      /\ Inv /\ StepEnds /\ StepsInOrder /\ FailureKeepsError /\ wait[k] = "running"
  BY WaitRuns, Begun DEF WaitEnds
<1>2. UNCHANGED <<steps, cluster, main, step, budget, left, timer, spawned, cmd, errChan,
                  finished, file, doc>>
  BY DEF WaitEnds, given, clocks, channels, manifest
<1>3. /\ met \subseteq met' /\ failed \subseteq failed' /\ failed' \subseteq failed \cup {<<step, k>>}
      /\ wait' \in [Wait -> {"none", "running", "sending", "done"}]
      /\ \A j \in Wait : j # k => wait'[j] = wait[j]
      /\ wait'[k] \in {"sending", "done"} /\ <<step, k>> \in met' \cup failed'
      /\ wait'[k] # "sending" => failed' = failed
  BY <1>1 DEF Inv, TypeOK, WaitEnds, Meets, Fails
<1>4. TypeOK' /\ step' \in Step
  BY <1>1, <1>2, <1>3, StepFacts DEF Inv, TypeOK, Wait
<1>5. Fresh' /\ FinishedIsQuiet'
  BY <1>1, <1>2 DEF Fresh, FinishedIsQuiet
<1>6. ManifestUnderWay'
  <2>1. \A j \in Wait : wait'[j] \in {"sending", "done"} => Result(j)'
    BY <1>1, <1>2, <1>3 DEF Inv, ManifestUnderWay, Result
  <2>2. Result(0) => Result(0)'
    BY <1>2, <1>3 DEF Result
  <2>. QED
    BY <1>1, <1>2, <1>3, <2>1, <2>2 DEF Inv, ManifestUnderWay, Kind, Waits
<1>7. CommandUnderWay'
  <2>1. \A j : Result(j) => Result(j)'
    BY <1>2, <1>3 DEF Result
  <2>. QED
    BY <1>1, <1>2, <1>3, <2>1 DEF Inv, CommandUnderWay, Kind, Waits
<1>8. StepEnds' /\ FailureKeepsError'
  <2>1. \A p \in failed' : p[1] <= step'
    BY <1>1, <1>2, <1>3, StepFacts DEF StepEnds, Step
  <2>2. FailureKeepsError'
    BY <1>1, <1>2, <1>3 DEF FailureKeepsError
  <2>. QED
    BY <1>1, <1>2, <2>1, <2>2 DEF StepEnds
<1>9. StepsInOrder'
  BY <1>1, <1>2, <1>3, OrderStays
<1>. QED
  BY <1>4, <1>5, <1>6, <1>7, <1>8, <1>9 DEF StepsInv, Inv

\* An error of a wait enters the channel.
LEMMA WaitSendsInv ==
  ASSUME StepsInv, ~Over, NEW k \in Wait, WaitSends(k) PROVE StepsInv'
<1>1. /\ main \in {"spawn", "select"} /\ ~finished /\ step \in Step
      /\ Inv /\ StepEnds /\ StepsInOrder /\ FailureKeepsError /\ wait[k] = "sending"
  BY WaitRuns, Begun DEF WaitSends
<1>2. /\ UNCHANGED <<steps, cluster, main, step, budget, left, timer, spawned, cmd,
                     finished, file, doc, met, failed>>
      /\ errChan' = TRUE
  BY DEF WaitSends, given, clocks, manifest
<1>3. /\ wait' \in [Wait -> {"none", "running", "sending", "done"}]
      /\ \A j \in Wait : j # k => wait'[j] = wait[j]
      /\ wait'[k] = "done"
  BY <1>1 DEF Inv, TypeOK, WaitSends
<1>4. TypeOK' /\ step' \in Step
  BY <1>1, <1>2, <1>3 DEF Inv, TypeOK
<1>5. Fresh' /\ FinishedIsQuiet' /\ StepEnds' /\ FailureKeepsError'
  BY <1>1, <1>2 DEF Fresh, FinishedIsQuiet, StepEnds, FailureKeepsError
<1>6. ManifestUnderWay' /\ CommandUnderWay'
  BY <1>1, <1>2, <1>3 DEF Inv, ManifestUnderWay, CommandUnderWay, Kind, Waits, Result
<1>7. StepsInOrder'
  BY <1>1, <1>2, OrderStays
<1>. QED
  BY <1>4, <1>5, <1>6, <1>7 DEF StepsInv, Inv

\* FinishChan is closed.
LEMMA FinishInv == ASSUME StepsInv, Finish PROVE StepsInv'
<1>1. /\ main = "select" /\ step \in Step /\ Inv /\ StepEnds /\ StepsInOrder /\ FailureKeepsError
      /\ cmd \in {"none", "done"} /\ \A k \in Wait : wait[k] \in {"none", "done"}
  BY Begun DEF Finish, WaitGroupZero
<1>2. /\ UNCHANGED <<steps, cluster, main, step, budget, left, timer, spawned, wait, cmd,
                     errChan, file, doc, met, failed>>
      /\ finished' = TRUE
  BY DEF Finish, given, clocks, manifest
<1>3. TypeOK' /\ step' \in Step
  BY <1>1, <1>2 DEF Inv, TypeOK
<1>4. Fresh' /\ FinishedIsQuiet' /\ StepEnds' /\ FailureKeepsError'
  BY <1>1, <1>2 DEF Fresh, FinishedIsQuiet, StepEnds, FailureKeepsError
<1>5. ManifestUnderWay' /\ CommandUnderWay'
  BY <1>1, <1>2 DEF Inv, ManifestUnderWay, CommandUnderWay, Kind, Waits, Result
<1>6. StepsInOrder'
  BY <1>1, <1>2, OrderStays
<1>. QED
  BY <1>3, <1>4, <1>5, <1>6 DEF StepsInv, Inv

\* What a step of the command's goroutine has to keep, for the rest to hold.
LEMMA CommandStep ==
  ASSUME StepsInv, ~Over, cmd \notin {"none", "done"},
         UNCHANGED <<steps, cluster, main, step, budget, left, timer, wait, finished, file, doc>>,
         met \subseteq met', failed \subseteq failed',
         failed' \subseteq failed \cup {<<step, spawned'>>},
         spawned' \in 0..Waits, errChan' \in BOOLEAN,
         cmd' \in {"waits", "sendFailure", "sendOptions", "sendWait", "nilOptions", "done"},
         \A k \in 0..spawned' : Result(k)',
         cmd' = "sendWait" => spawned' > 0 /\ <<step, spawned'>> \in failed',
         cmd' = "done" => spawned' = Waits \/ \E j \in 1..spawned' : <<step, j>> \in failed',
         FailureKeepsError'
  PROVE  StepsInv'
<1>1. /\ main = "select" /\ Kind = "command" /\ ~finished /\ step \in Step
      /\ Waits \in 0..MaxWaits /\ MaxWaits \in Nat
      /\ Inv /\ StepEnds /\ StepsInOrder
  BY CommandRuns, Begun
<1>2. TypeOK' /\ step' \in Step
  BY <1>1 DEF Inv, TypeOK
<1>3. Fresh' /\ FinishedIsQuiet'
  BY <1>1 DEF Fresh, FinishedIsQuiet
<1>4. ManifestUnderWay'
  <2>1. \A j : Result(j) => Result(j)'
    BY DEF Result
  <2>. QED
    BY <1>1, <2>1 DEF Inv, ManifestUnderWay, Kind, Waits
<1>5. CommandUnderWay'
  BY <1>1 DEF CommandUnderWay, Kind, Waits
<1>6. StepEnds'
  BY <1>1, StepFacts DEF Inv, StepEnds, Step
<1>7. StepsInOrder'
  BY <1>1, OrderStays
<1>. QED
  BY <1>2, <1>3, <1>4, <1>5, <1>6, <1>7 DEF StepsInv, Inv

\* The command has run.
LEMMA CommandEndsInv == ASSUME StepsInv, ~Over, CommandEnds PROVE StepsInv'
<1>1. /\ UNCHANGED <<steps, cluster, main, step, budget, left, timer, spawned, wait, errChan,
                     finished, file, doc>>
      /\ cmd = "exec"
      /\ \/ cmd' = "waits" /\ met' = met \cup {<<step, 0>>} /\ failed' = failed
         \/ cmd' = "sendFailure" /\ failed' = failed \cup {<<step, 0>>} /\ met' = met
  BY DEF CommandEnds, given, clocks, channels, manifest, Meets, Fails
<1>2. spawned = 0 /\ Waits \in 0..MaxWaits /\ MaxWaits \in Nat /\ TypeOK /\ FailureKeepsError
  BY <1>1, CommandRuns DEF StepsInv, Inv
<1>3. errChan' \in BOOLEAN
  BY <1>1, <1>2 DEF TypeOK
<1>4. FailureKeepsError'
  BY <1>1, <1>2 DEF FailureKeepsError
<1>5. \A k \in 0..spawned' : Result(k)'
  BY <1>1, <1>2 DEF Result
<1>. QED
  BY <1>1, <1>2, <1>3, <1>4, <1>5, CommandStep

\* An error of the command, or of one of its waits, enters the channel.
LEMMA CommandSendsInv == ASSUME StepsInv, ~Over, CommandSendsError PROVE StepsInv'
<1>1. /\ UNCHANGED <<steps, cluster, main, step, budget, left, timer, spawned, wait,
                     finished, file, doc, met, failed>>
      /\ errChan' = TRUE
      /\ \/ cmd = "sendFailure" /\ cmd' = "waits"
         \/ cmd = "sendOptions" /\ cmd' = "nilOptions"
         \/ cmd = "sendWait" /\ cmd' = "done"
  BY DEF CommandSendsError, CommandSends, given, clocks, manifest
<1>2. /\ spawned \in Nat /\ Waits \in 0..MaxWaits /\ MaxWaits \in Nat /\ spawned <= Waits
      /\ main = "select" /\ Kind = "command" /\ \A k \in 0..spawned : Result(k)
  BY <1>1, CommandRuns
<1>3. cmd = "sendWait" => spawned > 0 /\ <<step, spawned>> \in failed
  BY <1>2 DEF StepsInv, Inv, CommandUnderWay
<1>4. FailureKeepsError'
  BY <1>1 DEF FailureKeepsError
<1>5. \A k \in 0..spawned' : Result(k)'
  BY <1>1, <1>2 DEF Result
<1>6. spawned' \in 0..Waits
      /\ (cmd' = "done" => \E j \in 1..spawned' : <<step, j>> \in failed')
  BY <1>1, <1>2, <1>3
<1>. QED
  BY <1>1, <1>4, <1>5, <1>6, CommandStep

\* The next wait of the command has its result, or there is none left.
LEMMA CommandWaitsInv == ASSUME StepsInv, ~Over, CommandWaits PROVE StepsInv'
<1>1. /\ UNCHANGED <<steps, cluster, main, step, budget, left, timer, wait, errChan,
                     finished, file, doc>>
      /\ cmd = "waits"
  BY DEF CommandWaits, given, clocks, channels, manifest
<1>2. /\ spawned \in Nat /\ Waits \in 0..MaxWaits /\ MaxWaits \in Nat /\ spawned <= Waits
      /\ main = "select" /\ Kind = "command" /\ TypeOK /\ FailureKeepsError
      /\ \A k \in 0..spawned : Result(k)
  BY <1>1, CommandRuns DEF StepsInv, Inv
<1>3. errChan' \in BOOLEAN
  BY <1>1, <1>2 DEF TypeOK
<1>4. CASE spawned = Waits
  <2>1. cmd' = "done" /\ UNCHANGED <<spawned, failed, met>>
    BY <1>4 DEF CommandWaits, Neither
  <2>2. FailureKeepsError'
    BY <1>1, <1>2, <2>1 DEF FailureKeepsError
  <2>3. \A k \in 0..spawned' : Result(k)'
    BY <1>1, <1>2, <2>1 DEF Result
  <2>. QED
    BY <1>1, <1>2, <1>3, <1>4, <2>1, <2>2, <2>3, CommandStep
<1>5. CASE spawned # Waits
  <2>1. /\ spawned' = spawned + 1
        /\ \/ cmd' = "waits" /\ met' = met \cup {<<step, spawned + 1>>} /\ failed' = failed
           \/ /\ cmd' \in {"sendWait", "nilOptions", "sendOptions"} /\ met' = met
              /\ failed' = failed \cup {<<step, spawned + 1>>}
    BY <1>5 DEF CommandWaits, Meets, Fails
  <2>2. FailureKeepsError'
    BY <1>1, <1>2, <2>1 DEF FailureKeepsError
  <2>3. \A k \in 0..spawned' : Result(k)'
    BY <1>1, <1>2, <2>1 DEF Result
  <2>. QED
    BY <1>1, <1>2, <1>3, <1>5, <2>1, <2>2, <2>3, CommandStep
<1>. QED
  BY <1>4, <1>5

\* Time passes, or the process dies of options that are nil.
LEMMA RestInv == ASSUME StepsInv, ~Over, Tick \/ NilOptions PROVE StepsInv'
<1>1. /\ UNCHANGED <<steps, cluster, step, budget, spawned, wait, cmd, errChan,
                     finished, file, doc, met, failed>>
      /\ main' = "crashed" \/ main' = main
      /\ left' = left \/ left' = (IF left = 0 THEN 0 ELSE left - 1)
      /\ timer' = timer \/ timer' = (IF timer = 0 THEN 0 ELSE timer - 1)
  BY DEF Tick, NilOptions, given, clocks, channels, manifest
<1>2. Inv /\ StepEnds /\ StepsInOrder /\ FailureKeepsError
  BY DEF StepsInv
<1>3. TypeOK'
  BY <1>1, <1>2, StepFacts DEF Inv, TypeOK
<1>4. Fresh' /\ FinishedIsQuiet' /\ ManifestUnderWay' /\ CommandUnderWay'
  BY <1>1, <1>2 DEF Inv, Fresh, FinishedIsQuiet, ManifestUnderWay, CommandUnderWay, Kind, Waits,
                    Result
<1>5. StepEnds' /\ FailureKeepsError'
  BY <1>1, <1>2 DEF StepEnds, FailureKeepsError, Ended
<1>6. StepsInOrder'
  BY <1>1, <1>2, OrderStays
<1>. QED
  BY <1>1, <1>2, <1>3, <1>4, <1>5, <1>6 DEF StepsInv, Inv

\* The invariant holds in every reachable state.
LEMMA StepsInvHolds == Spec => []StepsInv
<1>1. StepsInv /\ [Next]_vars => StepsInv'
  <2>. SUFFICES ASSUME StepsInv, [Next]_vars PROVE StepsInv'
    OBVIOUS
  <2>1. CASE UNCHANGED vars
    BY <2>1 DEF vars, given, manifest, StepsInv, Inv, TypeOK, Fresh, ManifestUnderWay,
                CommandUnderWay, FinishedIsQuiet, StepEnds, StepsInOrder, FailureKeepsError,
                Ended, Result, Kind, Waits
  <2>2. CASE ~Over /\ Caller
    BY <2>2, NextStepInv, CreateInv, ApplyInv, SpawnInv, SelectInv, AfterInv DEF Caller
  <2>3. CASE ~Over /\ Goroutines
    BY <2>3, FinishInv, CommandEndsInv, CommandSendsInv, CommandWaitsInv, RestInv,
       WaitEndsInv, WaitSendsInv DEF Goroutines
  <2>4. CASE ~Over /\ Tick
    BY <2>4, RestInv
  <2>. QED
    BY <2>1, <2>2, <2>3, <2>4 DEF Next
<1>. QED
  BY <1>1, StepsInit, PTL DEF Spec

\* The bookkeeping of the setup: no index leaves its range, the timeout only
\* shrinks, and every goroutine that has ended has left its result.
THEOREM SetupInvHolds == Spec => []Inv
<1>1. StepsInv => Inv
  BY DEF StepsInv
<1>. QED
  BY <1>1, StepsInvHolds, PTL

\* RunStepsAndWait leaves a step only when it has ended, whichever channel of
\* the select was ready: the steps do not overlap.
THEOREM StepsDoNotOverlap == Spec => []StepsInOrder
<1>1. StepsInv => StepsInOrder
  BY DEF StepsInv
<1>. QED
  BY <1>1, StepsInvHolds, PTL

\* A failure of a step that is still waited for is in the error channel, or on
\* its way to it.
THEOREM FailureIsKept == Spec => []FailureKeepsError
<1>1. StepsInv => FailureKeepsError
  BY DEF StepsInv
<1>. QED
  BY <1>1, StepsInvHolds, PTL

-----------------------------------------------------------------------------
(* The documents.                                                          *)

\* The files of a step are sequences of documents.
LEMMA FilesFacts ==
  ASSUME TypeOK, NEW s \in Step
  PROVE  steps[s].files \in Seq(Seq({"document", "malformed"}))
<1>1. steps[s].files \in Manifests \cup {<<>>}
  BY DEF TypeOK, StepConfig
<1>2. <<>> \in Seq(Seq({"document", "malformed"}))
  OBVIOUS
<1>. QED
  BY <1>1, <1>2, SetupAssumption, Zenon DEF SetupAssumption

\* What can be read of a step, by place.
LEMMA ReadableFacts ==
  ASSUME TypeOK, NEW s \in Step, NEW p
  PROVE  p \in Readable(s) <=>
           \E f \in 1..Len(steps[s].files) : \E d \in 1..Len(steps[s].files[f]) :
             p = <<s, f, d>> /\ \A e \in 1..d : steps[s].files[f][e] = "document"
<1>. DEFINE files == steps[s].files
<1>1. files \in Seq(Seq({"document", "malformed"}))
  BY FilesFacts
<1>2. DOMAIN files = 1..Len(files) /\ \A f \in 1..Len(files) : DOMAIN files[f] = 1..Len(files[f])
  BY <1>1
<1>. HIDE DEF files
<1>. DEFINE documents == UNION {{<<s, f, d>> : d \in DOMAIN files[f]} : f \in DOMAIN files}
<1>3. p \in documents <=>
        \E f \in 1..Len(files) : \E d \in 1..Len(files[f]) : p = <<s, f, d>>
  BY <1>2
<1>4. p \in Readable(s) <=>
        p \in documents /\ \A e \in 1..p[3] : files[p[2]][e] = "document"
  BY DEF Readable, files
<1>. HIDE DEF documents
<1>5. \A f, d : p = <<s, f, d>> => p[2] = f /\ p[3] = d
  OBVIOUS
<1>. QED
  BY <1>3, <1>4, <1>5 DEF files

\* The readable documents that are applied are those before a place.
AppliedBefore(c) ==
  /\ \A q \in applied : q[1] \in Step /\ q \in Readable(q[1])
  /\ \A s \in Step : \A p \in Readable(s) : p \in applied <=> Before(p, c)

\* The place the caller has come to: before or after the documents of a step.
Here == <<step, file, doc>>
Past == <<step + 1, 1, 1>>

\* Where the caller is in a manifest, and what it has applied so far.
Reading ==
  /\ main # "apply" /\ ~Over => file = 1 /\ doc = 1
  /\ main = "apply" =>
       /\ file <= Len(Files) => \A e \in 1..(doc - 1) : Files[file][e] = "document"
       /\ file > Len(Files) => doc = 1
  /\ main \in {"next", "create", "apply"} => AppliedBefore(Here)
  /\ main \in {"spawn", "select", "after"} => AppliedBefore(Past)
  /\ AppliedBefore(Here) \/ AppliedBefore(Past)

\* Where nothing changes that it depends on, what is before a place stays.
LEMMA BeforeStays ==
  ASSUME UNCHANGED <<steps, applied>>, NEW c PROVE AppliedBefore(c)' <=> AppliedBefore(c')
BY DEF AppliedBefore, Readable, Before, Step

\* The place of a document that can be read.
LEMMA PlaceFacts ==
  ASSUME TypeOK, NEW s \in Step, NEW p \in Readable(s)
  PROVE  /\ p = <<s, p[2], p[3]>> /\ p[1] = s /\ p[2] \in Nat \ {0} /\ p[3] \in Nat \ {0}
         /\ p[2] \in 1..Len(steps[s].files) /\ p[3] \in 1..Len(steps[s].files[p[2]])
         /\ \A e \in 1..p[3] : steps[s].files[p[2]][e] = "document"
<1>1. PICK f \in 1..Len(steps[s].files) : \E d \in 1..Len(steps[s].files[f]) :
             p = <<s, f, d>> /\ \A e \in 1..d : steps[s].files[f][e] = "document"
  BY ReadableFacts
<1>2. PICK d \in 1..Len(steps[s].files[f]) :
             p = <<s, f, d>> /\ \A e \in 1..d : steps[s].files[f][e] = "document"
  BY <1>1
<1>3. p[1] = s /\ p[2] = f /\ p[3] = d
  BY <1>2
<1>. QED
  BY <1>2, <1>3

\* What is applied before a place is in order, and complete for every step
\* before it.
LEMMA BeforeIsInOrder ==
  ASSUME StepsInv, Reading PROVE AppliedInOrder
<1>1. TypeOK /\ NumSteps \in Nat /\ step \in 1..(NumSteps + 1) /\ file \in Nat /\ doc \in Nat
  BY StepFacts DEF StepsInv, Inv, TypeOK
<1>2. PICK c : /\ AppliedBefore(c) /\ c[1] \in Nat /\ c[2] \in Nat /\ c[3] \in Nat
               /\ c[1] >= step
  <2>1. CASE AppliedBefore(Here)
    BY <1>1, <2>1 DEF Here
  <2>2. CASE AppliedBefore(Past)
    BY <1>1, <2>2 DEF Past
  <2>. QED
    BY <2>1, <2>2 DEF Reading
<1>3. ASSUME NEW q \in applied, NEW s \in 1..q[1], NEW p \in Readable(s), Before(p, q)
      PROVE  p \in applied
  <2>1. q[1] \in Step /\ q \in Readable(q[1]) /\ s \in Step
    BY <1>1, <1>2 DEF AppliedBefore, Step
  <2>2. Before(q, c)
    BY <1>2, <2>1 DEF AppliedBefore
  <2>3. /\ q[1] \in Nat /\ q[2] \in Nat /\ q[3] \in Nat
        /\ p[1] \in Nat /\ p[2] \in Nat /\ p[3] \in Nat
    BY <1>1, <2>1, PlaceFacts DEF Step
  <2>4. Before(p, c)
    BY <1>2, <1>3, <2>2, <2>3 DEF Before
  <2>. QED
    BY <1>2, <2>1, <2>4 DEF AppliedBefore
<1>4. ASSUME NEW s \in 1..(step - 1), NEW p \in Readable(s) PROVE p \in applied
  <2>1. s \in Step /\ s < c[1]
    BY <1>1, <1>2 DEF Step
  <2>2. p[1] = s
    BY <1>1, <2>1, PlaceFacts
  <2>3. Before(p, c)
    BY <2>1, <2>2 DEF Before
  <2>. QED
    BY <1>2, <2>1, <2>3 DEF AppliedBefore
<1>. QED
  BY <1>2, <1>3, <1>4 DEF AppliedInOrder, AppliedBefore

\* At the start there is nothing before the first document.
LEMMA ReadingInit == Init => Reading
<1>. SUFFICES ASSUME Init PROVE Reading
  OBVIOUS
<1>1. StepsInv /\ applied = {} /\ main = "next" /\ file = 1 /\ doc = 1 /\ step = 1
  BY StepsInit DEF Init
<1>2. ASSUME NEW s \in Step, NEW p \in Readable(s) PROVE ~Before(p, Here)
  <2>1. p[1] \in Nat \ {0} /\ p[2] \in Nat \ {0} /\ p[3] \in Nat \ {0}
    BY <1>1, PlaceFacts, StepFacts DEF StepsInv, Inv, Step
  <2>. QED
    BY <1>1, <2>1 DEF Before, Here
<1>3. AppliedBefore(Here)
  BY <1>1, <1>2 DEF AppliedBefore
<1>. QED
  BY <1>1, <1>3 DEF Reading, Over

\* Most steps leave the documents alone, and the caller on its side of them.
LEMMA ReadingStays ==
  ASSUME Reading, ~Over, UNCHANGED <<steps, step, file, doc, applied>>,
         \/ main' \in {main, "ok", "error", "crashed"}
         \/ main \in {"next", "create"} /\ main' \in {"create", "apply"}
         \/ main \in {"spawn", "select", "after"} /\ main' \in {"spawn", "select", "after"}
  PROVE  Reading'
<1>1. Here' = Here /\ Past' = Past /\ Files' = Files
  BY DEF Here, Past, Files
<1>2. /\ AppliedBefore(Here)' <=> AppliedBefore(Here)
      /\ AppliedBefore(Past)' <=> AppliedBefore(Past)
  BY <1>1, BeforeStays
<1>. HIDE DEF Here, Past
<1>3. main \in {"next", "create"} => file = 1 /\ doc = 1
  BY DEF Reading, Over
<1>. QED
  BY <1>1, <1>2, <1>3 DEF Reading, Over

\* A command has no documents: it starts behind them.
LEMMA ReadingNextStep == ASSUME StepsInv, Reading, ~Over, NextStep PROVE Reading'
<1>1. /\ UNCHANGED <<steps, step, file, doc, applied>> /\ main = "next"
      /\ \/ main' \in {"ok", "error", "create"}
         \/ main' = "select" /\ step \in Step /\ Kind = "command"
  <2>1. step \in 1..(NumSteps + 1) /\ NumSteps \in Nat
    BY StepFacts DEF StepsInv, Inv, TypeOK
  <2>. QED
    BY <2>1 DEF NextStep, given, manifest, Step
<1>2. CASE main' # "select"
  BY <1>1, <1>2, ReadingStays
<1>3. CASE main' = "select"
  <2>1. TypeOK /\ step \in Step /\ NumSteps \in Nat /\ file = 1 /\ doc = 1 /\ AppliedBefore(Here)
    BY <1>1, <1>3, StepFacts DEF StepsInv, Inv, Reading, Over
  <2>2. steps[step].files = <<>>
    BY <1>1, <1>3, <2>1 DEF TypeOK, StepConfig, Kind
  <2>3. Readable(step) = {}
    BY <2>1, <2>2, ReadableFacts
  <2>4. ASSUME NEW s \in Step, NEW p \in Readable(s) PROVE Before(p, Here) <=> Before(p, Past)
    <3>1. s # step /\ p[1] = s /\ p[2] \in Nat \ {0} /\ p[3] \in Nat \ {0}
      BY <2>1, <2>3, PlaceFacts
    <3>. QED
      BY <2>1, <3>1 DEF Before, Here, Past, Step
  <2>5. AppliedBefore(Past)
    BY <2>1, <2>4 DEF AppliedBefore
  <2>6. AppliedBefore(Past)'
    BY <1>1, <2>5, BeforeStays DEF Past
  <2>. QED
    BY <1>1, <1>3, <2>1, <2>6 DEF Reading
<1>. QED
  BY <1>2, <1>3

\* The place moves over what a file has left, none of which can be read.
LEMMA ReadingFileEnds ==
  ASSUME StepsInv, Reading, ~Over, FileEnds, UNCHANGED <<steps, step>> PROVE Reading'
<1>1. /\ main = "apply" /\ file <= Len(Files) /\ UNCHANGED <<main, applied>>
      /\ doc <= Len(Files[file]) => Files[file][doc] = "malformed"
      /\ file' = file + 1 /\ doc' = 1
  BY DEF FileEnds
<1>2. /\ TypeOK /\ step \in Step /\ NumSteps \in Nat /\ AppliedBefore(Here)
      /\ file \in Nat \ {0} /\ doc \in Nat \ {0}
  BY <1>1, StepFacts DEF StepsInv, Inv, TypeOK, Reading
<1>. DEFINE there == <<step, file + 1, 1>>
<1>3. ASSUME NEW s \in Step, NEW p \in Readable(s) PROVE Before(p, Here) <=> Before(p, there)
  <2>1. /\ p[1] = s /\ p[2] \in Nat \ {0} /\ p[3] \in Nat \ {0} /\ s \in Nat /\ step \in Nat
        /\ p[3] \in 1..Len(steps[s].files[p[2]])
        /\ \A e \in 1..p[3] : steps[s].files[p[2]][e] = "document"
    BY <1>2, PlaceFacts DEF Step
  <2>2. Len(Files[file]) \in Nat
    BY <1>1, <1>2, FilesFacts DEF Files
  <2>3. s = step /\ p[2] = file => p[3] < doc
    BY <1>1, <1>2, <2>1, <2>2 DEF Files
  <2>. QED
    BY <1>2, <2>1, <2>3 DEF Before, Here
<1>4. AppliedBefore(there)
  BY <1>2, <1>3 DEF AppliedBefore
<1>5. AppliedBefore(Here)'
  BY <1>1, <1>4, BeforeStays DEF Here
<1>. QED
  BY <1>1, <1>2, <1>5 DEF Reading, Over

\* The place moves over a document that is applied.
LEMMA ReadingApply ==
  ASSUME StepsInv, Reading, ~Over, ApplyDocument, UNCHANGED <<steps, step>> PROVE Reading'
<1>1. /\ main = "apply" /\ file <= Len(Files) /\ doc <= Len(Files[file])
      /\ Files[file][doc] = "document" /\ doc' = doc + 1 /\ applied' = applied \cup {Here}
      /\ UNCHANGED <<main, file>>
  BY DEF ApplyDocument, Here
<1>2. /\ TypeOK /\ step \in Step /\ NumSteps \in Nat /\ AppliedBefore(Here)
      /\ file \in Nat \ {0} /\ doc \in Nat \ {0} /\ step \in Nat
      /\ \A e \in 1..(doc - 1) : Files[file][e] = "document"
  BY <1>1, StepFacts DEF StepsInv, Inv, TypeOK, Reading, Step
<1>. DEFINE there == <<step, file, doc + 1>>
<1>3. \A e \in 1..doc : Files[file][e] = "document"
  BY <1>1, <1>2
<1>4. file \in 1..Len(Files) /\ doc \in 1..Len(Files[file])
  <2>1. Files \in Seq(Seq({"document", "malformed"}))
    BY <1>2, FilesFacts DEF Files
  <2>2. file \in 1..Len(Files)
    BY <1>1, <1>2, <2>1
  <2>3. Files[file] \in Seq({"document", "malformed"})
    BY <2>1, <2>2
  <2>. QED
    BY <1>1, <1>2, <2>2, <2>3
<1>5. Here \in Readable(step)
  <2>1. \E f \in 1..Len(Files) : \E d \in 1..Len(Files[f]) :
          Here = <<step, f, d>> /\ \A e \in 1..d : Files[f][e] = "document"
    BY <1>3, <1>4 DEF Here
  <2>. QED
    BY <1>2, <2>1, ReadableFacts DEF Files
<1>6. ASSUME NEW s \in Step, NEW p \in Readable(s)
      PROVE  Before(p, there) <=> Before(p, Here) \/ p = Here
  <2>1. p = <<s, p[2], p[3]>> /\ p[1] = s /\ p[2] \in Nat /\ p[3] \in Nat /\ s \in Nat
    BY <1>2, PlaceFacts DEF Step
  <2>. QED
    BY <1>2, <2>1 DEF Before, Here
<1>7. \A s : Readable(s)' = Readable(s)
  BY DEF Readable
<1>8. \A p, c : Before(p, c)' <=> Before(p, c)
  BY DEF Before
<1>9. AppliedBefore(Here)'
  <2>1. Here' = there /\ Here[1] = step
    BY <1>1 DEF Here
  <2>. HIDE DEF there
  <2>2. \A q \in applied' : q[1] \in Step /\ q \in Readable(q[1])
    BY <1>1, <1>2, <1>5, <2>1 DEF AppliedBefore
  <2>3. \A s \in Step : \A p \in Readable(s) : p \in applied' <=> Before(p, there)
    BY <1>1, <1>2, <1>6 DEF AppliedBefore
  <2>. QED
    BY <1>7, <2>1, <2>2, <2>3 DEF AppliedBefore
<1>. QED
  BY <1>1, <1>2, <1>3, <1>9 DEF Reading, Over, Files

\* The place moves behind the last file: a step is read to its end.
LEMMA ReadingCreated ==
  ASSUME StepsInv, Reading, ~Over, Created, UNCHANGED <<steps, step>> PROVE Reading'
<1>1. /\ main = "apply" /\ file > Len(Files) /\ main' \in {"spawn", "after"}
      /\ file' = 1 /\ doc' = doc /\ applied' = applied
  BY DEF Created
<1>2. /\ TypeOK /\ step \in Step /\ NumSteps \in Nat /\ step \in Nat /\ AppliedBefore(Here)
      /\ file \in Nat /\ doc = 1
  BY <1>1, StepFacts DEF StepsInv, Inv, TypeOK, Reading, Step
<1>3. Len(Files) \in Nat
  BY <1>2, FilesFacts DEF Files
<1>4. ASSUME NEW s \in Step, NEW p \in Readable(s) PROVE Before(p, Here) <=> Before(p, Past)
  <2>1. /\ p[1] = s /\ p[2] \in Nat \ {0} /\ p[3] \in Nat \ {0} /\ s \in Nat
        /\ p[2] \in 1..Len(steps[s].files)
    BY <1>2, PlaceFacts DEF Step
  <2>2. s = step => p[2] < file
    BY <1>1, <1>2, <1>3, <2>1 DEF Files
  <2>. QED
    BY <1>2, <2>1, <2>2 DEF Before, Here, Past
<1>5. AppliedBefore(Past)
  BY <1>2, <1>4 DEF AppliedBefore
<1>6. AppliedBefore(Past)'
  BY <1>1, <1>5, BeforeStays DEF Past
<1>. QED
  BY <1>1, <1>2, <1>6 DEF Reading

\* Behind one step is before the next.
LEMMA ReadingAfter == ASSUME StepsInv, Reading, ~Over, After PROVE Reading'
<1>1. /\ main = "after" /\ UNCHANGED <<steps, file, doc, applied>>
      /\ (main' = "error" /\ step' = step) \/ (main' = "next" /\ step' = step + 1)
  BY DEF After, given, manifest
<1>2. CASE main' = "error"
  BY <1>1, <1>2, ReadingStays
<1>3. CASE main' = "next"
  <2>1. AppliedBefore(Past) /\ file = 1 /\ doc = 1
    BY <1>1 DEF Reading, Over
  <2>2. Here' = Past
    BY <1>1, <1>3, <2>1 DEF Here, Past
  <2>3. AppliedBefore(Here)'
    BY <1>1, <2>1, <2>2, BeforeStays
  <2>. QED
    BY <1>1, <1>3, <2>1, <2>3 DEF Reading
<1>. QED
  BY <1>1, <1>2, <1>3

\* The documents of the manifests are applied in their order, each of a step
\* that is left among them: what createByManifest and OperateManifest do.
THEOREM DocumentsInOrder == Spec => []AppliedInOrder
<1>1. StepsInv /\ Reading /\ [Next]_vars => Reading'
  <2>. SUFFICES ASSUME StepsInv, Reading, [Next]_vars PROVE Reading'
    OBVIOUS
  <2>1. CASE UNCHANGED vars
    <3>1. /\ UNCHANGED <<steps, step, file, doc, applied, main>>
          /\ Here' = Here /\ Past' = Past /\ Files' = Files
      BY <2>1 DEF vars, given, manifest, Here, Past, Files
    <3>. QED
      BY <3>1, BeforeStays DEF Reading, Over
  <2>2. CASE ~Over /\ Caller
    <3>1. CASE Create
      BY <2>2, <3>1, ReadingStays DEF Create, given, manifest
    <3>2. CASE Spawn
      BY <2>2, <3>2, ReadingStays DEF Spawn, given, manifest
    <3>3. CASE Select
      BY <2>2, <3>3, ReadingStays DEF Select, given, manifest
    <3>4. CASE Apply
      <4>1. CASE Refused
        BY <2>2, <3>4, <4>1, ReadingStays DEF Apply, Refused, given, manifest
      <4>. QED
        BY <2>2, <3>4, <4>1, ReadingFileEnds, ReadingApply, ReadingCreated DEF Apply, given
    <3>. QED
      BY <2>2, <3>1, <3>2, <3>3, <3>4, ReadingNextStep, ReadingAfter DEF Caller
  <2>3. CASE ~Over /\ Goroutines
    <3>1. /\ UNCHANGED <<steps, step, file, doc, applied>>
          /\ main' = main \/ main' = "crashed"
      BY <2>3
         DEF Goroutines, Finish, CommandEnds, CommandSendsError, CommandSends, CommandWaits,
             NilOptions, WaitEnds, WaitSends, given, manifest
    <3>. QED
      BY <2>3, <3>1, ReadingStays
  <2>4. CASE ~Over /\ Tick
    BY <2>4, ReadingStays DEF Tick, given, manifest
  <2>. QED
    BY <2>1, <2>2, <2>3, <2>4 DEF Next
<1>. QED
  BY <1>1, ReadingInit, StepsInvHolds, BeforeIsInOrder, PTL DEF Spec
=============================================================================

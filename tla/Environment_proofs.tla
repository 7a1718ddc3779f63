------------------------ MODULE Environment_proofs -------------------------
(***************************************************************************)
(* Proofs about Environment and the two setups it is made of, for any      *)
(* number of services, images, pods and forwarded ports.  For each setup   *)
(* the argument is about its own steps, in KindSetup or ComposeSetup: a    *)
(* step of Environment is one of these, leaves its variables alone, or     *)
(* ends the process, which is as if the setup had not begun.               *)
(***************************************************************************)
EXTENDS Environment, FiniteSetTheorems, TLAPS

-----------------------------------------------------------------------------
(* The shared variable err, whichever setup it belongs to.                 *)

\* The caller has no stage to test, and has not returned.
Early == main \notin {"check", "return", "done", "drain", "ended"}

\* What the caller and its err know of the stages, as long as nobody else
\* has assigned err where it matters.
ErrInv ==
  /\ ErrTypeOK
  /\ returned # "none" <=> main \in {"done", "drain", "ended"}
  /\ ~overwritten =>
       /\ Early => ~failed
       /\ main = "check" => (err = "err" <=> failed)
       /\ main = "return" => err = "err" /\ failed
       /\ returned # "none" => (returned = "err" <=> failed)

\* The caller goes on, without touching err.
Moves ==
  /\ \/ Early /\ Early'
     \/ main \in {"done", "drain"} /\ main' \in {"drain", "ended"}
  /\ UNCHANGED <<err, failed, overwritten, returned>>

\* What a step of either setup does to these variables.
ErrNext ==
  \/ UNCHANGED errVars \/ Moves
  \/ Early /\ \E v \in Errors : ReturnValue(v) \/ AssignErr(stage', v)
  \/ \E next \in {"steps", "list", "forward", "done"} : CheckErr(next)
  \/ ReturnErr \/ \E v \in Errors : OverwriteErr(v)

\* The step leaves what is known of err true, whoever takes it.
LEMMA ErrInvStep == ErrInv /\ ErrNext => ErrInv'
<1>. SUFFICES ASSUME ErrInv, ErrNext PROVE ErrInv'
  OBVIOUS
<1>. USE DEF ErrInv, Early, ErrTypeOK, Errors
<1>1. CASE UNCHANGED errVars \/ Moves
  BY <1>1 DEF errVars, Moves
<1>2. ASSUME Early, NEW v \in Errors, ReturnValue(v) PROVE ErrInv'
  BY <1>2 DEF ReturnValue
<1>3. ASSUME Early, NEW v \in Errors, AssignErr(stage', v) PROVE ErrInv'
  BY <1>3 DEF AssignErr
<1>4. ASSUME NEW next \in {"steps", "list", "forward", "done"}, CheckErr(next)
      PROVE  ErrInv'
  BY <1>4 DEF CheckErr
<1>5. CASE ReturnErr
  BY <1>5 DEF ReturnErr
<1>6. ASSUME NEW v \in Errors, OverwriteErr(v) PROVE ErrInv'
  BY <1>6 DEF OverwriteErr
<1>. QED
  BY <1>1, <1>2, <1>3, <1>4, <1>5, <1>6 DEF ErrNext

-----------------------------------------------------------------------------
(* The invariant of KindSetup.                                             *)

KindNext == Kind!Caller \/ Kind!Beside

\* The images are pulled in one stage, and are all there in the next.
PullInv ==
  /\ main = "prepare" => \A i \in Image : pull[i] = "none"
  /\ main = "steps" => \A i \in Image : pull[i] = "ok"

\* The caller has not come to the forwards, or is at one that it has not started.
BeforeNextForward ==
  main \notin {"ready", "return", "done", "drain", "ended"} /\
    (main = "check" => stage # "forward")

\* The forwards are started in order, each when those before it were ready.
ForwardInv ==
  /\ main = "check" => stage \in {"steps", "logs", "forward"}
  /\ \A e \in Kind!Export :
       /\ e < export => forward[e] \in {"ready", "ended"}
       /\ e >= export /\ BeforeNextForward => forward[e] = "none"
       /\ e > export /\ main = "ready" => forward[e] = "none"
  /\ main = "ready" => export \in Kind!Export
  /\ bound => export = NumExports + 1
  /\ main = "check" /\ stage = "forward" => bound \/ failed

\* The caller may still create the log file of p, as it does once.
MayExposeLog(p) ==
  \/ main \in {"prepare", "pull", "steps", "list"}
  \/ main = "logs" /\ p \in todo
  \/ main = "check" /\ stage = "steps"

LogInv ==
  /\ writers \in [Pod -> Nat] /\ events \in [Pod -> 0..MaxEvents]
  /\ \A p \in Pod :
       writers[p] <= events[p] + 1 /\ (MayExposeLog(p) => writers[p] <= events[p])

\* The inductive invariant of KindSetup.
KindInv ==
  /\ Kind!Inv /\ ErrInv
  /\ PullInv /\ LogInv /\ ForwardInv /\ Kind!OkMeansReady /\ Kind!NoForwardLeft

-----------------------------------------------------------------------------
(* The invariant of ComposeSetup.                                          *)

\* The caller has not left the loop over the services.
InLoop == main \in {"expose", "flag", "follow"}
NotPastLoop == main \in {"prepare", "up"} \/ InLoop

\* Where the caller and the listener are.
PlaceInv ==
  /\ main \in {"prepare", "up", "expose", "flag", "follow", "check", "steps", "return", "done"}
  /\ main = "check" => stage \in {"expose", "steps"}
  /\ main = "prepare" => cListener = "off"
  /\ main \in {"flag", "follow"} => \E s \in cTodo : at = {s}
  /\ cTodo \in SUBSET Service /\ at \in SUBSET Service /\ about \in SUBSET Service
  /\ cListener \in {"off", "select", "test", "stopped"}
  /\ missing \subseteq Service /\ beenFollowLog \in [Service -> BOOLEAN]

\* The caller may still create the std.log of s, as it does once.
MayFollow(s) == main \in {"prepare", "up"} \/ s \in cTodo

FileInv ==
  /\ cWriters \in [Service -> Nat] /\ starts \in [Service -> 0..MaxStarts]
  /\ \A s \in Service :
       /\ cWriters[s] <= starts[s] + 1
       /\ MayFollow(s) => cWriters[s] <= starts[s]

\* Before the end of the loop a log stands behind every flag, and behind one
\* that the listener is about to set.
FlagInv ==
  NotPastLoop =>
    \A s \in Service :
      /\ beenFollowLog[s] => cWriters[s] > 0
      /\ cListener = "test" /\ err = "nil" /\ s \in about => cWriters[s] > 0

IsFollowed(s) == cWriters[s] > 0 \/ s \in missing

AllFollowed == \A s \in Service : IsFollowed(s)

\* What the loop has passed is followed, and past the loop everything is.
PassedInv ==
  /\ InLoop => \A s \in Service \ cTodo : IsFollowed(s)
  /\ main = "check" /\ stage = "expose" /\ ~failed => AllFollowed
  /\ (main = "steps" \/ (main = "check" /\ stage = "steps")) /\ ~overwritten => AllFollowed
  /\ returned = "nil" /\ ~overwritten => AllFollowed

\* The inductive invariant of ComposeSetup.
ComposeInv == ErrInv /\ PlaceInv /\ FileInv /\ FlagInv /\ PassedInv

-----------------------------------------------------------------------------
(* The invariant of Environment.                                           *)

\* Where a process is.
PhaseInv ==
  /\ env \in {"kind", "compose", "other"} /\ existing \in BOOLEAN
  /\ command \in {"either", "setup", "run", "cleanup"}
  /\ phase \in {"setup", "stages", "stop", "cleanup", "remove", "exit"}
  /\ cluster \in {"none", "nodes", "made"} /\ kubeFile \in BOOLEAN
  /\ logs \in {"none", "open", "closed"}
  /\ deletions \in 0..(MaxRetry - 1) /\ result \in {"none", "nil", "err"}
  /\ phase = "setup" /\ logs = "none" => main = "prepare"
  /\ phase = "cleanup" /\ command = "run" =>
       logs = "closed" /\ (env = "kind" => main = "ended")

\* What was made of a kind cluster: nothing where there is one to join; all of
\* it when the setup goes on past its preparation, and as long as its forwards
\* are kept; and nothing when the file is removed.
MadeInv ==
  env = "kind" =>
    /\ existing => cluster = "none"
    /\ main = "prepare" => ~bound
    /\ phase = "setup" /\ ~existing =>
         /\ main \notin {"prepare", "done"} \/ bound => cluster = "made"
         /\ returned = "nil" => cluster # "nodes"
    /\ phase = "remove" => cluster = "none"
    /\ FileOutlivesCluster

\* The inductive invariant of Environment.
EnvInv ==
  /\ PhaseInv /\ ErrInv /\ MadeInv
  /\ env = "kind" => KindInv
  /\ env = "compose" => ComposeInv
-----------------------------------------------------------------------------
(* The steps of KindSetup.                                                 *)

\* Each of its steps treats err as ErrNext says.
LEMMA KindErr == KindNext => ErrNext
<1>. SUFFICES ASSUME KindNext PROVE ErrNext
  OBVIOUS
<1>. USE DEF ErrNext, Early, Moves, errVars, Kind!errVars, Errors, Kind!Errors,
             ReturnValue, Kind!ReturnValue, AssignErr, Kind!AssignErr, Kind!Goto
<1>1. CASE Kind!Prepare
  BY <1>1 DEF Kind!Prepare
<1>2. CASE Kind!Pulled
  BY <1>2 DEF Kind!Pulled
<1>3. CASE Kind!RunSteps
  BY <1>3 DEF Kind!RunSteps
<1>4. CASE Kind!TestErr
  <2>1. Kind!Next_of(stage) \in {"list", "forward", "done"}
    BY DEF Kind!Next_of
  <2>. QED
    BY <1>4, <2>1 DEF Kind!TestErr, Kind!CheckErr, CheckErr, Kind!ReturnErr, ReturnErr
<1>5. CASE Kind!ListPods
  BY <1>5 DEF Kind!ListPods
<1>6. CASE Kind!ExposeLogs
  BY <1>6 DEF Kind!ExposeLogs
<1>7. CASE Kind!StartForward
  BY <1>7 DEF Kind!StartForward
<1>8. CASE Kind!AwaitForward
  BY <1>8 DEF Kind!AwaitForward
<1>9. CASE Kind!Bind
  BY <1>9 DEF Kind!Bind
<1>10. CASE Kind!Notify
  BY <1>10 DEF Kind!Notify
<1>11. CASE Kind!Drain
  BY <1>11 DEF Kind!Drain
<1>12. CASE Kind!StopListener
  BY <1>12 DEF Kind!StopListener
<1>13. ASSUME NEW i \in Image, Kind!Pull(i) PROVE ErrNext
  BY <1>13 DEF Kind!Pull
<1>14. ASSUME NEW p \in Pod, Kind!PodEvent(p) \/ Kind!ReadLine(p) PROVE ErrNext
  BY <1>14 DEF Kind!PodEvent, Kind!ReadLine, Kind!OverwriteErr, OverwriteErr
<1>15. ASSUME NEW e \in Kind!Export, Kind!Forwarding(e) \/ Kind!EndForward(e)
       PROVE  ErrNext
  BY <1>15 DEF Kind!Forwarding, Kind!EndForward
<1>. QED
  BY <1>1, <1>2, <1>3, <1>4, <1>5, <1>6, <1>7, <1>8, <1>9, <1>10, <1>11, <1>12,
     <1>13, <1>14, <1>15
  DEF KindNext, Kind!Caller, Kind!Setup, Kind!Beside
\* The log files: each is created at most once per event and once by the caller.
LEMMA KindLogs == ASSUME Kind!TypeOK, LogInv, KindNext PROVE LogInv'
<1>1. MaxEvents \in Nat
  BY EnvironmentAssumption DEF EnvironmentAssumption
<1>2. ASSUME UNCHANGED <<writers, events>>,
             \A p \in Pod : MayExposeLog(p)' => MayExposeLog(p)
      PROVE  LogInv'
  BY <1>2 DEF LogInv
<1>3. CASE Kind!ExposeLogs
  <2>1. CASE UNCHANGED writers
    <3>1. \A p \in Pod : MayExposeLog(p)' => MayExposeLog(p)
      BY <1>3 DEF Kind!ExposeLogs, MayExposeLog, Kind!AssignErr, Kind!errVars
    <3>. QED
      BY <1>2, <1>3, <2>1, <3>1 DEF Kind!ExposeLogs
  <2>2. ASSUME NEW p \in todo, writers' = [writers EXCEPT ![p] = @ + 1],
               Kind!AssignErr("logs", "err") \/ (todo' = todo \ {p} /\ UNCHANGED main),
               main = "logs", UNCHANGED events
        PROVE  LogInv'
    <3>1. p \in Pod
      BY DEF Kind!TypeOK
    <3>2. writers[p] <= events[p] /\ writers[p] \in Nat /\ events[p] \in Nat
      BY <1>1, <2>2, <3>1 DEF LogInv, MayExposeLog
    <3>3. writers' \in [Pod -> Nat] /\ writers'[p] = writers[p] + 1
          /\ \A q \in Pod : q # p => writers'[q] = writers[q]
      BY <2>2, <3>1, <3>2 DEF LogInv
    <3>4. ~MayExposeLog(p)'
      BY <2>2 DEF MayExposeLog, Kind!AssignErr
    <3>5. \A q \in Pod : MayExposeLog(q)' => MayExposeLog(q)
      BY <2>2 DEF MayExposeLog, Kind!AssignErr
    <3>. QED
      BY <2>2, <3>2, <3>3, <3>4, <3>5 DEF LogInv
  <2>. QED
    BY <1>3, <2>1, <2>2 DEF Kind!ExposeLogs, Kind!ExposeLog, Kind!errVars
<1>4. ASSUME NEW p \in Pod, Kind!PodEvent(p) PROVE LogInv'
  <2>1. /\ events[p] \in 0..MaxEvents /\ events[p] < MaxEvents
        /\ events' = [events EXCEPT ![p] = @ + 1] /\ UNCHANGED <<main, stage, todo>>
        /\ writers' = writers \/ writers' = [writers EXCEPT ![p] = @ + 1]
    BY <1>4 DEF LogInv, Kind!PodEvent, Kind!OverwriteErr, Kind!ExposeLog
  <2>2. /\ events' \in [Pod -> 0..MaxEvents] /\ events'[p] = events[p] + 1
        /\ \A q \in Pod : q # p => events'[q] = events[q]
    BY <1>1, <2>1 DEF LogInv
  <2>3. /\ writers' \in [Pod -> Nat] /\ writers'[p] \in {writers[p], writers[p] + 1}
        /\ \A q \in Pod : q # p => writers'[q] = writers[q]
    BY <2>1 DEF LogInv
  <2>4. \A q \in Pod : MayExposeLog(q)' <=> MayExposeLog(q)
    BY <2>1 DEF MayExposeLog
  <2>5. writers[p] \in Nat /\ events[p] \in Nat
    BY <1>1 DEF LogInv
  <2>. QED
    BY <1>1, <2>1, <2>2, <2>3, <2>4, <2>5 DEF LogInv
<1>5. CASE Kind!Prepare \/ Kind!Pulled \/ Kind!RunSteps \/ Kind!ListPods
  <2>1. \A p \in Pod : MayExposeLog(p)' => MayExposeLog(p)
    BY <1>5 DEF Kind!Prepare, Kind!Pulled, Kind!RunSteps, Kind!ListPods, Kind!Goto,
       Kind!ReturnValue, Kind!AssignErr, MayExposeLog
  <2>. QED
    BY <1>2, <1>5, <2>1
    DEF Kind!Prepare, Kind!Pulled, Kind!RunSteps, Kind!ListPods, Kind!logVars
<1>6. CASE Kind!TestErr
  <2>1. \A p \in Pod : MayExposeLog(p)' => MayExposeLog(p)
    BY <1>6 DEF Kind!TestErr, Kind!CheckErr, Kind!ReturnErr, Kind!Next_of, Kind!logVars,
       MayExposeLog
  <2>. QED
    BY <1>2, <1>6, <2>1 DEF Kind!TestErr, Kind!logVars
<1>7. CASE Kind!StartForward \/ Kind!AwaitForward \/ Kind!Bind \/ Kind!Notify \/ Kind!Drain
  BY <1>2, <1>7 DEF Kind!StartForward, Kind!AwaitForward, Kind!Bind, Kind!Notify,
     Kind!Drain, Kind!Goto, Kind!AssignErr, Kind!logVars, MayExposeLog
<1>8. CASE Kind!StopListener \/ \E i \in Image : Kind!Pull(i)
  BY <1>2, <1>8 DEF Kind!StopListener, Kind!Pull, Kind!logVars, Kind!errVars, MayExposeLog
<1>9. ASSUME NEW p \in Pod, Kind!ReadLine(p) PROVE LogInv'
  BY <1>2, <1>9 DEF Kind!ReadLine, Kind!errVars, MayExposeLog
<1>10. ASSUME NEW e \in Kind!Export, Kind!Forwarding(e) \/ Kind!EndForward(e) PROVE LogInv'
  BY <1>2, <1>10 DEF Kind!Forwarding, Kind!EndForward, Kind!logVars, Kind!errVars,
     MayExposeLog
<1>. QED
  BY <1>3, <1>4, <1>5, <1>6, <1>7, <1>8, <1>9, <1>10
  DEF KindNext, Kind!Caller, Kind!Setup, Kind!Beside
\* The types.
LEMMA KindTypes == ASSUME KindInv, KindNext PROVE Kind!TypeOK'
<1>1. Kind!TypeOK /\ ErrInv' /\ LogInv'
  BY KindErr, ErrInvStep, KindLogs DEF KindInv, Kind!Inv
<1>2. Kind!ErrTypeOK'
  BY <1>1 DEF ErrInv, ErrTypeOK, Kind!ErrTypeOK, Errors, Kind!Errors
<1>3. events' \in [Pod -> 0..MaxEvents] /\ \A p \in Pod : writers'[p] \in 0..(events'[p] + 1)
  <2>. SUFFICES ASSUME NEW p \in Pod PROVE writers'[p] \in 0..(events'[p] + 1)
    BY <1>1 DEF LogInv
  <2>1. writers'[p] \in Nat /\ events'[p] \in Nat /\ writers'[p] <= events'[p] + 1
    BY <1>1, EnvironmentAssumption DEF LogInv, EnvironmentAssumption
  <2>. QED
    BY <2>1
<1>. DEFINE Rest ==
       /\ main \in {"prepare", "pull", "steps", "check", "return", "list", "logs",
                    "forward", "ready", "done", "drain", "ended"}
       /\ pull \in [Image -> {"none", "pulling", "ok", "failed"}]
       /\ listener \in {"off", "select", "stopped"}
       /\ todo \in SUBSET Pod /\ following \in SUBSET Pod
       /\ export \in 1..(NumExports + 1) /\ reported \in SUBSET Kind!Export
       /\ forward \in [Kind!Export -> {"none", "starting", "ready", "refused", "ended"}]
       /\ bound \in BOOLEAN /\ stopped \in BOOLEAN
<1>4. Rest
  BY <1>1 DEF Kind!TypeOK
<1>5. Rest'
  <2>1. CASE Kind!Prepare
    BY <1>4, <2>1 DEF Kind!Prepare, Kind!ReturnValue, Kind!Goto, Kind!logVars, Kind!forwardVars
  <2>2. CASE Kind!Pulled
    BY <1>4, <2>2 DEF Kind!Pulled, Kind!ReturnValue, Kind!Goto, Kind!pullVars, Kind!forwardVars
  <2>3. CASE Kind!RunSteps \/ Kind!ListPods
    BY <1>4, <2>3 DEF Kind!RunSteps, Kind!ListPods, Kind!AssignErr, Kind!Goto, Kind!pullVars,
       Kind!logVars, Kind!forwardVars
  <2>4. CASE Kind!TestErr
    BY <1>4, <2>4 DEF Kind!TestErr, Kind!CheckErr, Kind!ReturnErr, Kind!Next_of,
       Kind!pullVars, Kind!logVars, Kind!forwardVars
  <2>5. CASE Kind!ExposeLogs
    BY <1>4, <2>5 DEF Kind!ExposeLogs, Kind!AssignErr, Kind!errVars, Kind!pullVars,
       Kind!forwardVars
  <2>6. CASE Kind!StartForward
    BY <1>4, <2>6 DEF Kind!StartForward, Kind!AssignErr, Kind!Goto, Kind!pullVars, Kind!logVars
  <2>7. CASE Kind!AwaitForward
    <3>1. main = "ready" => export + 1 \in 1..(NumExports + 1)
      BY EnvironmentAssumption DEF EnvironmentAssumption, KindInv, ForwardInv, Kind!Export
    <3>. QED
      BY <1>4, <2>7, <3>1 DEF Kind!AwaitForward, Kind!AssignErr, Kind!Goto, Kind!pullVars,
         Kind!logVars
  <2>8. CASE Kind!Bind
    BY <1>4, <2>8 DEF Kind!Bind, Kind!AssignErr, Kind!pullVars, Kind!logVars
  <2>9. CASE Kind!Notify \/ Kind!Drain
    BY <1>4, <2>9 DEF Kind!Notify, Kind!Drain, Kind!Goto, Kind!pullVars, Kind!logVars,
       Kind!forwardVars
  <2>10. CASE Kind!StopListener
    BY <1>4, <2>10 DEF Kind!StopListener, Kind!errVars, Kind!pullVars, Kind!forwardVars
  <2>11. ASSUME NEW i \in Image, Kind!Pull(i) PROVE Rest'
    BY <1>4, <2>11 DEF Kind!Pull, Kind!errVars, Kind!logVars, Kind!forwardVars
  <2>12. ASSUME NEW p \in Pod, Kind!PodEvent(p) \/ Kind!ReadLine(p) PROVE Rest'
    BY <1>4, <2>12 DEF Kind!PodEvent, Kind!ReadLine, Kind!OverwriteErr, Kind!errVars,
       Kind!pullVars, Kind!forwardVars
  <2>13. ASSUME NEW e \in Kind!Export, Kind!Forwarding(e) \/ Kind!EndForward(e) PROVE Rest'
    BY <1>4, <2>13 DEF Kind!Forwarding, Kind!EndForward, Kind!errVars, Kind!pullVars,
       Kind!logVars
  <2>. QED
    BY <2>1, <2>2, <2>3, <2>4, <2>5, <2>6, <2>7, <2>8, <2>9, <2>10, <2>11, <2>12, <2>13
    DEF KindNext, Kind!Caller, Kind!Setup, Kind!Beside
<1>. QED
  BY <1>2, <1>3, <1>5 DEF Kind!TypeOK
\* KindSetup counts with the Cardinality of its own instance of FiniteSets.
LEMMA SameCardinality == ASSUME NEW S PROVE Kind!Cardinality(S) = Cardinality(S)
  BY Zenon DEF Kind!Cardinality, Cardinality

\* The images that are there, and the forwards that are over.
OkImages == {i \in Image : pull[i] = "ok"}
Over == {e \in Kind!Export : forward[e] \in {"refused", "ended"}}

\* The counts, and what is finite.
LEMMA CountsOf ==
  /\ Kind!CountsAreTrue <=> count = Cardinality(OkImages) /\ finished = Cardinality(Over)
  /\ Kind!CountsAreTrue' <=> count' = Cardinality(OkImages') /\ finished' = Cardinality(Over')
  /\ IsFiniteSet(OkImages) /\ IsFiniteSet(Over)
<1>1. OkImages \in SUBSET Image /\ Over \in SUBSET Kind!Export
  BY DEF OkImages, Over
<1>2. IsFiniteSet(Image) /\ IsFiniteSet(Kind!Export)
  BY EnvironmentAssumption, FS_Interval DEF EnvironmentAssumption, Kind!Export
<1>3. IsFiniteSet(OkImages) /\ IsFiniteSet(Over)
  BY <1>1, <1>2, FS_Subset, Zenon
<1>4. Kind!CountsAreTrue <=> count = Cardinality(OkImages) /\ finished = Cardinality(Over)
  BY SameCardinality, Zenon DEF Kind!CountsAreTrue, OkImages, Over
<1>5. Kind!CountsAreTrue' <=> count' = Cardinality(OkImages') /\ finished' = Cardinality(Over')
  BY SameCardinality, Zenon DEF Kind!CountsAreTrue, OkImages, Over
<1>. QED
  BY <1>3, <1>4, <1>5

\* What other goroutines wait for is counted once for each image and forward.
LEMMA KindCounts == ASSUME KindInv, KindNext PROVE Kind!CountsAreTrue'
<1>1. Kind!TypeOK /\ PullInv /\ ForwardInv
  BY DEF KindInv, Kind!Inv
<1>2. count = Cardinality(OkImages) /\ finished = Cardinality(Over)
  BY CountsOf DEF KindInv, Kind!Inv
<1>3. ASSUME count' = count, finished' = finished, OkImages' = OkImages, Over' = Over
      PROVE  Kind!CountsAreTrue'
  BY <1>2, <1>3, CountsOf
<1>4. CASE Kind!Prepare
  <2>1. OkImages' = OkImages
    <3>1. CASE pull' = pull
      BY <3>1 DEF OkImages
    <3>2. CASE pull' = [i \in Image |-> "pulling"]
      BY <1>1, <1>4, <3>2 DEF PullInv, OkImages, Kind!Prepare
    <3>. QED
      BY <1>4, <3>1, <3>2 DEF Kind!Prepare
  <2>. QED
    BY <1>3, <1>4, <2>1 DEF Kind!Prepare, Kind!forwardVars, Over
<1>5. ASSUME NEW i \in Image, Kind!Pull(i) PROVE Kind!CountsAreTrue'
  <2>1. finished' = finished /\ Over' = Over
    BY <1>5 DEF Kind!Pull, Kind!forwardVars, Over
  <2>2. CASE pull' = [pull EXCEPT ![i] = "ok"] /\ count' = count + 1
    <3>1. OkImages' = OkImages \cup {i} /\ i \notin OkImages
      BY <1>1, <1>5, <2>2 DEF OkImages, Kind!Pull, Kind!TypeOK
    <3>2. Cardinality(OkImages') = Cardinality(OkImages) + 1
      BY <3>1, CountsOf, FS_AddElement, Zenon
    <3>. QED
      BY <1>2, <2>1, <2>2, <3>2, CountsOf
  <2>3. CASE pull' = [pull EXCEPT ![i] = "failed"] /\ count' = count
    <3>1. OkImages' = OkImages
      BY <1>1, <1>5, <2>3 DEF OkImages, Kind!Pull, Kind!TypeOK
    <3>. QED
      BY <1>3, <2>1, <2>3, <3>1
  <2>. QED
    BY <1>5, <2>2, <2>3 DEF Kind!Pull
<1>6. CASE Kind!StartForward
  <2>1. Over' = Over
    <3>1. CASE forward' = forward
      BY <3>1 DEF Over
    <3>2. CASE forward' = [forward EXCEPT ![export] = "starting"]
      <4>1. export \in Kind!Export /\ forward[export] = "none"
        BY <1>1, <1>6, EnvironmentAssumption
        DEF EnvironmentAssumption, ForwardInv, BeforeNextForward, Kind!StartForward,
            Kind!TypeOK, Kind!Export
      <4>. QED
        BY <1>1, <3>2, <4>1 DEF Over, Kind!TypeOK
    <3>. QED
      BY <1>6, <3>1, <3>2 DEF Kind!StartForward
  <2>. QED
    BY <1>3, <1>6, <2>1 DEF Kind!StartForward, Kind!pullVars, OkImages
<1>7. ASSUME NEW e \in Kind!Export, Kind!Forwarding(e) PROVE Kind!CountsAreTrue'
  <2>1. Over' = Over
    BY <1>1, <1>7 DEF Over, Kind!Forwarding, Kind!TypeOK
  <2>. QED
    BY <1>3, <1>7, <2>1 DEF Kind!Forwarding, Kind!pullVars, OkImages
<1>8. ASSUME NEW e \in Kind!Export, Kind!EndForward(e) PROVE Kind!CountsAreTrue'
  <2>1. Over' = Over \cup {e} /\ e \notin Over
    BY <1>1, <1>8 DEF Over, Kind!EndForward, Kind!TypeOK
  <2>2. Cardinality(Over') = Cardinality(Over) + 1
    BY <2>1, CountsOf, FS_AddElement, Zenon
  <2>3. count' = count /\ OkImages' = OkImages /\ finished' = finished + 1
    BY <1>8 DEF Kind!EndForward, Kind!pullVars, OkImages
  <2>. QED
    BY <1>2, <2>2, <2>3, CountsOf
<1>9. ASSUME UNCHANGED <<pull, count, forward, finished>> PROVE Kind!CountsAreTrue'
  BY <1>3, <1>9 DEF OkImages, Over
<1>10. CASE Kind!Pulled \/ Kind!RunSteps \/ Kind!TestErr \/ Kind!ListPods \/ Kind!ExposeLogs
  BY <1>9, <1>10 DEF Kind!Pulled, Kind!RunSteps, Kind!TestErr, Kind!ListPods,
     Kind!ExposeLogs, Kind!pullVars, Kind!forwardVars
<1>11. CASE Kind!AwaitForward \/ Kind!Bind \/ Kind!Notify \/ Kind!Drain
  BY <1>9, <1>11 DEF Kind!AwaitForward, Kind!Bind, Kind!Notify, Kind!Drain,
     Kind!pullVars, Kind!forwardVars
<1>12. CASE Kind!StopListener
  BY <1>9, <1>12 DEF Kind!StopListener, Kind!pullVars, Kind!forwardVars
<1>13. ASSUME NEW p \in Pod, Kind!PodEvent(p) \/ Kind!ReadLine(p) PROVE Kind!CountsAreTrue'
  BY <1>9, <1>13 DEF Kind!PodEvent, Kind!ReadLine, Kind!pullVars, Kind!forwardVars
<1>. QED
  BY <1>4, <1>5, <1>6, <1>7, <1>8, <1>10, <1>11, <1>12, <1>13
  DEF KindNext, Kind!Caller, Kind!Setup, Kind!Beside

\* The images: none is pulled before its stage, and all are there after it.
LEMMA KindPulls == ASSUME KindInv, KindNext PROVE PullInv'
<1>1. Kind!TypeOK /\ PullInv
  BY DEF KindInv, Kind!Inv
<1>2. ASSUME UNCHANGED pull, main' = main \/ main' \notin {"prepare", "steps"} PROVE PullInv'
  BY <1>1, <1>2 DEF PullInv
<1>3. CASE Kind!Prepare
  BY <1>1, <1>3 DEF PullInv, Kind!Prepare, Kind!ReturnValue, Kind!Goto
<1>4. CASE Kind!Pulled
  <2>1. count = Cardinality(OkImages) /\ IsFiniteSet(Image) /\ OkImages \in SUBSET Image
    BY CountsOf, EnvironmentAssumption
    DEF KindInv, Kind!Inv, EnvironmentAssumption, OkImages
  <2>2. CASE main' = "steps" /\ count = Kind!Cardinality(Image)
    <3>1. Cardinality(Image) = Cardinality(OkImages)
      BY <2>1, <2>2, SameCardinality, Zenon
    <3>2. Image = OkImages
      BY <2>1, <3>1, FS_Subset, Zenon
    <3>. QED
      BY <1>4, <2>2, <3>2 DEF Kind!Pulled, Kind!pullVars, PullInv, OkImages
  <2>3. CASE main' = "done"
    BY <1>2, <1>4, <2>3 DEF Kind!Pulled, Kind!pullVars
  <2>. QED
    BY <1>4, <2>2, <2>3 DEF Kind!Pulled, Kind!Goto, Kind!ReturnValue
<1>5. ASSUME NEW i \in Image, Kind!Pull(i) PROVE PullInv'
  BY <1>1, <1>5 DEF Kind!Pull, Kind!errVars, PullInv, Kind!TypeOK
<1>6. CASE Kind!RunSteps \/ Kind!ListPods \/ Kind!ExposeLogs
  BY <1>2, <1>6 DEF Kind!RunSteps, Kind!ListPods, Kind!ExposeLogs, Kind!AssignErr,
     Kind!Goto, Kind!pullVars, Kind!errVars
<1>7. CASE Kind!TestErr
  BY <1>2, <1>7 DEF Kind!TestErr, Kind!CheckErr, Kind!ReturnErr, Kind!Next_of, Kind!pullVars
<1>8. CASE Kind!StartForward \/ Kind!AwaitForward \/ Kind!Bind
  BY <1>2, <1>8 DEF Kind!StartForward, Kind!AwaitForward, Kind!Bind, Kind!AssignErr,
     Kind!Goto, Kind!pullVars
<1>9. CASE Kind!Notify \/ Kind!Drain
  BY <1>2, <1>9 DEF Kind!Notify, Kind!Drain, Kind!Goto, Kind!pullVars
<1>10. CASE Kind!StopListener
  BY <1>2, <1>10 DEF Kind!StopListener, Kind!errVars, Kind!pullVars
<1>11. ASSUME NEW p \in Pod, Kind!PodEvent(p) \/ Kind!ReadLine(p) PROVE PullInv'
  BY <1>2, <1>11 DEF Kind!PodEvent, Kind!ReadLine, Kind!OverwriteErr, Kind!errVars,
     Kind!pullVars
<1>12. ASSUME NEW e \in Kind!Export, Kind!Forwarding(e) \/ Kind!EndForward(e) PROVE PullInv'
  BY <1>2, <1>12 DEF Kind!Forwarding, Kind!EndForward, Kind!errVars, Kind!pullVars
<1>. QED
  BY <1>3, <1>4, <1>5, <1>6, <1>7, <1>8, <1>9, <1>10, <1>11, <1>12
  DEF KindNext, Kind!Caller, Kind!Setup, Kind!Beside
\* The forwards: started in order, and bound only when all were ready.
LEMMA KindForwards == ASSUME KindInv, KindNext PROVE ForwardInv'
<1>1. /\ Kind!TypeOK /\ ForwardInv /\ NumExports \in Nat
      /\ export \in 1..(NumExports + 1)
      /\ forward \in [Kind!Export -> {"none", "starting", "ready", "refused", "ended"}]
  BY EnvironmentAssumption DEF EnvironmentAssumption, KindInv, Kind!Inv, Kind!TypeOK
<1>. USE DEF ForwardInv, BeforeNextForward, Kind!Export
<1>2. ASSUME UNCHANGED <<export, forward, bound>>, UNCHANGED <<main, stage, failed>>
      PROVE  ForwardInv'
  BY <1>1, <1>2
<1>3. CASE Kind!Prepare \/ Kind!Pulled
  BY <1>1, <1>3 DEF Kind!Prepare, Kind!Pulled, Kind!ReturnValue, Kind!Goto, Kind!forwardVars
<1>4. CASE Kind!RunSteps \/ Kind!ListPods
  BY <1>1, <1>4 DEF Kind!RunSteps, Kind!ListPods, Kind!AssignErr, Kind!Goto, Kind!forwardVars
<1>5. CASE Kind!ExposeLogs
  BY <1>1, <1>5 DEF Kind!ExposeLogs, Kind!AssignErr, Kind!errVars, Kind!forwardVars
<1>6. CASE Kind!TestErr
  BY <1>1, <1>6 DEF Kind!TestErr, Kind!CheckErr, Kind!ReturnErr, Kind!Next_of, Kind!forwardVars
<1>7. CASE Kind!StartForward
  <2>1. export \in Kind!Export /\ main = "forward" /\ UNCHANGED <<export, bound>>
    BY <1>1, <1>7 DEF Kind!StartForward
  <2>2. CASE Kind!AssignErr("forward", "err") /\ UNCHANGED forward
    BY <1>1, <2>1, <2>2 DEF Kind!AssignErr
  <2>3. CASE Kind!Goto("ready") /\ forward' = [forward EXCEPT ![export] = "starting"]
    <3>1. \A e \in Kind!Export : e # export => forward'[e] = forward[e]
      BY <1>1, <2>3
    <3>. QED
      BY <1>1, <2>1, <2>3, <3>1 DEF Kind!Goto
  <2>. QED
    BY <1>7, <2>2, <2>3 DEF Kind!StartForward
<1>8. CASE Kind!AwaitForward
  <2>1. CASE Kind!AssignErr("forward", "err") /\ UNCHANGED export
    BY <1>1, <1>8, <2>1 DEF Kind!AwaitForward, Kind!AssignErr
  <2>2. CASE /\ forward[export] \in {"ready", "ended"}
             /\ Kind!Goto("forward") /\ export' = export + 1
    <3>1. main = "ready" /\ main' = "forward" /\ export \in Kind!Export /\ ~bound
          /\ UNCHANGED <<forward, bound>>
      BY <1>1, <1>8, <2>2 DEF Kind!AwaitForward, Kind!Goto
    <3>2. \A e \in Kind!Export : e < export' => e < export \/ e = export
      BY <2>2, <3>1
    <3>3. \A e \in Kind!Export : e >= export' => e > export
      BY <2>2, <3>1
    <3>4. \A e \in Kind!Export : e < export' => forward[e] \in {"ready", "ended"}
      BY <1>1, <2>2, <3>2
    <3>5. \A e \in Kind!Export : e >= export' => forward[e] = "none"
      BY <1>1, <3>1, <3>3
    <3>. QED
      BY <3>1, <3>4, <3>5
  <2>. QED
    BY <1>8, <2>1, <2>2 DEF Kind!AwaitForward
<1>9. CASE Kind!Bind
  BY <1>1, <1>9 DEF Kind!Bind, Kind!AssignErr
<1>10. CASE Kind!Notify \/ Kind!Drain
  BY <1>1, <1>10 DEF Kind!Notify, Kind!Drain, Kind!Goto, Kind!forwardVars
<1>11. CASE Kind!StopListener \/ \E i \in Image : Kind!Pull(i)
  BY <1>2, <1>11 DEF Kind!StopListener, Kind!Pull, Kind!errVars, Kind!forwardVars
<1>12. ASSUME NEW p \in Pod, Kind!PodEvent(p) \/ Kind!ReadLine(p) PROVE ForwardInv'
  BY <1>2, <1>12 DEF Kind!PodEvent, Kind!ReadLine, Kind!OverwriteErr, Kind!errVars,
     Kind!forwardVars
<1>13. ASSUME NEW e \in Kind!Export, Kind!Forwarding(e) \/ Kind!EndForward(e)
       PROVE  ForwardInv'
  <2>1. /\ \/ forward[e] = "starting" /\ forward'[e] \in {"ready", "refused"}
           \/ forward[e] = "ready" /\ forward'[e] = "ended"
        /\ \A d \in Kind!Export : d # e => forward'[d] = forward[d]
        /\ UNCHANGED <<main, stage, failed, export, bound>>
    BY <1>1, <1>13 DEF Kind!Forwarding, Kind!EndForward, Kind!errVars
  <2>. QED
    BY <1>1, <2>1
<1>. QED
  BY <1>3, <1>4, <1>5, <1>6, <1>7, <1>8, <1>9, <1>10, <1>11, <1>12, <1>13
  DEF KindNext, Kind!Caller, Kind!Setup, Kind!Beside

\* A forward that has been ready stays so, or ends; an ended one is over.
LEMMA ForwardsSettle ==
  ASSUME KindInv, KindNext, NEW e \in Kind!Export,
         forward[e] \in {"ready", "ended"}, main # "forward"
  PROVE  forward'[e] \in {forward[e], "ended"}
<1>1. forward \in [Kind!Export -> {"none", "starting", "ready", "refused", "ended"}]
  BY DEF KindInv, Kind!Inv, Kind!TypeOK
<1>2. ASSUME NEW d \in Kind!Export, Kind!Forwarding(d) \/ Kind!EndForward(d)
      PROVE  forward'[e] \in {forward[e], "ended"}
  BY <1>1, <1>2 DEF Kind!Forwarding, Kind!EndForward
<1>3. CASE UNCHANGED forward
  BY <1>3
<1>4. CASE Kind!Prepare \/ Kind!Setup \/ Kind!Notify \/ Kind!Drain
  BY <1>3, <1>4 DEF Kind!Prepare, Kind!Setup, Kind!Pulled, Kind!RunSteps, Kind!TestErr,
     Kind!ListPods, Kind!ExposeLogs, Kind!StartForward, Kind!AwaitForward, Kind!Bind,
     Kind!Notify, Kind!Drain, Kind!forwardVars
<1>5. ASSUME Kind!StopListener \/ (\E i \in Image : Kind!Pull(i))
               \/ (\E p \in Pod : Kind!PodEvent(p) \/ Kind!ReadLine(p))
      PROVE  UNCHANGED forward
  BY <1>5 DEF Kind!StopListener, Kind!Pull, Kind!PodEvent, Kind!ReadLine, Kind!forwardVars
<1>. QED
  BY <1>2, <1>3, <1>4, <1>5 DEF KindNext, Kind!Caller, Kind!Beside

\* What is returned stays, and only three ways lead to it.
LEMMA Returned ==
  ASSUME KindInv, KindNext, returned' = "nil"
  PROVE  \/ /\ returned = "nil" /\ UNCHANGED bound
            /\ (overwritten' <=> overwritten) /\ (failed' <=> failed)
            /\ UNCHANGED pull \/ \E i \in Image : pull[i] # "none"
         \/ main = "prepare" /\ (failed' <=> failed) /\ UNCHANGED pull
         \/ /\ main = "check" /\ err = "nil" /\ stage = "forward"
            /\ UNCHANGED <<overwritten, bound>> /\ (failed' <=> failed)
         \/ main = "return" /\ err = "nil" /\ UNCHANGED overwritten
<1>. DEFINE Stays == /\ returned = "nil" /\ UNCHANGED bound
                     /\ (overwritten' <=> overwritten) /\ (failed' <=> failed)
                     /\ UNCHANGED pull \/ \E i \in Image : pull[i] # "none"
<1>1. returned = "nil" => main \in {"done", "drain", "ended"}
  BY DEF KindInv, ErrInv
<1>2. CASE Kind!Prepare
  BY <1>1, <1>2 DEF Kind!Prepare, Kind!ReturnValue, Kind!Goto
<1>3. CASE Kind!Pulled \/ Kind!RunSteps \/ Kind!ListPods \/ Kind!ExposeLogs
  BY <1>1, <1>3 DEF Kind!Pulled, Kind!RunSteps, Kind!ListPods, Kind!ExposeLogs,
     Kind!ReturnValue, Kind!AssignErr, Kind!Goto, Kind!errVars
<1>4. CASE Kind!TestErr
  BY <1>1, <1>4 DEF Kind!TestErr, Kind!CheckErr, Kind!ReturnErr, Kind!Next_of,
     Kind!forwardVars, KindInv, ForwardInv
<1>5. CASE Kind!StartForward \/ Kind!AwaitForward \/ Kind!Bind
  BY <1>1, <1>5 DEF Kind!StartForward, Kind!AwaitForward, Kind!Bind, Kind!AssignErr, Kind!Goto
<1>6. CASE Kind!Notify \/ Kind!Drain
  BY <1>1, <1>6 DEF Kind!Notify, Kind!Drain, Kind!Goto, Kind!pullVars, Kind!forwardVars
<1>7. CASE Kind!StopListener
  BY <1>7 DEF Kind!StopListener, Kind!errVars, Kind!pullVars, Kind!forwardVars
<1>8. ASSUME NEW i \in Image, Kind!Pull(i) PROVE Stays
  BY <1>8 DEF Kind!Pull, Kind!errVars, Kind!forwardVars
<1>9. ASSUME NEW p \in Pod, Kind!PodEvent(p) \/ Kind!ReadLine(p) PROVE Stays
  <2>1. UNCHANGED <<returned, failed, bound, pull>>
    BY <1>9 DEF Kind!PodEvent, Kind!ReadLine, Kind!OverwriteErr, Kind!errVars,
       Kind!pullVars, Kind!forwardVars
  <2>2. overwritten' <=> overwritten
    <3>1. main \notin {"check", "return"} /\ overwritten \in BOOLEAN
      BY <1>1, <2>1 DEF KindInv, ErrInv, ErrTypeOK
    <3>2. \/ overwritten' = (overwritten \/ main \in {"check", "return"})
          \/ overwritten' = overwritten
      BY <1>9, Zenon DEF Kind!PodEvent, Kind!ReadLine, Kind!OverwriteErr, Kind!errVars
    <3>. QED
      BY <3>1, <3>2
  <2>. QED
    BY <2>1, <2>2
<1>10. ASSUME NEW e \in Kind!Export, Kind!Forwarding(e) \/ Kind!EndForward(e) PROVE Stays
  BY <1>10 DEF Kind!Forwarding, Kind!EndForward, Kind!errVars, Kind!pullVars
<1>. QED
  BY <1>2, <1>3, <1>4, <1>5, <1>6, <1>7, <1>8, <1>9, <1>10
  DEF KindNext, Kind!Caller, Kind!Setup, Kind!Beside

\* All forwards are ready, or have been, once their context is bound.
LEMMA BoundIsReady ==
  ASSUME KindInv, bound
  PROVE  \A e \in Kind!Export : forward[e] \in {"ready", "ended"}
  BY EnvironmentAssumption DEF EnvironmentAssumption, KindInv, ForwardInv, Kind!Export

\* A setup that returns no error had none.
LEMMA KindReady == ASSUME KindInv, KindNext PROVE Kind!OkMeansReady'
<1>1. main' = "steps" => \A i \in Image : pull'[i] = "ok"
  BY KindPulls DEF PullInv
<1>2. ASSUME returned' = "nil", ~overwritten'
      PROVE  /\ ~failed'
             /\ (\E i \in Image : pull'[i] # "none") =>
                  bound' /\ \A e \in Kind!Export : forward'[e] \in {"ready", "ended"}
  <2>1. CASE /\ returned = "nil" /\ UNCHANGED bound
             /\ (overwritten' <=> overwritten) /\ (failed' <=> failed)
             /\ UNCHANGED pull \/ \E i \in Image : pull[i] # "none"
    <3>1. main \in {"done", "drain", "ended"}
      BY <2>1 DEF KindInv, ErrInv
    <3>2. ~failed' /\ ((\E i \in Image : pull[i] # "none") => bound)
      BY <1>2, <2>1 DEF KindInv, Kind!OkMeansReady
    <3>3. bound => \A e \in Kind!Export : forward'[e] \in {"ready", "ended"}
      BY <3>1, BoundIsReady, ForwardsSettle
    <3>. QED
      BY <2>1, <3>2, <3>3
  <2>2. CASE main = "prepare" /\ (failed' <=> failed) /\ UNCHANGED pull
    <3>1. ~overwritten
      <4>1. ErrInv /\ ErrNext
        BY KindErr DEF KindInv
      <4>. QED
        BY <1>2, <2>2, <4>1 DEF ErrNext, errVars, Moves, ReturnValue, AssignErr, CheckErr,
           ReturnErr, OverwriteErr
    <3>. QED
      BY <2>2, <3>1 DEF KindInv, ErrInv, Early, PullInv
  <2>3. CASE /\ main = "check" /\ err = "nil" /\ stage = "forward"
             /\ UNCHANGED <<overwritten, bound>> /\ (failed' <=> failed)
    <3>1. ~failed /\ bound
      BY <1>2, <2>3 DEF KindInv, ErrInv, ForwardInv
    <3>. QED
      BY <2>3, <3>1, BoundIsReady, ForwardsSettle
  <2>4. CASE main = "return" /\ err = "nil" /\ UNCHANGED overwritten
    BY <1>2, <2>4 DEF KindInv, ErrInv
  <2>. QED
    BY <1>2, <2>1, <2>2, <2>3, <2>4, Returned
<1>. QED
  BY <1>1, <1>2 DEF Kind!OkMeansReady

\* The clean-up has waited for every forward: each has sent its one message.
LEMMA KindQuiet == ASSUME KindInv, KindNext PROVE Kind!NoForwardLeft'
<1>. SUFFICES ASSUME main' = "ended", bound'
              PROVE  \A e \in Kind!Export : forward'[e] = "ended"
  BY DEF Kind!NoForwardLeft
<1>1. CASE main = "ended"
  <2>1. bound
    BY <1>1 DEF KindNext, Kind!Caller, Kind!Prepare, Kind!Setup, Kind!Pulled, Kind!RunSteps,
       Kind!TestErr, Kind!CheckErr, Kind!ReturnErr, Kind!ListPods, Kind!ExposeLogs,
       Kind!StartForward, Kind!AwaitForward, Kind!Bind, Kind!Notify, Kind!Drain,
       Kind!Beside, Kind!StopListener, Kind!Pull, Kind!PodEvent, Kind!ReadLine,
       Kind!Forwarding, Kind!EndForward, Kind!forwardVars
  <2>. QED
    BY <1>1, <2>1, ForwardsSettle DEF KindInv, Kind!NoForwardLeft
<1>2. CASE main # "ended"
  <2>1. main = "drain" /\ finished >= NumExports /\ UNCHANGED <<forward, bound>>
    <3>1. ErrNext
      BY KindErr
    <3>2. Kind!Notify \/ Kind!Drain
      <4>1. ASSUME NEW p \in Pod, Kind!PodEvent(p) \/ Kind!ReadLine(p) PROVE main' = main
        BY <4>1 DEF Kind!PodEvent, Kind!ReadLine, Kind!OverwriteErr, Kind!errVars
      <4>2. ASSUME NEW e \in Kind!Export, Kind!Forwarding(e) \/ Kind!EndForward(e)
            PROVE  main' = main
        BY <4>2 DEF Kind!Forwarding, Kind!EndForward, Kind!errVars
      <4>3. ASSUME Kind!StopListener \/ \E i \in Image : Kind!Pull(i) PROVE main' = main
        BY <4>3 DEF Kind!StopListener, Kind!Pull, Kind!errVars
      <4>4. ASSUME Kind!Prepare \/ Kind!Setup PROVE main' # "ended"
        BY <1>2, <4>4 DEF Kind!Prepare, Kind!Setup, Kind!Pulled, Kind!RunSteps,
           Kind!TestErr, Kind!CheckErr, Kind!ReturnErr, Kind!Next_of, Kind!ListPods,
           Kind!ExposeLogs, Kind!StartForward, Kind!AwaitForward, Kind!Bind,
           Kind!ReturnValue, Kind!AssignErr, Kind!Goto, Kind!errVars
      <4>. QED
        BY <1>2, <4>1, <4>2, <4>3, <4>4 DEF KindNext, Kind!Caller, Kind!Beside
    <3>. QED
      BY <1>2, <3>2 DEF Kind!Notify, Kind!Drain, Kind!Goto, Kind!forwardVars
  <2>2. Over \in SUBSET Kind!Export /\ IsFiniteSet(Kind!Export)
        /\ Cardinality(Kind!Export) = NumExports /\ NumExports \in Nat
    BY EnvironmentAssumption, FS_Interval DEF EnvironmentAssumption, Over, Kind!Export
  <2>3. finished = Cardinality(Over)
    BY CountsOf DEF KindInv, Kind!Inv
  <2>4. Cardinality(Over) <= Cardinality(Kind!Export) /\ Cardinality(Over) \in Nat
    BY <2>2, FS_Subset, FS_CardinalityType, CountsOf, Zenon
  <2>5. Cardinality(Kind!Export) = Cardinality(Over)
    BY <2>1, <2>2, <2>3, <2>4
  <2>6. Kind!Export = Over
    BY <2>2, <2>5, FS_Subset, Zenon
  <2>7. \A e \in Kind!Export : forward[e] \in {"refused", "ended"}
    BY <2>6, Zenon DEF Over
  <2>8. \A e \in Kind!Export : forward[e] \in {"ready", "ended"}
    BY <2>1, BoundIsReady
  <2>. QED
    BY <2>1, <2>7, <2>8
<1>. QED
  BY <1>1, <1>2

\* A step of KindSetup keeps its invariant.
LEMMA KindStep == ASSUME KindInv, KindNext PROVE KindInv'
  BY KindErr, ErrInvStep, KindLogs, KindTypes, KindCounts, KindPulls, KindForwards,
     KindReady, KindQuiet DEF KindInv, Kind!Inv

\* It holds of a setup that has not begun.
LEMMA KindStart == Kind!Init => KindInv
<1>. SUFFICES ASSUME Kind!Init PROVE KindInv
  OBVIOUS
<1>1. /\ main = "prepare" /\ err = "nil" /\ failed = FALSE /\ overwritten = FALSE
      /\ returned = "none" /\ pull = [i \in Image |-> "none"] /\ count = 0
      /\ listener = "off" /\ events = [p \in Pod |-> 0] /\ todo = {} /\ following = {}
      /\ writers = [p \in Pod |-> 0] /\ export = 1 /\ reported = {} /\ finished = 0
      /\ forward = [e \in Kind!Export |-> "none"] /\ bound = FALSE /\ stopped = FALSE
  BY DEF Kind!Init, Kind!ErrInit
<1>2. MaxEvents \in Nat /\ NumExports \in Nat
  BY EnvironmentAssumption DEF EnvironmentAssumption
<1>3. Kind!TypeOK
  <2>1. /\ failed \in BOOLEAN /\ overwritten \in BOOLEAN /\ bound \in BOOLEAN
        /\ stopped \in BOOLEAN
    BY <1>1
  <2>2. \A p \in Pod : writers[p] \in 0..(events[p] + 1)
    BY <1>1
  <2>3. /\ pull \in [Image -> {"none", "pulling", "ok", "failed"}]
        /\ events \in [Pod -> 0..MaxEvents]
        /\ forward \in [Kind!Export -> {"none", "starting", "ready", "refused", "ended"}]
    BY <1>1, <1>2
  <2>4. /\ err \in Kind!Errors /\ returned \in Kind!Errors \cup {"none"}
        /\ main \in {"prepare", "pull", "steps", "check", "return", "list", "logs",
                    "forward", "ready", "done", "drain", "ended"}
        /\ listener \in {"off", "select", "stopped"}
        /\ todo \in SUBSET Pod /\ following \in SUBSET Pod
        /\ export \in 1..(NumExports + 1) /\ reported \in SUBSET Kind!Export
    BY <1>1, <1>2 DEF Kind!Errors
  <2>. QED
    BY <2>1, <2>2, <2>3, <2>4, Zenon DEF Kind!TypeOK, Kind!ErrTypeOK
<1>4. Kind!CountsAreTrue
  <2>1. OkImages = {} /\ Over = {}
    BY <1>1 DEF OkImages, Over
  <2>. QED
    BY <1>1, <2>1, CountsOf, FS_EmptySet
<1>5. ErrInv /\ PullInv
  BY <1>1 DEF ErrInv, ErrTypeOK, Errors, PullInv
<1>6. LogInv
  BY <1>1, <1>2 DEF LogInv
<1>7. ForwardInv
  BY <1>1, <1>2 DEF ForwardInv, Kind!Export
<1>8. Kind!OkMeansReady /\ Kind!NoForwardLeft
  BY <1>1 DEF Kind!OkMeansReady, Kind!NoForwardLeft
<1>. QED
  BY <1>3, <1>4, <1>5, <1>6, <1>7, <1>8 DEF KindInv, Kind!Inv

-----------------------------------------------------------------------------
(* The steps of ComposeSetup.                                              *)

\* Each of its steps treats err as ErrNext says.
LEMMA ComposeErr == Compose!Next => ErrNext
<1>. SUFFICES ASSUME Compose!Next PROVE ErrNext
  OBVIOUS
<1>. USE DEF ErrNext, Early, Moves, errVars, Compose!errVars, Errors, Compose!Errors,
             ReturnValue, Compose!ReturnValue, AssignErr, Compose!AssignErr
<1>1. CASE Compose!Prepare \/ Compose!Up
  BY <1>1 DEF Compose!Prepare, Compose!Up
<1>2. ASSUME NEW s \in Service, Compose!ExposePort(s) \/ Compose!FollowLog(s) PROVE ErrNext
  BY <1>2 DEF Compose!ExposePort, Compose!FollowLog, Compose!NextService
<1>3. CASE Compose!ReadFlag \/ Compose!Exposed \/ Compose!RunSteps
  BY <1>3 DEF Compose!ReadFlag, Compose!NextService, Compose!Exposed, Compose!RunSteps
<1>4. CASE Compose!TestErr
  BY <1>4 DEF Compose!TestErr, Compose!CheckErr, CheckErr, Compose!ReturnErr, ReturnErr
<1>5. CASE Compose!SetFlag \/ Compose!StopListener
  BY <1>5 DEF Compose!SetFlag, Compose!StopListener
<1>6. ASSUME NEW s \in Service, Compose!Started(s) PROVE ErrNext
  BY <1>6 DEF Compose!Started, Compose!OverwriteErr, OverwriteErr
<1>. QED
  BY <1>1, <1>2, <1>3, <1>4, <1>5, <1>6
  DEF Compose!Next, Compose!Caller, Compose!Setup, Compose!Listener

\* Following a log once more.
LEMMA FollowOnce ==
  ASSUME cWriters \in [Service -> Nat], NEW s \in Service, Compose!Follow(s)
  PROVE  /\ cWriters' \in [Service -> Nat] /\ cWriters'[s] = cWriters[s] + 1
         /\ cWriters[s] \in Nat
         /\ \A r \in Service : r # s => cWriters'[r] = cWriters[r]
  BY DEF Compose!Follow

\* A start of a container, and what its callback does.
LEMMA StartedOnce ==
  ASSUME ComposeInv, NEW s \in Service, Compose!Started(s)
  PROVE  /\ starts' \in [Service -> 0..MaxStarts] /\ starts'[s] = starts[s] + 1
         /\ starts[s] \in Nat /\ cWriters[s] \in Nat
         /\ \A r \in Service : r # s => starts'[r] = starts[r]
         /\ cWriters' \in [Service -> Nat] /\ main # "prepare"
         /\ \A r \in Service : r # s => cWriters'[r] = cWriters[r]
         /\ \/ err' = "nil" /\ cWriters'[s] = cWriters[s] + 1
            \/ err' = "err" /\ cWriters'[s] = cWriters[s]
         /\ cListener' = "test" /\ about' = {s}
         /\ UNCHANGED <<main, stage, failed, returned, ports, cTodo, at, beenFollowLog, missing>>
<1>1. /\ starts \in [Service -> 0..MaxStarts] /\ cWriters \in [Service -> Nat]
      /\ MaxStarts \in Nat
  BY EnvironmentAssumption
  DEF EnvironmentAssumption, ComposeInv, FileInv
<1>2. /\ starts[s] < MaxStarts /\ starts' = [starts EXCEPT ![s] = @ + 1]
      /\ main # "prepare" /\ cListener' = "test" /\ about' = {s}
      /\ \/ err' = "nil" /\ Compose!Follow(s)
         \/ err' = "err" /\ cWriters' = cWriters
      /\ UNCHANGED <<main, stage, failed, returned, ports, cTodo, at, beenFollowLog, missing>>
  BY DEF Compose!Started, Compose!OverwriteErr
<1>3. /\ starts' \in [Service -> 0..MaxStarts] /\ starts'[s] = starts[s] + 1
      /\ starts[s] \in Nat /\ \A r \in Service : r # s => starts'[r] = starts[r]
  BY <1>1, <1>2
<1>. QED
  BY <1>1, <1>2, <1>3, FollowOnce

\* The places.
LEMMA ComposePlaces == ASSUME ComposeInv, Compose!Next PROVE PlaceInv'
<1>1. PlaceInv
  BY DEF ComposeInv
<1>. USE DEF PlaceInv
<1>2. CASE Compose!Prepare \/ Compose!Up
  BY <1>1, <1>2 DEF Compose!Prepare, Compose!Up, Compose!ReturnValue, Compose!followVars
<1>3. ASSUME NEW s \in Service, Compose!ExposePort(s) PROVE PlaceInv'
  BY <1>1, <1>3 DEF Compose!ExposePort, Compose!AssignErr, Compose!followVars
<1>4. CASE Compose!ReadFlag
  BY <1>1, <1>4 DEF Compose!ReadFlag, Compose!NextService, Compose!followVars
<1>5. ASSUME NEW s \in Service, Compose!FollowLog(s) PROVE PlaceInv'
  BY <1>1, <1>5 DEF Compose!FollowLog, Compose!AssignErr, Compose!NextService, Compose!followVars
<1>6. CASE Compose!Exposed \/ Compose!RunSteps
  BY <1>1, <1>6 DEF Compose!Exposed, Compose!RunSteps, Compose!AssignErr, Compose!followVars
<1>7. CASE Compose!TestErr
  BY <1>1, <1>7 DEF Compose!TestErr, Compose!CheckErr, Compose!ReturnErr, Compose!followVars
<1>8. CASE Compose!SetFlag
  <2>1. beenFollowLog' \in [Service -> BOOLEAN]
    BY <1>8, Zenon DEF Compose!SetFlag
  <2>. QED
    BY <1>1, <1>8, <2>1 DEF Compose!SetFlag, Compose!errVars
<1>9. CASE Compose!StopListener
  BY <1>1, <1>9 DEF Compose!StopListener, Compose!errVars, Compose!followVars
<1>10. ASSUME NEW s \in Service, Compose!Started(s) PROVE PlaceInv'
  BY <1>1, <1>10, StartedOnce
<1>. QED
  BY <1>2, <1>3, <1>4, <1>5, <1>6, <1>7, <1>8, <1>9, <1>10
  DEF Compose!Next, Compose!Caller, Compose!Setup, Compose!Listener

\* A service whose log is being looked at is one that the loop has left.
LEMMA AtIsTodo ==
  ASSUME ComposeInv, main \in {"flag", "follow"}, NEW s \in at
  PROVE  s \in cTodo /\ s \in Service /\ at = {s}
  BY DEF ComposeInv, PlaceInv

\* The files: each std.log is created at most once per start and once by the
\* caller.
LEMMA ComposeFiles == ASSUME ComposeInv, Compose!Next PROVE FileInv'
<1>1. PlaceInv /\ FileInv /\ MaxStarts \in Nat
  BY EnvironmentAssumption DEF EnvironmentAssumption, ComposeInv
<1>2. ASSUME UNCHANGED <<cWriters, starts>>, \A s \in Service : MayFollow(s)' => MayFollow(s)
      PROVE  FileInv'
  BY <1>1, <1>2 DEF FileInv
<1>3. CASE Compose!Prepare \/ Compose!Up
  BY <1>2, <1>3 DEF Compose!Prepare, Compose!Up, Compose!ReturnValue, Compose!followVars, MayFollow
<1>4. ASSUME NEW s \in Service, Compose!ExposePort(s) PROVE FileInv'
  BY <1>2, <1>4 DEF Compose!ExposePort, Compose!AssignErr, Compose!followVars, MayFollow
<1>5. CASE Compose!ReadFlag
  BY <1>2, <1>5 DEF Compose!ReadFlag, Compose!NextService, Compose!followVars, MayFollow
<1>6. ASSUME NEW s \in Service, Compose!FollowLog(s) PROVE FileInv'
  <2>1. main = "follow" /\ at = {s} /\ UNCHANGED starts
    BY <1>6 DEF Compose!FollowLog
  <2>2. CASE UNCHANGED cWriters
    BY <1>2, <1>6, <2>2 DEF Compose!FollowLog, Compose!NextService, Compose!AssignErr,
       Compose!Follow, MayFollow
  <2>3. CASE Compose!Follow(s) /\ Compose!NextService
    <3>1. s \in cTodo /\ cWriters[s] <= starts[s] /\ starts[s] \in Nat
      BY <1>1, <2>1, AtIsTodo DEF FileInv, MayFollow
    <3>2. main' = "expose" /\ cTodo' = cTodo \ {s}
      BY <2>1, <2>3 DEF Compose!NextService
    <3>3. /\ cWriters' \in [Service -> Nat] /\ cWriters'[s] = cWriters[s] + 1
          /\ cWriters[s] \in Nat
          /\ \A r \in Service : r # s => cWriters'[r] = cWriters[r]
      BY <1>1, <2>3, FollowOnce DEF FileInv
    <3>. QED
      BY <1>1, <2>1, <3>1, <3>2, <3>3 DEF FileInv, MayFollow
  <2>. QED
    BY <1>6, <2>2, <2>3 DEF Compose!FollowLog, Compose!followVars
<1>7. CASE Compose!Exposed \/ Compose!RunSteps
  BY <1>2, <1>7 DEF Compose!Exposed, Compose!RunSteps, Compose!AssignErr, Compose!followVars, MayFollow
<1>8. CASE Compose!TestErr
  BY <1>2, <1>8 DEF Compose!TestErr, Compose!CheckErr, Compose!ReturnErr, Compose!followVars, MayFollow
<1>9. CASE Compose!SetFlag \/ Compose!StopListener
  BY <1>2, <1>9 DEF Compose!SetFlag, Compose!StopListener, Compose!errVars,
     Compose!followVars, MayFollow
<1>10. ASSUME NEW s \in Service, Compose!Started(s) PROVE FileInv'
  <2>1. \A r \in Service : MayFollow(r)' <=> MayFollow(r)
    BY <1>10, StartedOnce DEF MayFollow
  <2>. QED
    BY <1>1, <1>10, <2>1, StartedOnce DEF FileInv
<1>. QED
  BY <1>3, <1>4, <1>5, <1>6, <1>7, <1>8, <1>9, <1>10
  DEF Compose!Next, Compose!Caller, Compose!Setup, Compose!Listener

\* A log that is followed stays so, and a container that was not found.
LEMMA FollowedStays ==
  ASSUME ComposeInv, Compose!Next, NEW s \in Service
  PROVE  /\ cWriters[s] \in Nat /\ cWriters'[s] \in Nat /\ cWriters'[s] >= cWriters[s]
         /\ missing \subseteq missing'
<1>1. cWriters \in [Service -> Nat]
  BY DEF ComposeInv, FileInv
<1>2. CASE UNCHANGED <<cWriters, missing>>
  BY <1>1, <1>2
<1>3. CASE Compose!Prepare \/ Compose!Up \/ Compose!ReadFlag \/ Compose!Exposed
  BY <1>2, <1>3 DEF Compose!Prepare, Compose!Up, Compose!ReadFlag, Compose!Exposed, Compose!followVars
<1>4. CASE Compose!RunSteps \/ Compose!TestErr \/ Compose!SetFlag \/ Compose!StopListener
  BY <1>2, <1>4 DEF Compose!RunSteps, Compose!TestErr, Compose!SetFlag, Compose!StopListener,
     Compose!followVars
<1>5. ASSUME NEW r \in Service, Compose!ExposePort(r) PROVE UNCHANGED <<cWriters, missing>>
  BY <1>5 DEF Compose!ExposePort, Compose!followVars
<1>6. ASSUME NEW r \in Service, Compose!FollowLog(r)
      PROVE  cWriters'[s] >= cWriters[s] /\ cWriters'[s] \in Nat /\ missing \subseteq missing'
  <2>1. missing \subseteq missing'
    BY <1>6 DEF Compose!FollowLog
  <2>2. UNCHANGED cWriters \/ Compose!Follow(r)
    BY <1>6 DEF Compose!FollowLog, Compose!followVars
  <2>. QED
    BY <1>1, <2>1, <2>2, FollowOnce
<1>7. ASSUME NEW r \in Service, Compose!Started(r)
      PROVE  cWriters'[s] >= cWriters[s] /\ cWriters'[s] \in Nat /\ missing \subseteq missing'
  BY <1>1, <1>7, StartedOnce
<1>. QED
  BY <1>1, <1>2, <1>3, <1>4, <1>5, <1>6, <1>7
  DEF Compose!Next, Compose!Caller, Compose!Setup, Compose!Listener

\* The flags: each has a log behind it, before and after it is set.
LEMMA ComposeFlags == ASSUME ComposeInv, Compose!Next PROVE FlagInv'
<1>1. FlagInv /\ PlaceInv
  BY DEF ComposeInv
<1>. SUFFICES ASSUME NotPastLoop', NEW s \in Service
              PROVE  /\ beenFollowLog'[s] => cWriters'[s] > 0
                     /\ cListener' = "test" /\ err' = "nil" /\ s \in about' => cWriters'[s] > 0
  BY DEF FlagInv
<1>2. cWriters[s] > 0 => cWriters'[s] > 0
  BY FollowedStays
<1>3. ASSUME NotPastLoop, UNCHANGED <<beenFollowLog, err, about>>,
             cListener' = "test" => cListener = "test"
      PROVE  /\ beenFollowLog'[s] => cWriters'[s] > 0
             /\ cListener' = "test" /\ err' = "nil" /\ s \in about' => cWriters'[s] > 0
  BY <1>1, <1>2, <1>3 DEF FlagInv
<1>4. CASE Compose!Prepare \/ Compose!Up
  BY <1>3, <1>4 DEF Compose!Prepare, Compose!Up, Compose!ReturnValue, Compose!followVars,
     NotPastLoop, InLoop
<1>5. ASSUME NEW r \in Service, Compose!ExposePort(r)
      PROVE  NotPastLoop /\ UNCHANGED <<beenFollowLog, err, about, cListener>>
  BY <1>5 DEF Compose!ExposePort, Compose!AssignErr, Compose!followVars, NotPastLoop, InLoop
<1>6. CASE Compose!ReadFlag
  BY <1>3, <1>6 DEF Compose!ReadFlag, Compose!NextService, Compose!followVars, NotPastLoop, InLoop
<1>7. ASSUME NEW r \in Service, Compose!FollowLog(r)
      PROVE  /\ beenFollowLog'[s] => cWriters'[s] > 0
             /\ cListener' = "test" /\ err' = "nil" /\ s \in about' => cWriters'[s] > 0
  <2>1. NotPastLoop /\ UNCHANGED <<err, about, cListener>>
    BY <1>7 DEF Compose!FollowLog, Compose!AssignErr, Compose!NextService, NotPastLoop, InLoop
  <2>2. CASE UNCHANGED beenFollowLog
    BY <1>3, <2>1, <2>2
  <2>3. CASE Compose!Follow(r) /\ beenFollowLog' = [beenFollowLog EXCEPT ![r] = TRUE]
    <3>1. cWriters'[r] > 0
      BY <2>3, FollowOnce DEF ComposeInv, FileInv
    <3>2. s # r => beenFollowLog'[s] = beenFollowLog[s]
      BY <1>1, <2>3 DEF PlaceInv
    <3>. QED
      BY <1>1, <1>2, <2>1, <3>1, <3>2 DEF FlagInv
  <2>. QED
    BY <1>7, <2>2, <2>3 DEF Compose!FollowLog, Compose!followVars
<1>8. CASE Compose!Exposed \/ Compose!RunSteps
  BY <1>8 DEF Compose!Exposed, Compose!RunSteps, Compose!AssignErr, NotPastLoop, InLoop
<1>9. CASE Compose!TestErr
  BY <1>9 DEF Compose!TestErr, Compose!CheckErr, Compose!ReturnErr, NotPastLoop, InLoop
<1>10. CASE Compose!SetFlag
  <2>1. /\ cListener = "test" /\ cListener' = "select" /\ NotPastLoop
        /\ beenFollowLog' = [r \in Service |->
             beenFollowLog[r] \/ (r \in about /\ err = "nil")]
    BY <1>10 DEF Compose!SetFlag, Compose!errVars, NotPastLoop, InLoop
  <2>2. beenFollowLog'[s] => beenFollowLog[s] \/ (s \in about /\ err = "nil")
    BY <2>1, Zenon
  <2>. QED
    BY <1>1, <1>2, <2>1, <2>2 DEF FlagInv
<1>11. CASE Compose!StopListener
  BY <1>3, <1>11 DEF Compose!StopListener, Compose!errVars, Compose!followVars, NotPastLoop, InLoop
<1>12. ASSUME NEW r \in Service, Compose!Started(r)
       PROVE  /\ beenFollowLog'[s] => cWriters'[s] > 0
              /\ cListener' = "test" /\ err' = "nil" /\ s \in about' => cWriters'[s] > 0
  <2>1. NotPastLoop /\ beenFollowLog' = beenFollowLog
    BY <1>12, StartedOnce DEF NotPastLoop, InLoop
  <2>2. err' = "nil" /\ s \in about' => cWriters'[s] > 0
    BY <1>12, StartedOnce
  <2>. QED
    BY <1>1, <1>2, <2>1, <2>2 DEF FlagInv
<1>. QED
  BY <1>3, <1>4, <1>5, <1>6, <1>7, <1>8, <1>9, <1>10, <1>11, <1>12
  DEF Compose!Next, Compose!Caller, Compose!Setup, Compose!Listener

\* What is passed stays followed.
LEMMA ComposePassed == ASSUME ComposeInv, Compose!Next PROVE PassedInv'
<1>1. PassedInv /\ PlaceInv /\ ErrInv
  BY DEF ComposeInv
<1>2. \A s \in Service : IsFollowed(s) => IsFollowed(s)'
  BY FollowedStays DEF IsFollowed
<1>3. AllFollowed => AllFollowed'
  BY <1>2 DEF AllFollowed
<1>4. ASSUME UNCHANGED <<main, stage, failed, returned, cTodo>>,
             overwritten => overwritten'
      PROVE  PassedInv'
  BY <1>1, <1>2, <1>3, <1>4 DEF PassedInv, InLoop
<1>5. CASE Compose!Prepare
  BY <1>1, <1>5 DEF Compose!Prepare, Compose!ReturnValue, PassedInv, InLoop, ErrInv
<1>6. CASE Compose!Up
  BY <1>1, <1>6 DEF Compose!Up, Compose!ReturnValue, PassedInv, InLoop, ErrInv
<1>7. ASSUME NEW s \in Service, Compose!ExposePort(s) PROVE PassedInv'
  <2>1. InLoop /\ returned = "none" /\ UNCHANGED <<cTodo, returned>>
    BY <1>1, <1>7 DEF Compose!ExposePort, Compose!AssignErr, InLoop, ErrInv
  <2>. QED
    BY <1>1, <1>2, <1>7, <2>1 DEF Compose!ExposePort, Compose!AssignErr, PassedInv, InLoop
<1>8. CASE Compose!ReadFlag
  <2>1. returned = "none" /\ InLoop /\ returned' = returned /\ InLoop'
    BY <1>1, <1>8 DEF Compose!ReadFlag, Compose!NextService, InLoop, ErrInv
  <2>2. \A s \in Service \ cTodo' : IsFollowed(s)
    <3>. SUFFICES ASSUME NEW s \in Service, s \notin cTodo', s \in cTodo PROVE IsFollowed(s)
      BY <1>1, <2>1 DEF PassedInv
    <3>1. PICK r \in at : beenFollowLog[r]
      BY <1>8 DEF Compose!ReadFlag
    <3>2. s \in at
      BY <1>8 DEF Compose!ReadFlag, Compose!NextService
    <3>3. s = r
      BY <1>8, <3>1, <3>2, AtIsTodo DEF Compose!ReadFlag
    <3>4. FlagInv /\ NotPastLoop
      BY <2>1 DEF ComposeInv, NotPastLoop
    <3>. QED
      BY <3>1, <3>3, <3>4 DEF FlagInv, IsFollowed
  <2>. QED
    BY <1>2, <2>1, <2>2 DEF PassedInv, InLoop
<1>9. ASSUME NEW r \in Service, Compose!FollowLog(r) PROVE PassedInv'
  <2>1. /\ returned = "none" /\ InLoop /\ returned' = returned /\ main = "follow"
        /\ at = {r}
    BY <1>1, <1>9 DEF Compose!FollowLog, Compose!AssignErr, Compose!NextService, InLoop, ErrInv
  <2>2. CASE Compose!AssignErr("expose", "err")
    BY <2>1, <2>2 DEF Compose!AssignErr, PassedInv, InLoop
  <2>3. CASE Compose!NextService /\ (missing' = missing \cup {r} \/ Compose!Follow(r))
    <3>1. main' = "expose" /\ cTodo' = cTodo \ {r}
      BY <2>1, <2>3 DEF Compose!NextService
    <3>2. IsFollowed(r)'
      BY <2>3, FollowOnce DEF ComposeInv, FileInv, IsFollowed
    <3>. QED
      BY <1>1, <1>2, <2>1, <3>1, <3>2 DEF PassedInv, InLoop
  <2>. QED
    BY <1>9, <2>2, <2>3 DEF Compose!FollowLog
<1>10. CASE Compose!Exposed
  <2>1. AllFollowed /\ returned = "none"
    BY <1>1, <1>10 DEF Compose!Exposed, PassedInv, InLoop, AllFollowed, ErrInv
  <2>. QED
    BY <1>3, <1>10, <2>1 DEF Compose!Exposed, Compose!AssignErr, PassedInv, InLoop
<1>11. CASE Compose!RunSteps
  <2>1. returned = "none" /\ (~overwritten => AllFollowed)
    BY <1>1, <1>11 DEF Compose!RunSteps, PassedInv, ErrInv
  <2>. QED
    BY <1>3, <1>11, <2>1 DEF Compose!RunSteps, Compose!AssignErr, PassedInv, InLoop
<1>12. CASE Compose!TestErr
  <2>1. CASE main = "check" /\ err = "nil" /\ ~overwritten
    <3>1. AllFollowed
      BY <1>1, <2>1 DEF PassedInv, PlaceInv, ErrInv
    <3>. QED
      BY <1>3, <1>12, <2>1, <3>1 DEF Compose!TestErr, Compose!CheckErr, Compose!ReturnErr,
         PassedInv, InLoop
  <2>2. CASE main = "check" /\ (err # "nil" \/ overwritten)
    BY <1>1, <1>12, <2>2 DEF Compose!TestErr, Compose!CheckErr, Compose!ReturnErr, PassedInv,
       InLoop, ErrInv
  <2>3. CASE main = "return"
    BY <1>1, <1>12, <2>3 DEF Compose!TestErr, Compose!CheckErr, Compose!ReturnErr, PassedInv,
       InLoop, ErrInv
  <2>. QED
    BY <1>12, <2>1, <2>2, <2>3 DEF Compose!TestErr, Compose!CheckErr, Compose!ReturnErr
<1>13. CASE Compose!SetFlag \/ Compose!StopListener
  BY <1>4, <1>13 DEF Compose!SetFlag, Compose!StopListener, Compose!errVars
<1>14. ASSUME NEW s \in Service, Compose!Started(s) PROVE PassedInv'
  <2>1. overwritten => overwritten'
    BY <1>14, Zenon DEF Compose!Started, Compose!OverwriteErr
  <2>. QED
    BY <1>4, <1>14, <2>1, StartedOnce
<1>. QED
  BY <1>5, <1>6, <1>7, <1>8, <1>9, <1>10, <1>11, <1>12, <1>13, <1>14
  DEF Compose!Next, Compose!Caller, Compose!Setup, Compose!Listener

\* A step of ComposeSetup keeps its invariant.
LEMMA ComposeStep == ASSUME ComposeInv, Compose!Next PROVE ComposeInv'
  BY ComposeErr, ErrInvStep, ComposePlaces, ComposeFiles, ComposeFlags, ComposePassed
  DEF ComposeInv

\* It holds of a setup that has not begun.
LEMMA ComposeStart == Compose!Init => ComposeInv
<1>. SUFFICES ASSUME Compose!Init PROVE ComposeInv
  OBVIOUS
<1>1. /\ main = "prepare" /\ err = "nil" /\ failed = FALSE /\ overwritten = FALSE
      /\ returned = "none" /\ cTodo = {} /\ at = {} /\ cListener = "off" /\ about = {}
      /\ starts = [s \in Service |-> 0] /\ beenFollowLog = [s \in Service |-> FALSE]
      /\ cWriters = [s \in Service |-> 0] /\ missing = {}
  BY DEF Compose!Init, Compose!ErrInit
<1>2. MaxStarts \in Nat
  BY EnvironmentAssumption DEF EnvironmentAssumption
<1>3. ErrInv
  BY <1>1 DEF ErrInv, ErrTypeOK, Errors
<1>4. PlaceInv
  BY <1>1 DEF PlaceInv
<1>5. FileInv
  BY <1>1, <1>2 DEF FileInv
<1>6. FlagInv
  BY <1>1 DEF FlagInv
<1>7. PassedInv
  BY <1>1 DEF PassedInv, InLoop
<1>. QED
  BY <1>3, <1>4, <1>5, <1>6, <1>7 DEF ComposeInv

-----------------------------------------------------------------------------
(* The steps of Environment.                                               *)

\* The process ends: each setup is as if it had not begun.
LEMMA ExitStarts ==
  ASSUME NEW r, Exit(r)
  PROVE  Kind!Init' /\ Compose!Init' /\ main' = "prepare" /\ UNCHANGED section
  BY DEF Exit, Kind!Init, Kind!ErrInit, Kind!Export, Compose!Init, Compose!ErrInit

\* The section of the environment does not change.
LEMMA SectionStays == [Next]_vars => UNCHANGED <<env, existing>>
<1>. SUFFICES ASSUME [Next]_vars PROVE UNCHANGED section
  BY DEF section
<1>1. ASSUME NEW r, Exit(r) PROVE UNCHANGED section
  BY <1>1, ExitStarts
<1>2. CASE InitLogFollower \/ CreateNodes \/ PrepareKind \/ PrepareCompose \/ SetUp
  BY <1>2 DEF InitLogFollower, CreateNodes, PrepareKind, PrepareCompose, SetUp
<1>3. CASE SetupCommandDone \/ RunSetupDone \/ StagesDone \/ StopSetup
  BY <1>1, <1>3 DEF SetupCommandDone, RunSetupDone, StagesDone, StopSetup, Goto, End
<1>4. CASE NothingToClean \/ DeleteKind \/ RemoveFile \/ DownCompose
  BY <1>1, <1>4 DEF NothingToClean, DeleteKind, DeleteAgain, RemoveFile, DownCompose
<1>5. CASE Kill \/ CleanupCommand
  BY <1>1, <1>5 DEF Kill, End, CleanupCommand
<1>6. CASE BesideKind(Kind!Beside) \/ BesideCompose(Compose!Listener) \/ UNCHANGED vars
  BY <1>6 DEF BesideKind, BesideCompose, vars
<1>. QED
  BY <1>2, <1>3, <1>4, <1>5, <1>6 DEF Next, Command

\* A step of an environment of kind is one of KindSetup, or the process ends,
\* or KindSetup does not see it.
LEMMA KindPart ==
  ASSUME env = "kind", [Next]_vars
  PROVE  Kind!Init' \/ KindNext \/ UNCHANGED <<errVars, kindVars>>
<1>1. ASSUME NEW r, Exit(r) PROVE Kind!Init'
  BY <1>1, ExitStarts
<1>2. CASE UNCHANGED vars
  BY <1>2 DEF vars
<1>3. CASE InitLogFollower \/ CreateNodes
  BY <1>3 DEF InitLogFollower, CreateNodes
<1>4. CASE PrepareKind
  BY <1>4 DEF PrepareKind, KindNext, Kind!Caller
<1>5. CASE SetUp
  BY <1>5 DEF SetUp, KindNext, Kind!Caller
<1>6. CASE SetupCommandDone \/ RunSetupDone \/ StagesDone
  BY <1>1, <1>6 DEF SetupCommandDone, RunSetupDone, StagesDone, Goto, End
<1>7. CASE StopSetup
  BY <1>1, <1>7 DEF StopSetup, KindNext, Kind!Caller, End
<1>8. CASE NothingToClean \/ DeleteKind \/ RemoveFile
  BY <1>1, <1>8 DEF NothingToClean, DeleteKind, DeleteAgain, RemoveFile
<1>9. CASE Kill \/ CleanupCommand
  BY <1>1, <1>9 DEF Kill, End, CleanupCommand
<1>10. CASE BesideKind(Kind!Beside)
  BY <1>10 DEF BesideKind, KindNext
<1>11. ~PrepareCompose /\ ~DownCompose /\ ~BesideCompose(Compose!Listener)
  BY DEF PrepareCompose, DownCompose, BesideCompose
<1>. QED
  BY <1>2, <1>3, <1>4, <1>5, <1>6, <1>7, <1>8, <1>9, <1>10, <1>11 DEF Next, Command

\* The same of compose.
LEMMA ComposePart ==
  ASSUME env = "compose", [Next]_vars
  PROVE  Compose!Init' \/ Compose!Next \/ UNCHANGED <<errVars, composeVars>>
<1>1. ASSUME NEW r, Exit(r) PROVE Compose!Init'
  BY <1>1, ExitStarts
<1>2. CASE UNCHANGED vars
  BY <1>2 DEF vars
<1>3. CASE InitLogFollower
  BY <1>3 DEF InitLogFollower
<1>4. CASE PrepareCompose
  BY <1>4 DEF PrepareCompose, Compose!Next, Compose!Caller
<1>5. CASE SetUp
  BY <1>5 DEF SetUp, Compose!Next, Compose!Caller
<1>6. CASE SetupCommandDone \/ RunSetupDone \/ StagesDone
  BY <1>1, <1>6 DEF SetupCommandDone, RunSetupDone, StagesDone, Goto, End
<1>7. CASE StopSetup
  BY <1>1, <1>7 DEF StopSetup, End
<1>8. CASE NothingToClean \/ RemoveFile \/ DownCompose
  BY <1>1, <1>8 DEF NothingToClean, RemoveFile, DownCompose
<1>9. CASE Kill \/ CleanupCommand
  BY <1>1, <1>9 DEF Kill, End, CleanupCommand
<1>10. CASE BesideCompose(Compose!Listener)
  BY <1>10 DEF BesideCompose, Compose!Next
<1>11. ~CreateNodes /\ ~PrepareKind /\ ~DeleteKind /\ ~BesideKind(Kind!Beside)
  BY DEF CreateNodes, PrepareKind, DeleteKind, BesideKind
<1>. QED
  BY <1>2, <1>3, <1>4, <1>5, <1>6, <1>7, <1>8, <1>9, <1>10, <1>11 DEF Next, Command

\* What another environment does with err: it is refused.
LEMMA OtherPart ==
  ASSUME env = "other", PhaseInv, [Next]_vars
  PROVE  Kind!Init' \/ ErrNext
<1>1. ASSUME NEW r, Exit(r) PROVE Kind!Init'
  BY <1>1, ExitStarts
<1>2. CASE UNCHANGED errVars
  BY <1>2 DEF ErrNext
<1>3. CASE InitLogFollower
  <2>1. main = "prepare" /\ ReturnValue("err")
    BY <1>3 DEF InitLogFollower, PhaseInv
  <2>. QED
    BY <2>1 DEF ErrNext, Early, Errors
<1>4. CASE SetupCommandDone \/ RunSetupDone \/ StagesDone \/ StopSetup
  BY <1>1, <1>2, <1>4
  DEF SetupCommandDone, RunSetupDone, StagesDone, StopSetup, Goto, End
<1>5. CASE NothingToClean \/ RemoveFile \/ Kill \/ CleanupCommand \/ UNCHANGED vars
  BY <1>1, <1>2, <1>5 DEF NothingToClean, RemoveFile, Kill, End, CleanupCommand, vars
<1>6. /\ ~CreateNodes /\ ~PrepareKind /\ ~PrepareCompose /\ ~SetUp
      /\ ~DeleteKind /\ ~DownCompose
      /\ ~BesideKind(Kind!Beside) /\ ~BesideCompose(Compose!Listener)
  BY DEF CreateNodes, PrepareKind, PrepareCompose, SetUp, DeleteKind, DownCompose,
         BesideKind, BesideCompose
<1>. QED
  BY <1>3, <1>4, <1>5, <1>6 DEF Next, Command

\* The goroutines beside the caller leave it where it is.
LEMMA BesideLeavesMain == Kind!Beside \/ Compose!Listener => main' = main
<1>1. CASE Kind!StopListener \/ Compose!SetFlag \/ Compose!StopListener
  BY <1>1 DEF Kind!StopListener, Compose!SetFlag, Compose!StopListener, Kind!errVars,
     Compose!errVars
<1>2. ASSUME NEW i \in Image, Kind!Pull(i) PROVE main' = main
  BY <1>2 DEF Kind!Pull, Kind!errVars
<1>3. ASSUME NEW p \in Pod, Kind!PodEvent(p) \/ Kind!ReadLine(p) PROVE main' = main
  BY <1>3 DEF Kind!PodEvent, Kind!ReadLine, Kind!OverwriteErr, Kind!errVars
<1>4. ASSUME NEW e \in Kind!Export, Kind!Forwarding(e) \/ Kind!EndForward(e) PROVE main' = main
  BY <1>4 DEF Kind!Forwarding, Kind!EndForward, Kind!errVars
<1>5. ASSUME NEW s \in Service, Compose!Started(s) PROVE main' = main
  BY <1>5 DEF Compose!Started, Compose!OverwriteErr
<1>. QED
  BY <1>1, <1>2, <1>3, <1>4, <1>5 DEF Kind!Beside, Compose!Listener

\* A process that ends has left where it was.
LEMMA ExitPhase ==
  ASSUME PhaseInv, NEW r \in {"none", "nil", "err"}, Exit(r),
         command' \in {"either", "setup", "run", "cleanup"},
         cluster' \in {"none", "nodes", "made"}, kubeFile' \in BOOLEAN
  PROVE  PhaseInv'
<1>1. 0 \in 0..(MaxRetry - 1)
  BY EnvironmentAssumption DEF EnvironmentAssumption
<1>2. /\ phase' = "exit" /\ result' = r /\ logs' = "none" /\ deletions' = 0
      /\ UNCHANGED <<env, existing>>
  BY DEF Exit, section
<1>. QED
  BY <1>1, <1>2 DEF PhaseInv

\* The commands: a process that is where it is has what it needs there.
LEMMA PhaseStep == ASSUME PhaseInv, ErrInv, [Next]_vars PROVE PhaseInv'
<1>. USE DEF section, things, cleanVars
<1>1. UNCHANGED <<env, existing>>
  BY SectionStays
<1>2. CASE UNCHANGED vars
  BY <1>2 DEF vars, errVars, PhaseInv
<1>3. ASSUME NEW r \in {"none", "nil", "err"}, Exit(r),
             cluster' \in {"none", cluster}, kubeFile' \in {FALSE, kubeFile},
             command' \in {"either", "setup", "run", "cleanup"}
      PROVE  PhaseInv'
  <2>1. cluster' \in {"none", "nodes", "made"} /\ kubeFile' \in BOOLEAN
    BY <1>3 DEF PhaseInv
  <2>. QED
    BY <1>3, <2>1, ExitPhase
<1>4. ASSUME End PROVE PhaseInv'
  BY <1>3, <1>4 DEF End, PhaseInv
<1>5. CASE InitLogFollower
  BY <1>1, <1>5 DEF InitLogFollower, PhaseInv
<1>6. CASE CreateNodes \/ PrepareKind
  <2>1. cluster' \in {"none", "nodes", "made"} /\ kubeFile' \in BOOLEAN
    BY <1>6 DEF CreateNodes, PrepareKind, PhaseInv
  <2>2. phase = "setup" /\ logs = "open" /\ UNCHANGED <<command, phase, logs, cleanVars>>
    BY <1>6 DEF CreateNodes, PrepareKind, SettingUp
  <2>. QED
    BY <1>1, <2>1, <2>2 DEF PhaseInv
<1>7. CASE PrepareCompose
  <2>1. cluster' \in {"none", "nodes", "made"}
    BY <1>7 DEF PrepareCompose, PhaseInv
  <2>2. /\ phase = "setup" /\ logs = "open"
        /\ UNCHANGED <<kubeFile, command, phase, logs, cleanVars>>
    BY <1>7 DEF PrepareCompose, SettingUp
  <2>. QED
    BY <1>1, <2>1, <2>2 DEF PhaseInv
<1>8. CASE SetUp
  <2>1. phase = "setup" /\ logs = "open" /\ UNCHANGED <<command, phase, things, logs, cleanVars>>
    BY <1>8 DEF SetUp, SettingUp
  <2>. QED
    BY <1>1, <2>1 DEF PhaseInv
<1>9. ASSUME NEW to \in {"stages", "stop"}, Goto(to),
             command' \in {"either", "setup", "run", "cleanup"}
      PROVE  PhaseInv'
  BY <1>9 DEF Goto, PhaseInv
<1>10. CASE SetupCommandDone \/ RunSetupDone
  BY <1>3, <1>9, <1>10 DEF SetupCommandDone, RunSetupDone
<1>11. CASE StagesDone
  <2>1. command' = command
    BY <1>11 DEF StagesDone, End
  <2>2. command' \in {"either", "setup", "run", "cleanup"}
    BY <2>1 DEF PhaseInv
  <2>. QED
    BY <1>4, <1>9, <1>11, <2>2 DEF StagesDone
<1>12. CASE StopSetup
  <2>1. CASE End
    BY <1>4, <2>1
  <2>2. ASSUME phase = "stop", logs' \in {"closed", logs},
               UNCHANGED <<command, phase, things, cleanVars>>
        PROVE  PhaseInv'
    BY <1>1, <2>2 DEF PhaseInv
  <2>3. ASSUME env = "kind" => main = "ended", phase' = "cleanup", logs' = "closed",
               UNCHANGED <<errVars, command, things, cleanVars>>
        PROVE  PhaseInv'
    BY <1>1, <2>3 DEF errVars, PhaseInv
  <2>. QED
    BY <1>12, <2>1, <2>2, <2>3 DEF StopSetup
<1>13. CASE NothingToClean \/ RemoveFile \/ DownCompose
  <2>1. PICK r \in {"nil", "err"} : Exit(r)
    BY <1>13 DEF NothingToClean, RemoveFile, DownCompose
  <2>2. cluster' \in {"none", cluster} /\ kubeFile' \in {FALSE, kubeFile}
    BY <1>13 DEF NothingToClean, RemoveFile, DownCompose
  <2>3. command' \in {"either", "setup", "run", "cleanup"}
    BY <1>13 DEF NothingToClean, RemoveFile, DownCompose, PhaseInv
  <2>. QED
    BY <1>3, <2>1, <2>2, <2>3
<1>14. CASE DeleteKind
  <2>1. phase = "cleanup" /\ command' = command
    BY <1>14 DEF DeleteKind
  <2>2. ASSUME phase' = "remove", cluster' = "none",
               UNCHANGED <<errVars, kubeFile, logs, cleanVars>>
        PROVE  PhaseInv'
    BY <1>1, <2>1, <2>2 DEF PhaseInv, errVars
  <2>3. ASSUME deletions + 1 # MaxRetry, deletions' = deletions + 1,
               UNCHANGED <<errVars, phase, logs, result, things>>
        PROVE  PhaseInv'
    <3>1. deletions' \in 0..(MaxRetry - 1)
      BY <2>3, EnvironmentAssumption DEF PhaseInv, EnvironmentAssumption
    <3>. QED
      BY <1>1, <2>1, <2>3, <3>1 DEF PhaseInv, errVars
  <2>4. ASSUME Exit("err"), UNCHANGED things PROVE PhaseInv'
    BY <1>3, <2>1, <2>4 DEF PhaseInv
  <2>. QED
    BY <1>14, <2>2, <2>3, <2>4 DEF DeleteKind, DeleteAgain
<1>15. CASE Kill
  BY <1>4, <1>15 DEF Kill
<1>16. CASE CleanupCommand
  BY <1>1, <1>16 DEF CleanupCommand, PhaseInv
<1>17. CASE BesideKind(Kind!Beside) \/ BesideCompose(Compose!Listener)
  <2>1. main' = main /\ UNCHANGED <<command, phase, things, logs, cleanVars>>
    BY <1>17, BesideLeavesMain DEF BesideKind, BesideCompose
  <2>. QED
    BY <1>1, <2>1 DEF PhaseInv
<1>. QED
  BY <1>2, <1>5, <1>6, <1>7, <1>8, <1>10, <1>11, <1>12, <1>13, <1>14, <1>15, <1>16, <1>17
  DEF Next, Command

\* Of a kind setup only Prepare is at its preparation, and the goroutines
\* neither move the caller nor bind the forwards.
LEMMA KindPlaces ==
  /\ Kind!Setup => main \notin {"prepare", "done"} /\ main' # "prepare"
  /\ Kind!Notify \/ Kind!Drain => main' # "prepare" /\ bound' = bound
  /\ Kind!Beside => UNCHANGED <<main, bound, returned>>
<1>. USE DEF Kind!Goto, Kind!AssignErr
<1>1. ASSUME Kind!Setup PROVE main \notin {"prepare", "done"} /\ main' # "prepare"
  <2>1. CASE Kind!TestErr
    BY <2>1 DEF Kind!TestErr, Kind!CheckErr, Kind!ReturnErr, Kind!Next_of
  <2>2. CASE Kind!Pulled \/ Kind!RunSteps \/ Kind!ListPods
    BY <2>2 DEF Kind!Pulled, Kind!RunSteps, Kind!ListPods, Kind!ReturnValue
  <2>3. CASE Kind!ExposeLogs
    BY <2>3 DEF Kind!ExposeLogs, Kind!errVars
  <2>4. CASE Kind!StartForward \/ Kind!AwaitForward \/ Kind!Bind
    BY <2>4 DEF Kind!StartForward, Kind!AwaitForward, Kind!Bind
  <2>. QED
    BY <1>1, <2>1, <2>2, <2>3, <2>4 DEF Kind!Setup
<1>2. ASSUME Kind!Notify \/ Kind!Drain PROVE main' # "prepare" /\ bound' = bound
  BY <1>2 DEF Kind!Notify, Kind!Drain, Kind!forwardVars
<1>3. ASSUME Kind!Beside PROVE UNCHANGED <<main, bound, returned>>
  <2>. USE DEF Kind!errVars, Kind!forwardVars
  <2>1. CASE Kind!StopListener \/ \E i \in Image : Kind!Pull(i)
    BY <2>1 DEF Kind!StopListener, Kind!Pull
  <2>2. ASSUME NEW p \in Pod, Kind!PodEvent(p) \/ Kind!ReadLine(p)
        PROVE  UNCHANGED <<main, bound, returned>>
    BY <2>2 DEF Kind!PodEvent, Kind!ReadLine, Kind!OverwriteErr
  <2>3. ASSUME NEW e \in Kind!Export, Kind!Forwarding(e) \/ Kind!EndForward(e)
        PROVE  UNCHANGED <<main, bound, returned>>
    BY <2>3 DEF Kind!Forwarding, Kind!EndForward
  <2>. QED
    BY <1>3, <2>1, <2>2, <2>3 DEF Kind!Beside
<1>. QED
  BY <1>1, <1>2, <1>3

\* A cluster is made in whole before it is used, and its file outlives it.
LEMMA MadeStep == ASSUME PhaseInv, ErrInv, MadeInv, [Next]_vars PROVE MadeInv'
<1>. USE DEF section, things
<1>1. UNCHANGED <<env, existing>>
  BY SectionStays
<1>. SUFFICES ASSUME env = "kind" PROVE MadeInv'
  BY <1>1 DEF MadeInv
<1>2. /\ existing => cluster = "none"
      /\ main = "prepare" => ~bound
      /\ phase = "setup" /\ ~existing =>
           /\ main \notin {"prepare", "done"} \/ bound => cluster = "made"
           /\ returned = "nil" => cluster # "nodes"
      /\ phase = "remove" => cluster = "none"
      /\ FileOutlivesCluster
  BY DEF MadeInv
<1>3. ASSUME NEW r, Exit(r), cluster' = cluster, cluster = "made" => kubeFile'
      PROVE  MadeInv'
  <2>1. phase' = "exit" /\ bound' = FALSE
    BY <1>3 DEF Exit
  <2>. QED
    BY <1>1, <1>2, <1>3, <2>1 DEF MadeInv, FileOutlivesCluster
<1>4. ASSUME NEW r, Exit(r), UNCHANGED things PROVE MadeInv'
  BY <1>2, <1>3, <1>4 DEF FileOutlivesCluster
<1>5. CASE UNCHANGED vars
  <2>1. UNCHANGED <<phase, cluster, kubeFile, main, returned, bound>>
    BY <1>5 DEF vars, errVars, kindVars
  <2>. QED
    BY <1>1, <1>2, <2>1 DEF MadeInv, FileOutlivesCluster
<1>6. CASE InitLogFollower
  <2>1. UNCHANGED <<phase, cluster, kubeFile, main, returned, bound>>
    BY <1>6 DEF InitLogFollower, errVars, kindVars
  <2>. QED
    BY <1>1, <1>2, <2>1 DEF MadeInv, FileOutlivesCluster
<1>7. CASE CreateNodes
  <2>1. /\ phase = "setup" /\ main = "prepare" /\ ~existing /\ cluster' = "nodes"
        /\ UNCHANGED <<phase, kubeFile, main, returned, bound>>
    BY <1>7 DEF CreateNodes, SettingUp, errVars, kindVars
  <2>2. returned = "none"
    BY <2>1 DEF ErrInv
  <2>. QED
    BY <1>1, <1>2, <2>1, <2>2 DEF MadeInv, FileOutlivesCluster
<1>8. CASE PrepareKind
  <2>1. /\ phase = "setup" /\ phase' = phase /\ main = "prepare" /\ returned = "none"
        /\ ~bound /\ bound' = bound /\ main' # "prepare"
        /\ returned' # "none" => main' = "done"
    BY <1>2, <1>8 DEF PrepareKind, SettingUp, Kind!Prepare, Kind!ReturnValue, Kind!Goto,
       Kind!forwardVars, ErrInv
  <2>2. \/ /\ returned' = "none"
           /\ IF existing THEN UNCHANGED <<cluster, kubeFile>>
              ELSE cluster' = "made" /\ kubeFile' = TRUE
        \/ returned' = "nil" /\ cluster = "none" /\ UNCHANGED <<cluster, kubeFile>>
        \/ returned' = "err" /\ cluster' \in {"none", cluster} /\ UNCHANGED kubeFile
        \/ /\ returned' = "err" /\ cluster = "nodes" /\ cluster' = "made"
           /\ kubeFile' = TRUE
    BY <1>8 DEF PrepareKind
  <2>. QED
    BY <1>1, <1>2, <2>1, <2>2 DEF MadeInv, FileOutlivesCluster
<1>9. CASE SetUp
  <2>1. phase = "setup" /\ UNCHANGED <<phase, cluster, kubeFile>> /\ Kind!Setup
    BY <1>9 DEF SetUp, SettingUp
  <2>2. main \notin {"prepare", "done"} /\ main' # "prepare"
    BY <2>1, KindPlaces
  <2>. QED
    BY <1>1, <1>2, <2>1, <2>2 DEF MadeInv, FileOutlivesCluster
<1>10. ASSUME NEW to \in {"stages", "stop"}, Goto(to), phase \in {"setup", "stages"},
              phase = "setup" /\ to = "stages" => returned = "nil"
       PROVE  MadeInv'
  <2>1. phase' = to /\ UNCHANGED <<cluster, kubeFile, main, returned, bound>>
    BY <1>10 DEF Goto, errVars, kindVars
  <2>. QED
    BY <1>1, <1>2, <1>10, <2>1 DEF MadeInv, FileOutlivesCluster
<1>11. CASE SetupCommandDone \/ RunSetupDone
  BY <1>4, <1>10, <1>11 DEF SetupCommandDone, RunSetupDone, SettingUp
<1>12. CASE StagesDone
  BY <1>4, <1>10, <1>12 DEF StagesDone, End
<1>13. CASE StopSetup
  <2>1. CASE End
    BY <1>4, <2>1 DEF End
  <2>2. ASSUME phase = "stop", Kind!Notify \/ Kind!Drain, UNCHANGED <<phase, things>>
        PROVE  MadeInv'
    BY <1>1, <1>2, <2>2, KindPlaces DEF MadeInv, FileOutlivesCluster
  <2>3. ASSUME phase' = "cleanup", UNCHANGED <<errVars, kindVars, things>>
        PROVE  MadeInv'
    <3>1. UNCHANGED <<cluster, kubeFile, main, returned, bound>>
      BY <2>3 DEF errVars, kindVars
    <3>. QED
      BY <1>1, <1>2, <2>3, <3>1 DEF MadeInv, FileOutlivesCluster
  <2>. QED
    BY <1>13, <2>1, <2>2, <2>3 DEF StopSetup
<1>14. CASE NothingToClean \/ RemoveFile
  BY <1>2, <1>3, <1>4, <1>14 DEF NothingToClean, RemoveFile
<1>15. CASE DeleteKind
  <2>1. ASSUME phase' = "remove", cluster' = "none", UNCHANGED <<errVars, kindVars, kubeFile>>
        PROVE  MadeInv'
    <3>1. UNCHANGED <<main, returned, bound>>
      BY <2>1 DEF errVars, kindVars
    <3>. QED
      BY <1>1, <1>2, <2>1, <3>1 DEF MadeInv, FileOutlivesCluster
  <2>2. ASSUME phase = "cleanup", UNCHANGED <<errVars, kindVars, phase, things>>
        PROVE  MadeInv'
    <3>1. UNCHANGED <<cluster, kubeFile, main, returned, bound>>
      BY <2>2 DEF errVars, kindVars
    <3>. QED
      BY <1>1, <1>2, <2>2, <3>1 DEF MadeInv, FileOutlivesCluster
  <2>. QED
    BY <1>4, <1>15, <2>1, <2>2 DEF DeleteKind, DeleteAgain
<1>16. CASE Kill
  BY <1>4, <1>16 DEF Kill, End
<1>17. CASE CleanupCommand
  <2>1. phase' = "cleanup" /\ UNCHANGED <<cluster, kubeFile, main, returned, bound>>
    BY <1>17 DEF CleanupCommand, errVars, kindVars
  <2>. QED
    BY <1>1, <1>2, <2>1 DEF MadeInv, FileOutlivesCluster
<1>18. CASE BesideKind(Kind!Beside)
  <2>1. UNCHANGED <<phase, cluster, kubeFile, main, returned, bound>>
    BY <1>18, KindPlaces DEF BesideKind
  <2>. QED
    BY <1>1, <1>2, <2>1 DEF MadeInv, FileOutlivesCluster
<1>19. ~PrepareCompose /\ ~DownCompose /\ ~BesideCompose(Compose!Listener)
  BY DEF PrepareCompose, DownCompose, BesideCompose
<1>. QED
  BY <1>5, <1>6, <1>7, <1>8, <1>9, <1>11, <1>12, <1>13, <1>14, <1>15, <1>16, <1>17, <1>18,
     <1>19 DEF Next, Command

\* What is known of err stays true over the commands.
LEMMA EnvErrStep == ASSUME EnvInv, [Next]_vars PROVE ErrInv'
<1>0. EnvInv
  OBVIOUS
<1>1. env \in {"kind", "compose", "other"} /\ PhaseInv /\ ErrInv
  BY DEF EnvInv, PhaseInv
<1>2. Kind!Init' => ErrInv'
  BY DEF Kind!Init, Kind!ErrInit, ErrInv, ErrTypeOK, Errors
<1>3. Compose!Init' => ErrInv'
  BY DEF Compose!Init, Compose!ErrInit, ErrInv, ErrTypeOK, Errors
<1>4. UNCHANGED errVars => ErrNext
  BY DEF ErrNext
<1>5. ErrNext => ErrInv'
  BY <1>1, ErrInvStep
<1>6. CASE env = "kind"
  <2>1. Kind!Init' \/ KindNext \/ UNCHANGED errVars
    BY <1>6, KindPart
  <2>. QED
    BY <1>2, <1>4, <1>5, <2>1, KindErr
<1>7. CASE env = "compose"
  <2>1. Compose!Init' \/ Compose!Next \/ UNCHANGED errVars
    BY <1>7, ComposePart
  <2>. QED
    BY <1>3, <1>4, <1>5, <2>1, ComposeErr
<1>8. CASE env = "other"
  BY <1>1, <1>2, <1>5, <1>8, OtherPart
<1>. QED
  BY <1>1, <1>6, <1>7, <1>8

\* KindSetup keeps its invariant when it does not move.
LEMMA KindStays == ASSUME KindInv, UNCHANGED <<errVars, kindVars>> PROVE KindInv'
<1>1. /\ UNCHANGED <<main, err, stage, failed, overwritten, returned>>
      /\ UNCHANGED <<pull, count, listener, events, todo, following, writers>>
      /\ UNCHANGED <<export, forward, reported, finished, bound, stopped>>
  BY DEF errVars, kindVars
<1>2. ErrInv' /\ PullInv' /\ LogInv'
  BY <1>1 DEF KindInv, ErrInv, ErrTypeOK, Early, PullInv, LogInv, MayExposeLog
<1>3. ForwardInv'
  BY <1>1 DEF KindInv, ForwardInv, BeforeNextForward
<1>4. Kind!TypeOK'
  BY <1>1 DEF KindInv, Kind!Inv, Kind!TypeOK, Kind!ErrTypeOK
<1>5. Kind!CountsAreTrue'
  BY <1>1 DEF KindInv, Kind!Inv, Kind!CountsAreTrue
<1>6. Kind!OkMeansReady' /\ Kind!NoForwardLeft'
  BY <1>1 DEF KindInv, Kind!OkMeansReady, Kind!NoForwardLeft
<1>. QED
  BY <1>2, <1>3, <1>4, <1>5, <1>6 DEF KindInv, Kind!Inv

\* ComposeSetup keeps its invariant when it does not move.
LEMMA ComposeStays == ASSUME ComposeInv, UNCHANGED <<errVars, composeVars>> PROVE ComposeInv'
<1>1. /\ UNCHANGED <<main, err, stage, failed, overwritten, returned>>
      /\ UNCHANGED <<cTodo, at, cListener, about, starts, beenFollowLog, cWriters, missing>>
  BY DEF errVars, composeVars
<1>2. ErrInv' /\ PlaceInv'
  BY <1>1 DEF ComposeInv, ErrInv, ErrTypeOK, Early, PlaceInv
<1>3. FileInv' /\ FlagInv'
  BY <1>1 DEF ComposeInv, FileInv, MayFollow, FlagInv, NotPastLoop, InLoop
<1>4. PassedInv'
  BY <1>1 DEF ComposeInv, PassedInv, InLoop, AllFollowed, IsFollowed
<1>. QED
  BY <1>2, <1>3, <1>4 DEF ComposeInv

\* What the invariant of ComposeSetup is for.
LEMMA ComposeMeans == ComposeInv => Compose!Inv /\ Compose!EveryLogFollowed
<1>. SUFFICES ASSUME ComposeInv PROVE Compose!Inv /\ Compose!EveryLogFollowed
  OBVIOUS
<1>1. ErrInv /\ PlaceInv /\ FileInv /\ FlagInv /\ PassedInv
  BY DEF ComposeInv
<1>2. \A s \in Service : cWriters[s] \in 0..(starts[s] + 1)
  BY <1>1, EnvironmentAssumption DEF FileInv, EnvironmentAssumption
<1>3. Compose!ErrTypeOK
  BY <1>1 DEF ErrInv, ErrTypeOK, Errors, Compose!ErrTypeOK, Compose!Errors
<1>4. Compose!TypeOK
  BY <1>1, <1>2, <1>3, Zenon DEF PlaceInv, FileInv, Compose!TypeOK
<1>5. Compose!FlagIsTrue
  BY <1>1 DEF FlagInv, NotPastLoop, InLoop, Compose!FlagIsTrue
<1>6. Compose!EveryLogFollowed
  BY <1>1 DEF PassedInv, AllFollowed, IsFollowed, Compose!EveryLogFollowed
<1>. QED
  BY <1>4, <1>5, <1>6 DEF Compose!Inv

\* The invariant is inductive.
LEMMA EnvStep == ASSUME EnvInv, [Next]_vars PROVE EnvInv'
<1>1. EnvInv
  OBVIOUS
<1>2. PhaseInv'
  BY PhaseStep DEF EnvInv
<1>3. ErrInv'
  BY EnvErrStep
<1>4. env' = env
  BY SectionStays
<1>5. ASSUME env = "kind" PROVE KindInv'
  <2>1. KindInv
    BY <1>1, <1>5 DEF EnvInv
  <2>2. Kind!Init' => KindInv'
    BY KindStart, PTL
  <2>. QED
    BY <1>5, <2>1, <2>2, KindPart, KindStep, KindStays
<1>6. ASSUME env = "compose" PROVE ComposeInv'
  <2>1. ComposeInv
    BY <1>1, <1>6 DEF EnvInv
  <2>2. Compose!Init' => ComposeInv'
    BY ComposeStart, PTL
  <2>. QED
    BY <1>6, <2>1, <2>2, ComposePart, ComposeStep, ComposeStays
<1>7. MadeInv'
  BY <1>1, MadeStep DEF EnvInv
<1>. QED
  BY <1>2, <1>3, <1>4, <1>5, <1>6, <1>7 DEF EnvInv

\* It holds of every state of every process.
LEMMA EnvInvHolds == Spec => []EnvInv
<1>1. Init => EnvInv
  <2>. SUFFICES ASSUME Init PROVE EnvInv
    OBVIOUS
  <2>1. KindInv /\ ComposeInv
    BY KindStart, ComposeStart DEF Init
  <2>2. main = "prepare"
    BY DEF Init, Kind!Init, Kind!ErrInit
  <2>3. 0 \in 0..(MaxRetry - 1)
    BY EnvironmentAssumption DEF EnvironmentAssumption
  <2>4. PhaseInv
    BY <2>2, <2>3 DEF Init, PhaseInv
  <2>5. MadeInv
    BY <2>2 DEF Init, Kind!Init, Kind!ErrInit, MadeInv, FileOutlivesCluster
  <2>. QED
    BY <2>1, <2>4, <2>5 DEF EnvInv, KindInv
<1>2. EnvInv /\ [Next]_vars => EnvInv'
  BY EnvStep
<1>. QED
  BY <1>1, <1>2, PTL DEF Spec

-----------------------------------------------------------------------------
(* What it is for.                                                         *)

\* Whatever the goroutines of a setup do, and whenever a process is killed,
\* the variables keep their types, no log file is created more often than
\* containers have started, no flag is believed that no follower stands
\* behind, and both counts the callers wait for are those of what was done.
THEOREM InvHolds == Spec => []Inv
<1>1. EnvInv => Inv
  <2>. SUFFICES ASSUME EnvInv PROVE Inv
    OBVIOUS
  <2>1. PhaseInv
    BY DEF EnvInv
  <2>2. deletions \in 0..MaxRetry
    BY <2>1, EnvironmentAssumption DEF PhaseInv, EnvironmentAssumption
  <2>3. env = "kind" => Kind!Inv
    BY DEF EnvInv, KindInv
  <2>4. env = "compose" => Compose!Inv
    BY ComposeMeans DEF EnvInv
  <2>. QED
    BY <2>1, <2>2, <2>3, <2>4 DEF PhaseInv, Inv
<1>. QED
  BY <1>1, EnvInvHolds, PTL

\* The setup fails exactly when one of its stages has, unless the listener has
\* assigned the shared err between a stage and its last test.
THEOREM SetupReturnsItsOwn == Spec => []ReturnsItsOwn
<1>1. EnvInv => ReturnsItsOwn
  BY DEF EnvInv, ErrInv, ReturnsItsOwn
<1>. QED
  BY <1>1, EnvInvHolds, PTL

\* A setup that returns no error has set its environment up: every image was
\* there before the steps, every port is forwarded and can be stopped; every
\* service of a compose file whose container was found has its log followed.
THEOREM SetupOkMeansReady == Spec => []OkMeansReady
<1>1. EnvInv => OkMeansReady
  BY ComposeMeans DEF EnvInv, KindInv, OkMeansReady
<1>. QED
  BY <1>1, EnvInvHolds, PTL

\* Nothing is deleted while a goroutine still forwards a port of the cluster,
\* or while the log follower of run is open.
THEOREM CleanupLeavesNoForward == Spec => []NoForwardLeft
<1>1. EnvInv => NoForwardLeft
  BY DEF EnvInv, PhaseInv, KindInv, NoForwardLeft
<1>. QED
  BY <1>1, EnvInvHolds, PTL

\* A kind cluster that was made in whole has its kubeconfig file, whichever
\* deletion failed and whenever a process was killed; and what a creation that
\* was cut short has left is used by no setup and by no stage of run.
THEOREM FileIsKept == Spec => []FileOutlivesCluster
<1>1. EnvInv => FileOutlivesCluster
  BY DEF EnvInv, MadeInv, FileOutlivesCluster
<1>. QED
  BY <1>1, EnvInvHolds, PTL

-----------------------------------------------------------------------------
(* Whom a kind setup waits for.                                            *)

\* The forward that is waited for has been started, one that was refused has
\* reported it, and what is counted at the end has been told to stop.
AwaitInv ==
  /\ main = "ready" => forward[export] # "none"
  /\ \A e \in Kind!Export : forward[e] = "refused" => e \in reported
  /\ main = "drain" => bound /\ stopped

\* Where the caller waits for its forwards, the message it waits for is there
\* or a goroutine that will send it: of the export it is at, and at the end,
\* as long as a message is missing, of a forward that is told to stop.
WaitsForForwards ==
  env = "kind" =>
    /\ main = "ready" =>
         forward[export] \in {"starting", "ready", "ended"} \/ export \in reported
    /\ main = "drain" /\ finished < NumExports =>
         stopped /\ \E e \in Kind!Export : forward[e] = "ready"

\* A step of KindSetup keeps who is waited for.
LEMMA KindAwaits == ASSUME KindInv, AwaitInv, KindNext PROVE AwaitInv'
<1>1. /\ AwaitInv /\ export \in 1..(NumExports + 1) /\ NumExports \in Nat
      /\ forward \in [Kind!Export -> {"none", "starting", "ready", "refused", "ended"}]
      /\ main = "ready" => export \in Kind!Export
  BY EnvironmentAssumption
  DEF EnvironmentAssumption, KindInv, Kind!Inv, Kind!TypeOK, ForwardInv
<1>2. ASSUME UNCHANGED <<export, forward, reported, bound, stopped>>,
             main' \in {"ready", "drain"} => main' = main
      PROVE  AwaitInv'
  BY <1>1, <1>2 DEF AwaitInv, Kind!Export
<1>3. CASE Kind!Prepare \/ Kind!Pulled \/ Kind!RunSteps \/ Kind!ListPods \/ Kind!ExposeLogs
  BY <1>2, <1>3 DEF Kind!Prepare, Kind!Pulled, Kind!RunSteps, Kind!ListPods, Kind!ExposeLogs,
     Kind!ReturnValue, Kind!AssignErr, Kind!Goto, Kind!errVars, Kind!forwardVars
<1>4. CASE Kind!TestErr
  BY <1>2, <1>4 DEF Kind!TestErr, Kind!CheckErr, Kind!ReturnErr, Kind!Next_of, Kind!forwardVars
<1>5. CASE Kind!StartForward
  <2>1. export \in Kind!Export /\ UNCHANGED <<export, reported, bound, stopped>>
    BY <1>1, <1>5 DEF Kind!StartForward, Kind!Export
  <2>2. CASE Kind!AssignErr("forward", "err") /\ UNCHANGED forward
    BY <1>2, <2>1, <2>2 DEF Kind!AssignErr
  <2>3. CASE Kind!Goto("ready") /\ forward' = [forward EXCEPT ![export] = "starting"]
    BY <1>1, <2>1, <2>3 DEF AwaitInv, Kind!Goto, Kind!Export
  <2>. QED
    BY <1>5, <2>2, <2>3 DEF Kind!StartForward
<1>6. CASE Kind!AwaitForward \/ Kind!Bind
  <2>1. UNCHANGED <<forward, reported>> /\ main' \notin {"ready", "drain"}
    BY <1>6 DEF Kind!AwaitForward, Kind!Bind, Kind!AssignErr, Kind!Goto
  <2>. QED
    BY <1>1, <2>1 DEF AwaitInv, Kind!Export
<1>7. CASE Kind!Notify
  <2>1. bound \in BOOLEAN
    BY DEF KindInv, Kind!Inv, Kind!TypeOK
  <2>2. UNCHANGED <<forward, reported, bound>> /\ main' # "ready"
        /\ (main' = "drain" => bound) /\ stopped' = bound
    BY <1>7 DEF Kind!Notify, Kind!Goto
  <2>. QED
    BY <1>1, <2>1, <2>2 DEF AwaitInv, Kind!Export
<1>8. CASE Kind!Drain
  BY <1>2, <1>8 DEF Kind!Drain, Kind!Goto, Kind!forwardVars
<1>9. CASE Kind!StopListener \/ \E i \in Image : Kind!Pull(i)
  BY <1>2, <1>9 DEF Kind!StopListener, Kind!Pull, Kind!errVars, Kind!forwardVars
<1>10. ASSUME NEW p \in Pod, Kind!PodEvent(p) \/ Kind!ReadLine(p) PROVE AwaitInv'
  BY <1>2, <1>10 DEF Kind!PodEvent, Kind!ReadLine, Kind!OverwriteErr, Kind!errVars,
     Kind!forwardVars
<1>11. ASSUME NEW e \in Kind!Export, Kind!Forwarding(e) \/ Kind!EndForward(e)
       PROVE  AwaitInv'
  <2>1. /\ forward'[e] \in {"ready", "refused", "ended"}
        /\ forward'[e] = "refused" => e \in reported'
        /\ \A d \in Kind!Export : d # e => forward'[d] = forward[d]
        /\ reported \subseteq reported'
        /\ UNCHANGED <<main, export, bound, stopped>>
    BY <1>1, <1>11 DEF Kind!Forwarding, Kind!EndForward, Kind!errVars
  <2>. QED
    BY <1>1, <2>1 DEF AwaitInv, Kind!Export
<1>. QED
  BY <1>3, <1>4, <1>5, <1>6, <1>7, <1>8, <1>9, <1>10, <1>11
  DEF KindNext, Kind!Caller, Kind!Setup, Kind!Beside

\* A message that is missing at the end is that of a forward that goes on.
LEMMA SomeForwardGoesOn ==
  ASSUME KindInv, bound, finished < NumExports
  PROVE  \E e \in Kind!Export : forward[e] = "ready"
<1>1. /\ NumExports \in Nat /\ IsFiniteSet(Kind!Export)
      /\ Cardinality(Kind!Export) = NumExports
  BY EnvironmentAssumption, FS_Interval DEF EnvironmentAssumption, Kind!Export
<1>2. finished = Cardinality(Over)
  BY CountsOf DEF KindInv, Kind!Inv
<1>3. Over # Kind!Export
  <2>1. finished \in Nat
    BY <1>2, CountsOf, FS_CardinalityType
  <2>. QED
    BY <1>1, <1>2, <2>1
<1>4. PICK e \in Kind!Export : forward[e] \notin {"refused", "ended"}
  BY <1>3 DEF Over
<1>. QED
  BY <1>4, BoundIsReady

\* Neither the setup nor its clean-up waits for a forward that is not there:
\* the safety part of EnvironmentEnds.
THEOREM NoForwardIsWaitedForInVain == Spec => []WaitsForForwards
<1>. DEFINE Awaits == env = "kind" => AwaitInv
<1>1. Kind!Init => AwaitInv
  BY DEF Kind!Init, Kind!ErrInit, AwaitInv
<1>2. Init => Awaits
  BY <1>1 DEF Init
<1>3. EnvInv /\ Awaits /\ [Next]_vars => Awaits'
  <2>. SUFFICES ASSUME EnvInv, Awaits, [Next]_vars, env' = "kind" PROVE AwaitInv'
    OBVIOUS
  <2>1. env = "kind" /\ KindInv /\ AwaitInv
    BY SectionStays DEF EnvInv
  <2>2. Kind!Init' => AwaitInv'
    BY <1>1, PTL
  <2>3. ASSUME UNCHANGED <<errVars, kindVars>> PROVE AwaitInv'
    BY <2>1, <2>3 DEF errVars, kindVars, AwaitInv
  <2>. QED
    BY <2>1, <2>2, <2>3, KindPart, KindAwaits
<1>4. EnvInv /\ Awaits => WaitsForForwards
  <2>. SUFFICES ASSUME EnvInv, Awaits, env = "kind"
                PROVE  /\ main = "ready" => \/ forward[export] \in {"starting", "ready", "ended"}
                                            \/ export \in reported
                       /\ main = "drain" /\ finished < NumExports =>
                            stopped /\ \E e \in Kind!Export : forward[e] = "ready"
    BY DEF WaitsForForwards
  <2>1. KindInv /\ AwaitInv
    BY DEF EnvInv
  <2>2. main = "ready" => \/ forward[export] \in {"starting", "ready", "ended"}
                          \/ export \in reported
    BY <2>1 DEF AwaitInv, KindInv, ForwardInv, Kind!Inv, Kind!TypeOK
  <2>3. main = "drain" /\ finished < NumExports =>
          stopped /\ \E e \in Kind!Export : forward[e] = "ready"
    BY <2>1, SomeForwardGoesOn DEF AwaitInv
  <2>. QED
    BY <2>2, <2>3
<1>. QED
  BY <1>2, <1>3, <1>4, EnvInvHolds, PTL DEF Spec

=============================================================================

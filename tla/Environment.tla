---------------------------- MODULE Environment ----------------------------
(***************************************************************************)
(* The life of an environment over the commands that make and remove it:   *)
(* commands/setup/setup.go and the clean-up of run.go make it, by          *)
(* KindSetup or ComposeSetup, and stop its forwarded ports;                *)
(* commands/cleanup and internal/components/cleanup remove it, at the end  *)
(* of run, or from a second process, the cleanup command, which knows      *)
(* nothing of the first but what it has left: the cluster or containers,   *)
(* and the kubeconfig file.  A process may be killed at any moment: no     *)
(* command handles the signal that ends it.                                *)
(***************************************************************************)
EXTENDS Integers, FiniteSets, SetupErr

CONSTANTS Service, MaxStarts,               \* of ComposeSetup
          Image, Pod, NumExports, MaxEvents,   \* of KindSetup
          MaxRetry                          \* deletions of a kind cluster, 5

ASSUME EnvironmentAssumption ==
  /\ MaxStarts \in Nat /\ NumExports \in Nat /\ MaxEvents \in Nat
  /\ IsFiniteSet(Image) /\ MaxRetry \in Nat \ {0}

VARIABLES
  ports, cTodo, at, cListener, about, starts, beenFollowLog, cWriters, missing,
  pull, count, listener, events, todo, following, writers,
  export, forward, reported, finished, bound, stopped

composeVars == <<ports, cTodo, at, cListener, about, starts, beenFollowLog,
                 cWriters, missing>>
kindVars == <<pull, count, listener, events, todo, following, writers,
              export, forward, reported, finished, bound, stopped>>

Kind == INSTANCE KindSetup
Compose == INSTANCE ComposeSetup
             WITH listener <- cListener, todo <- cTodo, writers <- cWriters

VARIABLES
  env,        \* setup.env, fixed
  existing,   \* setup.kubeconfig names a cluster that is there, fixed
  command,    \* of the process: "setup", "run", "either" until these differ,
              \* or "cleanup"
  phase,      \* the part of it that runs
  cluster,    \* the kind cluster or the containers made here: "none", the
              \* "nodes" of a cluster whose creation goes on or was cut short,
              \* or "made"
  kubeFile,   \* the kubeconfig file of that cluster is there
  logs,       \* the log follower is "none", "open" or "closed"
  deletions,  \* deletions of the cluster tried by this process
  result      \* of DoCleanupAccordingE2E: "none", "nil" or "err"

section == <<env, existing>>
things == <<cluster, kubeFile>>
cleanVars == <<deletions, result>>
vars == <<errVars, composeVars, kindVars, section, command, phase, things, logs,
          cleanVars>>

Init ==
  /\ env \in {"kind", "compose", "other"}
  /\ existing \in BOOLEAN /\ (existing => env = "kind")
  /\ Kind!Init /\ Compose!Init /\ (env # "compose" => ports = {})
  /\ logs = "none" /\ deletions = 0 /\ result = "none"
  /\ command = "either" /\ phase = "setup"
  /\ cluster = "none" /\ kubeFile = FALSE

\* The process ends, with a result of the clean-up; what it knows is gone.
Exit(r) ==
  /\ phase' = "exit" /\ result' = r
  /\ main' = "prepare" /\ err' = "nil" /\ stage' = "prepare" /\ failed' = FALSE
  /\ overwritten' = FALSE /\ returned' = "none"
  /\ ports' = {} /\ cTodo' = {} /\ at' = {} /\ cListener' = "off" /\ about' = {}
  /\ starts' = [s \in Service |-> 0] /\ missing' = {}
  /\ beenFollowLog' = [s \in Service |-> FALSE] /\ cWriters' = [s \in Service |-> 0]
  /\ pull' = [i \in Image |-> "none"] /\ count' = 0
  /\ listener' = "off" /\ events' = [p \in Pod |-> 0] /\ todo' = {}
  /\ following' = {} /\ writers' = [p \in Pod |-> 0]
  /\ export' = 1 /\ forward' = [e \in 1..NumExports |-> "none"] /\ reported' = {}
  /\ finished' = 0 /\ bound' = FALSE /\ stopped' = FALSE
  /\ logs' = "none" /\ deletions' = 0
  /\ UNCHANGED section

End == Exit("none") /\ UNCHANGED <<things, command>>

-----------------------------------------------------------------------------
(* DoSetupAccordingE2E.                                                    *)

\* The follower is there for every environment, also for none.
InitLogFollower ==
  /\ phase = "setup" /\ logs = "none" /\ logs' = "open"
  /\ IF env = "other" THEN ReturnValue("err") ELSE UNCHANGED errVars
  /\ UNCHANGED <<composeVars, kindVars, section, command, phase, things, cleanVars>>

SettingUp == phase = "setup" /\ logs = "open"

\* KindSetup makes the cluster when there is none to join.  kind creates its
\* nodes and waits for them, up to the timeout of the setup ...
CreateNodes ==
  /\ SettingUp /\ env = "kind" /\ main = "prepare" /\ ~existing /\ cluster = "none"
  /\ cluster' = "nodes"
  /\ UNCHANGED <<errVars, composeVars, kindVars, section, command, phase, kubeFile,
                 logs, cleanVars>>

\* ... and writes the kubeconfig file last.  An error before the nodes has made
\* nothing; one behind them has kind delete them, which may fail, or is that of
\* the file, and leaves them; one behind the file leaves both.
PrepareKind ==
  /\ SettingUp /\ env = "kind" /\ Kind!Prepare
  /\ \/ /\ returned' = "none"
        /\ IF existing THEN UNCHANGED things
           ELSE cluster = "nodes" /\ cluster' = "made" /\ kubeFile' = TRUE
     \/ returned' = "nil" /\ cluster = "none" /\ UNCHANGED things
     \/ returned' = "err" /\ cluster' \in {"none", cluster} /\ UNCHANGED kubeFile
     \/ /\ returned' = "err" /\ cluster = "nodes"
        /\ cluster' = "made" /\ kubeFile' = TRUE
  /\ UNCHANGED <<composeVars, section, command, phase, logs, cleanVars>>

\* ComposeSetup: the containers are made by `up`; an error may leave some.
PrepareCompose ==
  /\ SettingUp /\ env = "compose"
  /\ \/ Compose!Prepare /\ UNCHANGED cluster
     \/ /\ Compose!Up
        /\ cluster' \in (IF returned' = "none" THEN {"made"} ELSE {"none", "made"})
  /\ UNCHANGED <<kindVars, section, command, phase, kubeFile, logs, cleanVars>>

SetUp ==
  /\ SettingUp
  /\ \/ env = "kind" /\ Kind!Setup /\ UNCHANGED composeVars
     \/ env = "compose" /\ Compose!Setup /\ UNCHANGED kindVars
  /\ UNCHANGED <<section, command, phase, things, logs, cleanVars>>

\* The goroutines beside the caller, as long as the process lives.
BesideKind(A) ==
  /\ phase # "exit" /\ env = "kind" /\ A
  /\ UNCHANGED <<composeVars, section, command, phase, things, logs, cleanVars>>

BesideCompose(A) ==
  /\ phase # "exit" /\ env = "compose" /\ A
  /\ UNCHANGED <<kindVars, section, command, phase, things, logs, cleanVars>>

-----------------------------------------------------------------------------
(* The commands.                                                           *)

Goto(to) ==
  /\ phase' = to
  /\ UNCHANGED <<errVars, composeVars, kindVars, section, things, logs, cleanVars>>

\* KindShouldWaitSignal: there are forwarded ports to keep.
ShouldWaitSignal == env = "kind" /\ bound /\ NumExports > 0

\* The setup command ends, unless it has to keep its ports ...
SetupCommandDone ==
  /\ SettingUp /\ main = "done" /\ command' = "setup"
  /\ IF returned = "nil" /\ ShouldWaitSignal THEN Goto("stages")
     ELSE Exit("none") /\ UNCHANGED things

\* ... and run goes on to its other stages, or to the clean-up of a setup that
\* has failed, or to its end.
RunSetupDone ==
  /\ SettingUp /\ main = "done" /\ command' = "run"
  /\ \/ returned = "nil" /\ Goto("stages")
     \/ returned = "err" /\ Goto("stop")
     \/ returned = "err" /\ Exit("none") /\ UNCHANGED things

\* The other stages of run end, with a clean-up or without (the policies are
\* in Run); the setup command gets its signal.
StagesDone ==
  /\ phase = "stages"
  /\ \/ Goto("stop") /\ UNCHANGED command
     \/ command = "run" /\ End

\* DoStopSetup: the follower is closed, the forwards are told to end, and they
\* are waited for.  The setup command closes its follower as it returns.
StopSetup ==
  /\ phase = "stop"
  /\ \/ /\ env = "kind" /\ (Kind!Notify \/ Kind!Drain)
        /\ logs' = (IF command = "run" THEN "closed" ELSE logs)
        /\ UNCHANGED <<composeVars, section, command, phase, things, cleanVars>>
     \/ /\ env = "kind" => main = "ended"
        /\ command = "run" /\ phase' = "cleanup" /\ logs' = "closed"
        /\ UNCHANGED <<errVars, kindVars, composeVars, section, command, things, cleanVars>>
     \/ command = "setup" /\ main = "ended" /\ End

-----------------------------------------------------------------------------
(* DoCleanupAccordingE2E.                                                  *)

\* No such environment, a file without the name of a cluster, no compose file:
\* an error; a cluster that was there before is left alone.
NothingToClean ==
  /\ phase = "cleanup" /\ deletions = 0
  /\ Exit(IF existing THEN "nil" ELSE "err") /\ UNCHANGED <<things, command>>

\* A deletion that fails is tried again, MaxRetry times in all.
DeleteAgain ==
  IF deletions + 1 = MaxRetry THEN Exit("err")
  ELSE /\ deletions' = deletions + 1
       /\ UNCHANGED <<errVars, composeVars, kindVars, section, phase, logs, result>>

\* Fault: the kubeconfig file is removed whatever became of the cluster.
DeleteKind_removes_file ==
  /\ phase = "cleanup" /\ env = "kind" /\ ~existing
  /\ kubeFile' = FALSE
  /\ \/ Exit("nil") /\ cluster' = "none"
     \/ DeleteAgain /\ UNCHANGED cluster
  /\ UNCHANGED command

\* cleanKindCluster: the nodes are deleted, whether or not the creation of the
\* cluster came to its end ...
DeleteKind ==
  /\ phase = "cleanup" /\ env = "kind" /\ ~existing
  /\ \/ /\ phase' = "remove" /\ cluster' = "none"
        /\ UNCHANGED <<errVars, composeVars, kindVars, section, kubeFile, logs, cleanVars>>
     \/ DeleteAgain /\ UNCHANGED things
  /\ UNCHANGED command

\* ... and the file is removed behind them; a failure to do so is logged.
RemoveFile ==
  /\ phase = "remove"
  /\ kubeFile' \in {FALSE, kubeFile} /\ Exit("nil")
  /\ UNCHANGED <<cluster, command>>

\* compose down, once; what an error leaves is there.
DownCompose ==
  /\ phase = "cleanup" /\ env = "compose"
  /\ \/ Exit("nil") /\ cluster' = "none"
     \/ Exit("err") /\ UNCHANGED cluster
  /\ UNCHANGED <<kubeFile, command>>

-----------------------------------------------------------------------------
(* The end of a process and the start of the next.                         *)

Kill == phase # "exit" /\ End

\* The cleanup command, run once the first process has ended.
CleanupCommand ==
  /\ phase = "exit" /\ command # "cleanup"
  /\ command' = "cleanup" /\ phase' = "cleanup" /\ result' = "none"
  /\ UNCHANGED <<errVars, composeVars, kindVars, section, things, logs, deletions>>

Command ==
  \/ InitLogFollower \/ CreateNodes \/ PrepareKind \/ PrepareCompose \/ SetUp
  \/ SetupCommandDone \/ RunSetupDone
  \/ StopSetup \/ NothingToClean \/ DeleteKind \/ RemoveFile \/ DownCompose

Next ==
  \/ Command \/ StagesDone \/ Kill \/ CleanupCommand
  \/ BesideKind(Kind!Beside) \/ BesideCompose(Compose!Listener)

\* A command that is not killed goes on; the goroutines are as fair as in
\* KindSetup and ComposeSetup.  Neither the signal nor the end of the other
\* stages, nor a second command, has to come.
Fairness ==
  /\ WF_vars(Command)
  /\ WF_vars(BesideKind(Kind!StopListener))
  /\ \A i \in Image : WF_vars(BesideKind(Kind!Pull(i)))
  /\ \A e \in 1..NumExports :
       /\ WF_vars(BesideKind(Kind!Settles(e)))
       /\ WF_vars(BesideKind(Kind!Ends(e)))
  /\ WF_vars(BesideCompose(Compose!SetFlag))
  /\ WF_vars(BesideCompose(Compose!StopListener))

Spec == Init /\ [][Next]_vars /\ Fairness

-----------------------------------------------------------------------------
\* The variables keep their types, and the counts of each environment stand for
\* what was done (Inv of KindSetup and of ComposeSetup).
Inv ==
  /\ command \in {"either", "setup", "run", "cleanup"}
  /\ phase \in {"setup", "stages", "stop", "cleanup", "remove", "exit"}
  /\ cluster \in {"none", "nodes", "made"} /\ kubeFile \in BOOLEAN
  /\ logs \in {"none", "open", "closed"}
  /\ deletions \in 0..MaxRetry /\ result \in {"none", "nil", "err"}
  /\ env = "kind" => Kind!Inv
  /\ env = "compose" => Compose!Inv

\* A setup that returns no error has set its environment up.  Kind: it had no
\* error, unless the listener overwrote it: images before the steps, every port
\* forwarded, all of them to be stopped.  Compose: no service is left without
\* its log being followed, except one whose container was not found.
OkMeansReady ==
  /\ env = "kind" => Kind!OkMeansReady
  /\ env = "compose" => Compose!EveryLogFollowed

\* Once the clean-up has been notified no goroutine forwards any more, when
\* the setup got as far as keeping their context; and run deletes nothing, and
\* closes no setup command, before that, with its log follower closed.
NoForwardLeft ==
  /\ env = "kind" => Kind!NoForwardLeft
  /\ phase = "cleanup" /\ command = "run" =>
       logs = "closed" /\ (env = "kind" => main = "ended")

\* A kind cluster whose creation came to its end has its kubeconfig file: it
\* goes after the cluster, over every retry of the deletion and whenever a
\* process is killed.  A creation that was cut short, by a kill or an error,
\* may leave nodes without a file, but no setup goes on with these: past its
\* first stage it has a cluster that was made, and no other stage runs beside
\* nodes that are half made.
FileOutlivesCluster ==
  env = "kind" =>
    /\ cluster = "made" => kubeFile
    /\ ~existing /\ (\/ phase = "setup" /\ main \notin {"prepare", "done"}
                     \/ phase \in {"stages", "stop"} /\ bound) => cluster = "made"
    /\ phase = "stages" => cluster # "nodes"

\* Every command that is not waiting for a signal, or for the other stages of
\* run, comes to its end: as many messages of forwards arrive as are waited
\* for, and the deletions are bounded.
EnvironmentEnds == phase \notin {"stages", "exit"} ~> phase \in {"stages", "exit"}

\* Whichever way a setup returns, with an error or without, its listener ends,
\* unless its process does first.
ListenerEnds ==
  (returned # "none" /\ phase # "exit") ~>
    (phase = "exit" \/ (listener # "select" /\ cListener # "select"))
=============================================================================

----------------------------- MODULE KindSetup -----------------------------
(***************************************************************************)
(* internal/components/setup/kind.go and kind_listener.go: the setup of a  *)
(* kind environment and its end.  The caller creates or joins the cluster, *)
(* pulls the images that are missing, a goroutine each, runs the steps     *)
(* (SetupSteps), follows the logs of the pods and forwards the ports, each *)
(* resource from a goroutine that runs until the end of the setup.  The    *)
(* goroutine of the pod listener follows logs beside it and shares err.    *)
(***************************************************************************)
EXTENDS Integers, FiniteSets, SetupErr

CONSTANTS Image,       \* the images to import that are not there yet
          Pod,         \* the pods of the cluster
          NumExports,  \* number of kind.expose-ports
          MaxEvents    \* bound on the events of a pod the listener handles

Export == 1..NumExports

VARIABLES
  pull,       \* where the goroutine of each image is
  count,      \* how many were pulled
  listener,   \* "off", "select" or "stopped"
  events,     \* history: events of each pod the listener has handled
  todo,       \* pods the loop of exposeLogs has left
  following,  \* the pods of which a line of log has been read
  writers,    \* how often the log file of each pod has been created
  export,     \* the export the caller is at
  forward,    \* where the goroutine of each export is
  reported,   \* the exports whose error is in their channel
  finished,   \* what the channel of finished resources holds
  bound,      \* portForwardContext is set
  stopped     \* its stop channel is closed

logVars == <<listener, events, todo, following, writers>>
forwardVars == <<export, forward, reported, finished, bound, stopped>>
pullVars == <<pull, count>>
vars == <<errVars, pullVars, logVars, forwardVars>>

Init ==
  /\ ErrInit
  /\ pull = [i \in Image |-> "none"] /\ count = 0
  /\ listener = "off" /\ events = [p \in Pod |-> 0] /\ todo = {}
  /\ following = {} /\ writers = [p \in Pod |-> 0]
  /\ export = 1 /\ forward = [e \in Export |-> "none"] /\ reported = {}
  /\ finished = 0 /\ bound = FALSE /\ stopped = FALSE

Goto(to) == main' = to /\ UNCHANGED <<err, stage, failed, overwritten, returned>>

-----------------------------------------------------------------------------
(* The cluster and its images.                                             *)

\* A bad section or a cluster that is not there is an error; without steps
\* there is nothing to do.
Prepare ==
  /\ main = "prepare"
  /\ \/ ReturnValue("err") /\ UNCHANGED pull
     \/ ReturnValue("nil") /\ UNCHANGED pull
     \/ Goto("pull") /\ pull' = [i \in Image |-> "pulling"]
  /\ UNCHANGED <<count, logVars, forwardVars>>

\* An image is pulled and counted, or logged as failed.
Pull(i) ==
  /\ pull[i] = "pulling"
  /\ \/ pull' = [pull EXCEPT ![i] = "ok"] /\ count' = count + 1
     \/ pull' = [pull EXCEPT ![i] = "failed"] /\ UNCHANGED count
  /\ UNCHANGED <<errVars, logVars, forwardVars>>

\* All are waited for; one that failed is an error, as is one that cannot be
\* loaded.  Then the cluster is connected to and listened to, which may fail.
Pulled ==
  /\ main = "pull" /\ \A i \in Image : pull[i] # "pulling"
  /\ \/ ReturnValue("err") /\ UNCHANGED listener
     \/ /\ count = Cardinality(Image) /\ Goto("steps")
        /\ listener' \in {"off", "select"}
  /\ UNCHANGED <<pullVars, events, todo, following, writers, forwardVars>>

-----------------------------------------------------------------------------
(* The steps and the logs.                                                 *)

RunSteps ==
  /\ main = "steps"
  /\ \E v \in Errors : AssignErr("steps", v)
  /\ UNCHANGED <<pullVars, logVars, forwardVars>>

Next_of(from) ==
  CASE from = "steps" -> "list" [] from = "logs" -> "forward" [] OTHER -> "done"

TestErr ==
  /\ CheckErr(Next_of(stage)) \/ ReturnErr
  /\ UNCHANGED <<pullVars, logVars, forwardVars>>

\* exposePerContainerLog: a pod that is not running, or of which a line has
\* been read, is passed over; for another one the log file is created anew
\* and followed.  An error may come before or after the file is created.
ExposeLog(p) ==
  IF p \in following THEN UNCHANGED writers
  ELSE \/ UNCHANGED writers
       \/ writers' = [writers EXCEPT ![p] = @ + 1]

\* exposeLogs lists the pods and walks them in the order of the list.
ListPods ==
  /\ main = "list"
  /\ \/ AssignErr("logs", "err") /\ UNCHANGED todo
     \/ Goto("logs") /\ todo' \in SUBSET Pod
  /\ UNCHANGED <<pullVars, listener, events, following, writers, forwardVars>>

ExposeLogs ==
  /\ main = "logs"
  /\ \/ /\ todo = {} /\ AssignErr("logs", "nil") /\ UNCHANGED <<todo, writers>>
     \/ \E p \in todo :
          \/ /\ p \notin following /\ AssignErr("logs", "err")
             /\ ExposeLog(p) /\ UNCHANGED todo
          \/ /\ UNCHANGED errVars /\ ExposeLog(p) /\ todo' = todo \ {p}
  /\ UNCHANGED <<pullVars, listener, events, following, forwardVars>>

\* A follower reads the first line of its log, which marks the pod.
ReadLine(p) ==
  /\ writers[p] > 0 /\ p \notin following
  /\ following' = following \cup {p}
  /\ UNCHANGED <<errVars, pullVars, listener, events, todo, writers, forwardVars>>

\* An event of a pod: the callback follows its log and assigns err; a pod
\* that is passed over assigns it nil.
PodEvent(p) ==
  /\ listener = "select" /\ events[p] < MaxEvents
  /\ events' = [events EXCEPT ![p] = @ + 1]
  /\ \/ OverwriteErr("nil") /\ ExposeLog(p)
     \/ p \notin following /\ OverwriteErr("err") /\ ExposeLog(p)
  /\ UNCHANGED <<pullVars, listener, todo, following, forwardVars>>

\* The deferred Stop has cancelled the context of the listener.
StopListener ==
  /\ listener = "select" /\ returned # "none" /\ listener' = "stopped"
  /\ UNCHANGED <<errVars, pullVars, events, todo, following, writers, forwardVars>>

-----------------------------------------------------------------------------
(* The forwarded ports.                                                    *)

\* The clients cannot be made, a resource or its ports are not found, or the
\* goroutine of the next export starts.
StartForward ==
  /\ main = "forward" /\ export <= NumExports
  /\ \/ AssignErr("forward", "err") /\ UNCHANGED forward
     \/ Goto("ready") /\ forward' = [forward EXCEPT ![export] = "starting"]
  /\ UNCHANGED <<pullVars, logVars, export, reported, finished, bound, stopped>>

\* The forward listens on its ports ...
Forwarding(e) ==
  /\ forward[e] = "starting" /\ forward' = [forward EXCEPT ![e] = "ready"]
  /\ UNCHANGED <<errVars, pullVars, logVars, export, reported, finished, bound, stopped>>

\* Fault: the goroutine of a lost forward returns before it is counted.
EndForward_silently(e) ==
  /\ \/ /\ forward[e] = "starting" /\ forward' = [forward EXCEPT ![e] = "refused"]
        /\ reported' = reported \cup {e} /\ finished' = finished + 1
     \/ /\ forward[e] = "ready" /\ forward' = [forward EXCEPT ![e] = "ended"]
        /\ reported' = reported \cup {e} /\ UNCHANGED finished
     \/ /\ forward[e] = "ready" /\ forward' = [forward EXCEPT ![e] = "ended"]
        /\ stopped /\ finished' = finished + 1 /\ UNCHANGED reported
  /\ UNCHANGED <<errVars, pullVars, logVars, export, bound, stopped>>

\* Fault: an error is announced on the channel of finished resources too.
EndForward_counts_twice(e) ==
  /\ \/ /\ forward[e] = "starting" /\ forward' = [forward EXCEPT ![e] = "refused"]
        /\ reported' = reported \cup {e} /\ finished' = finished + 2
     \/ /\ forward[e] = "ready" /\ forward' = [forward EXCEPT ![e] = "ended"]
        /\ reported' = reported /\ finished' = finished + 1
  /\ UNCHANGED <<errVars, pullVars, logVars, export, bound, stopped>>

\* ... or is refused, an error; once ready it ends when the pod is lost, with
\* or without an error, or when it is stopped.  Both channels have room.
EndForward(e) ==
  /\ \/ /\ forward[e] = "starting" /\ forward' = [forward EXCEPT ![e] = "refused"]
        /\ reported' = reported \cup {e}
     \/ /\ forward[e] = "ready" /\ forward' = [forward EXCEPT ![e] = "ended"]
        /\ reported' \in {reported, reported \cup {e}}
  /\ finished' = finished + 1
  /\ UNCHANGED <<errVars, pullVars, logVars, export, bound, stopped>>

\* Fault: an error of the forward is only logged.
AwaitForward_ignores_error ==
  /\ main = "ready" /\ (forward[export] \in {"ready", "ended"} \/ export \in reported)
  /\ Goto("forward") /\ export' = export + 1
  /\ UNCHANGED <<pullVars, logVars, forward, reported, finished, bound, stopped>>

\* The caller waits for the first of the two: a forward that has been ready,
\* whatever became of it, or an error.  Exporting the variables may fail.
AwaitForward ==
  /\ main = "ready"
  /\ \/ /\ forward[export] \in {"ready", "ended"} \/ export \in reported
        /\ AssignErr("forward", "err") /\ UNCHANGED export
     \/ /\ forward[export] \in {"ready", "ended"}
        /\ Goto("forward") /\ export' = export + 1
  /\ UNCHANGED <<pullVars, logVars, forward, reported, finished, bound, stopped>>

\* Only when all of them are ready is the context kept.
Bind ==
  /\ main = "forward" /\ export > NumExports
  /\ AssignErr("forward", "nil") /\ bound' = TRUE
  /\ UNCHANGED <<pullVars, logVars, export, forward, reported, finished, stopped>>

-----------------------------------------------------------------------------
(* The end of the setup.                                                   *)

\* KindCleanNotify: the forwards are told to stop ...
Notify ==
  /\ main = "done"
  /\ Goto(IF bound THEN "drain" ELSE "ended") /\ stopped' = bound
  /\ UNCHANGED <<pullVars, logVars, export, forward, reported, finished, bound>>

\* Fault: one resource less is waited for.
Drain_one_less ==
  /\ main = "drain" /\ finished >= NumExports - 1 /\ Goto("ended")
  /\ UNCHANGED <<pullVars, logVars, forwardVars>>

\* ... and as many messages received as there are resources.
Drain ==
  /\ main = "drain" /\ finished >= NumExports /\ Goto("ended")
  /\ UNCHANGED <<pullVars, logVars, forwardVars>>

\* The rest of KindSetup, after its preparation.
Setup ==
  \/ Pulled \/ RunSteps \/ TestErr \/ ListPods \/ ExposeLogs
  \/ StartForward \/ AwaitForward \/ Bind

Caller == Prepare \/ Setup \/ Notify \/ Drain

Beside ==
  \/ StopListener \/ (\E i \in Image : Pull(i))
  \/ (\E p \in Pod : PodEvent(p) \/ ReadLine(p))
  \/ (\E e \in Export : Forwarding(e) \/ EndForward(e))

Running(A) == main # "ended" /\ A

Next == Running(Caller \/ Beside)

Settles(e) == forward[e] = "starting" /\ (Forwarding(e) \/ EndForward(e))
Ends(e) == stopped /\ EndForward(e)

\* Pulls end, and with an error if need be; a forward becomes ready or is
\* refused, and ends when it is stopped.
Fairness ==
  /\ WF_vars(Running(Caller)) /\ WF_vars(Running(StopListener))
  /\ \A i \in Image : WF_vars(Running(Pull(i)))
  /\ \A e \in Export :
       WF_vars(Running(Settles(e))) /\ WF_vars(Running(Ends(e)))

Spec == Init /\ [][Next]_vars /\ Fairness

-----------------------------------------------------------------------------
\* The variables keep their types.
TypeOK ==
  /\ ErrTypeOK
  /\ main \in {"prepare", "pull", "steps", "check", "return", "list", "logs",
               "forward", "ready", "done", "drain", "ended"}
  /\ pull \in [Image -> {"none", "pulling", "ok", "failed"}]
  /\ listener \in {"off", "select", "stopped"} /\ events \in [Pod -> 0..MaxEvents]
  /\ todo \in SUBSET Pod /\ following \in SUBSET Pod
  /\ \A p \in Pod : writers[p] \in 0..(events[p] + 1)
  /\ export \in 1..(NumExports + 1) /\ reported \in SUBSET Export
  /\ forward \in [Export -> {"none", "starting", "ready", "refused", "ended"}]
  /\ bound \in BOOLEAN /\ stopped \in BOOLEAN

\* The two counts other goroutines wait for stand for what was done: the
\* images that are there, and the forwards that have ended, one message each.
CountsAreTrue ==
  /\ count = Cardinality({i \in Image : pull[i] = "ok"})
  /\ finished = Cardinality({e \in Export : forward[e] \in {"refused", "ended"}})

\* Both: what the setup and its clean-up wait for is counted once per image
\* and once per forward, however the goroutines end.
Inv == TypeOK /\ CountsAreTrue

\* A setup that returns no error had none, unless the listener overwrote it:
\* all images were there before the steps ran, every port was forwarded, and
\* all of them can be stopped.
OkMeansReady ==
  /\ main = "steps" => \A i \in Image : pull[i] = "ok"
  /\ returned = "nil" /\ ~overwritten =>
       /\ ~failed
       /\ (\E i \in Image : pull[i] # "none") =>
            bound /\ \A e \in Export : forward[e] \in {"ready", "ended"}

\* Once the clean-up has been notified no goroutine forwards any more, when
\* the setup got as far as keeping their context.
NoForwardLeft ==
  main = "ended" /\ bound => \A e \in Export : forward[e] = "ended"

\* The setup returns and its clean-up too: as many messages are sent as are
\* waited for, whichever way each forward ended.
KindEnds == <>(main = "ended")
=============================================================================

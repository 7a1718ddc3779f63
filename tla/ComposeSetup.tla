---------------------------- MODULE ComposeSetup ----------------------------
(***************************************************************************)
(* internal/components/setup/compose.go and compose_listener.go: the setup *)
(* of a docker-compose environment.  The caller starts the containers,     *)
(* exposes the ports of every service, follows the logs of those that are  *)
(* not followed yet, and runs the steps (SetupSteps).  Beside it, from the *)
(* start on, the goroutine of the container listener follows the log of a  *)
(* service each time one of its containers starts.  They share err and the *)
(* flag beenFollowLog of the services.                                     *)
(***************************************************************************)
EXTENDS Integers, SetupErr

CONSTANTS Service,    \* the services of the compose file
          MaxStarts   \* bound on the starts of the container of a service

VARIABLES
  ports,           \* the services with ports to expose, fixed
  todo,            \* services the loop of exposeComposeService has left
  at,              \* the service it is at, in a set
  listener,        \* "off", "select", "test" or "stopped"
  about,           \* the service of the event being handled, in a set
  starts,          \* history: starts of the container of each service
  beenFollowLog,   \* the flag of each service
  writers,         \* how often std.log of each service has been created
  missing          \* history: services whose container was not found

followVars == <<beenFollowLog, writers>>
vars == <<errVars, ports, todo, at, listener, about, starts, followVars, missing>>

Init ==
  /\ ErrInit
  /\ ports \in SUBSET Service
  /\ todo = {} /\ at = {} /\ listener = "off" /\ about = {}
  /\ starts = [s \in Service |-> 0]
  /\ beenFollowLog = [s \in Service |-> FALSE]
  /\ writers = [s \in Service |-> 0]
  /\ missing = {}

-----------------------------------------------------------------------------
(* The caller.                                                             *)

\* The file, the docker client, the services and the listener are set up, or
\* one of them is an error.
Prepare ==
  /\ main = "prepare"
  /\ \/ ReturnValue("err") /\ UNCHANGED listener
     \/ /\ main' = "up" /\ listener' = "select"
        /\ UNCHANGED <<err, stage, failed, overwritten, returned>>
  /\ UNCHANGED <<ports, todo, at, about, starts, followVars, missing>>

\* compose up -d; its error is not kept in err.
Up ==
  /\ main = "up"
  /\ \/ ReturnValue("err") /\ UNCHANGED todo
     \/ /\ main' = "expose" /\ todo' = Service
        /\ UNCHANGED <<err, stage, failed, overwritten, returned>>
  /\ UNCHANGED <<ports, at, listener, about, starts, followVars, missing>>

\* The loop, in the order of a Go map: expose the ports of the next service
\* and wait for them, an error for a service that has some ...
ExposePort(s) ==
  /\ main = "expose" /\ s \in todo
  /\ \/ s \in ports /\ AssignErr("expose", "err") /\ UNCHANGED at
     \/ /\ main' = "flag" /\ at' = {s}
        /\ UNCHANGED <<err, stage, failed, overwritten, returned>>
  /\ UNCHANGED <<ports, todo, listener, about, starts, followVars, missing>>

NextService ==
  /\ main' = "expose" /\ todo' = todo \ at /\ at' = {}
  /\ UNCHANGED <<err, stage, failed, overwritten, returned>>

\* ... then read the flag ...
ReadFlag ==
  /\ main = "flag"
  /\ IF \E s \in at : beenFollowLog[s] THEN NextService
     ELSE /\ main' = "follow"
          /\ UNCHANGED <<err, stage, failed, overwritten, returned, todo, at>>
  /\ UNCHANGED <<ports, listener, about, starts, followVars, missing>>

\* Follow the log of s into a file created anew.
Follow(s) == writers' = [writers EXCEPT ![s] = @ + 1]

\* ... and follow the log: a container that is not found is passed over, a
\* log that cannot be followed is an error.
FollowLog(s) ==
  /\ main = "follow" /\ at = {s}
  /\ \/ missing' = missing \cup {s} /\ NextService /\ UNCHANGED followVars
     \/ AssignErr("expose", "err") /\ UNCHANGED <<todo, at, followVars, missing>>
     \/ /\ Follow(s) /\ beenFollowLog' = [beenFollowLog EXCEPT ![s] = TRUE]
        /\ NextService /\ UNCHANGED missing
  /\ UNCHANGED <<ports, listener, about, starts>>

Exposed ==
  /\ main = "expose" /\ todo = {}
  /\ AssignErr("expose", "nil")
  /\ UNCHANGED <<ports, todo, at, listener, about, starts, followVars, missing>>

RunSteps ==
  /\ main = "steps"
  /\ \E v \in Errors : AssignErr("steps", v)
  /\ UNCHANGED <<ports, todo, at, listener, about, starts, followVars, missing>>

TestErr ==
  /\ CheckErr(IF stage = "expose" THEN "steps" ELSE "done") \/ ReturnErr
  /\ UNCHANGED <<ports, todo, at, listener, about, starts, followVars, missing>>

\* The rest of ComposeSetup, when the containers are up.
Setup ==
  \/ ReadFlag \/ Exposed \/ RunSteps \/ TestErr
  \/ \E s \in Service : ExposePort(s) \/ FollowLog(s)

Caller == Prepare \/ Up \/ Setup

-----------------------------------------------------------------------------
(* The goroutine of the listener.                                          *)

\* A container of a listened service has started, up or a later restart: the
\* callback follows its log and assigns err ...
Started(s) ==
  /\ listener = "select" /\ main # "prepare" /\ starts[s] < MaxStarts
  /\ starts' = [starts EXCEPT ![s] = @ + 1]
  /\ \/ OverwriteErr("nil") /\ Follow(s)
     \/ OverwriteErr("err") /\ UNCHANGED writers
  /\ listener' = "test" /\ about' = {s}
  /\ UNCHANGED <<ports, todo, at, beenFollowLog, missing>>

\* ... then reads it back to decide on the flag.
SetFlag ==
  /\ listener = "test" /\ listener' = "select" /\ about' = {}
  /\ beenFollowLog' = [s \in Service |->
       beenFollowLog[s] \/ (s \in about /\ err = "nil")]
  /\ UNCHANGED <<errVars, ports, todo, at, starts, writers, missing>>

\* Fault: the listener is stopped on the ways of failure only.
StopListener_on_failure ==
  /\ listener = "select" /\ returned = "err"
  /\ listener' = "stopped"
  /\ UNCHANGED <<errVars, ports, todo, at, about, starts, followVars, missing>>

\* The deferred Stop has cancelled the context of the listener.
StopListener ==
  /\ listener = "select" /\ main = "done"
  /\ listener' = "stopped"
  /\ UNCHANGED <<errVars, ports, todo, at, about, starts, followVars, missing>>

Listener == SetFlag \/ StopListener \/ \E s \in Service : Started(s)

Next == Caller \/ Listener

\* Docker answers, ports are waited for with a timeout, the steps end; a
\* container need not start.  Starts are bounded, so a ready Stop is taken.
Fairness == WF_vars(Caller) /\ WF_vars(SetFlag) /\ WF_vars(StopListener)

Spec == Init /\ [][Next]_vars /\ Fairness

-----------------------------------------------------------------------------
\* The variables keep their types; a std.log is created at most once per
\* start and once by the caller.
TypeOK ==
  /\ ErrTypeOK
  /\ main \in {"prepare", "up", "expose", "flag", "follow", "check", "steps",
               "return", "done"}
  /\ todo \in SUBSET Service /\ at \in SUBSET Service /\ about \in SUBSET Service
  /\ listener \in {"off", "select", "test", "stopped"}
  /\ starts \in [Service -> 0..MaxStarts]
  /\ beenFollowLog \in [Service -> BOOLEAN]
  /\ \A s \in Service : writers[s] \in 0..(starts[s] + 1)

\* While the loop may read a flag it is true only of a log that is followed,
\* though the listener sets it by a variable the caller writes too.
FlagIsTrue ==
  main \in {"expose", "flag", "follow"} =>
    \A s \in Service : beenFollowLog[s] => writers[s] > 0

\* Both: no std.log has more writers than starts, and no flag is believed that
\* no writer stands behind.
Inv == TypeOK /\ FlagIsTrue

\* A setup that ends well leaves no service without its log being followed,
\* except one whose container was not found.
EveryLogFollowed ==
  returned = "nil" /\ ~overwritten =>
    \A s \in Service : writers[s] > 0 \/ s \in missing

\* The caller returns and the goroutine of the listener ends after it.
ListenerEnds == <>(main = "done" /\ listener \in {"off", "stopped"})
=============================================================================

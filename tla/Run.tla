-------------------------------- MODULE Run --------------------------------
(***************************************************************************)
(* commands/run/run.go: the run command takes the environment through      *)
(* setup, trigger, assert and verify, and cleans it up as `cleanup.on`     *)
(* asks, by functions deferred at two points of its body.  The action of   *)
(* the trigger stage runs beside the later stages (TriggerAction).  The    *)
(* other stages are their outcomes: SetupSteps, AssertCases, VerifyCases   *)
(* are their details.  commands/trigger/trigger.go, the trigger command,   *)
(* is that stage alone, then a wait for a signal and the stop.  Both read  *)
(* the configuration first (ConfigFile), in a hook of commands/root.go.    *)
(***************************************************************************)
EXTENDS TriggerAction, ConfigFile

CONSTANT AssertMayCrash   \* a goroutine of the assert stage may panic,
                          \* as AssertCases and SpanMatch show

ASSUME RunAssumption == AssertMayCrash \in BOOLEAN

VARIABLES
  command,   \* which command it is, "run" or "trigger", fixed
  main,      \* the stage the command is at
  err,       \* the local err: what the command returns
  setup,     \* the setup stage: "before", "failed" or "ok"
  cleaned    \* DoCleanupAccordingE2E has been called

runVars == <<command, main, err, setup, cleaned>>
vars == <<actionVars, runVars, configVars>>

Init ==
  /\ ActionInit /\ ConfigInit
  /\ command \in {"run", "trigger"}
  /\ main = "start" /\ err = FALSE /\ setup = "before" /\ cleaned = FALSE

Load ==
  /\ main = "start" /\ ReadGlobalConfigFile
  /\ main' = IF loading' = "exhausted" THEN "dead" ELSE "start"
  /\ UNCHANGED <<command, err, setup, cleaned, actionVars>>

\* The rest of the hook may fail, on the level of the log or a directory.  A
\* configuration that could not be read is returned before anything is
\* deferred, whatever the policy; the trigger command finds it out later.
Start ==
  /\ main = "start" /\ loading = "loaded"
  /\ \/ /\ command = "run" => ~error
        /\ main' = (IF command = "run" THEN "setup" ELSE "trigger") /\ UNCHANGED err
     \/ main' = "exit" /\ err' = TRUE
  /\ UNCHANGED <<command, setup, cleaned, actionVars, configVars>>

\* Where a command that returns goes: run has functions deferred.
Return == IF command = "run" THEN "deferred" ELSE "exit"

\* A stage ends: the next one follows, or the command returns its error.
EndStage(from, next) ==
  /\ main = from
  /\ \/ main' = next /\ err' = FALSE
     \/ main' = Return /\ err' = TRUE
  /\ UNCHANGED <<command, cleaned, configVars>>

Setup ==
  /\ EndStage("setup", "trigger")
  /\ setup' = IF err' THEN "failed" ELSE "ok"
  /\ UNCHANGED actionVars

\* No action configured, a section or a configuration that is refused, or an
\* action to wait for.
Trigger ==
  \/ /\ EndStage("trigger", IF command = "run" THEN "assert" ELSE "exit")
     /\ error => err'
     /\ UNCHANGED <<setup, actionVars>>
  \/ /\ main = "trigger" /\ ~error /\ Do
     /\ main' = "recv" /\ UNCHANGED <<command, err, setup, cleaned, configVars>>

\* err = <-action.Do(): an error ends the command, the trigger command
\* without a Stop.
Receive ==
  /\ main = "recv" /\ Deliver
  /\ err' = (val = "err")
  /\ main' = IF val = "err" THEN Return
             ELSE IF command = "run" THEN "assert" ELSE "signal"
  /\ UNCHANGED <<command, setup, cleaned, configVars>>

\* The shutdown hook of the trigger command; nothing bounds the wait for it.
Signal ==
  /\ main = "signal" /\ main' = "stop"
  /\ UNCHANGED <<command, err, setup, cleaned, actionVars, configVars>>

Assert == EndStage("assert", "verify") /\ UNCHANGED <<setup, actionVars>>

\* A panic in a goroutine of the stage ends the process: nothing deferred runs.
AssertCrash ==
  /\ AssertMayCrash /\ main = "assert"
  /\ main' = "dead"
  /\ UNCHANGED <<command, err, setup, cleaned, actionVars, configVars>>

Verify == EndStage("verify", "deferred") /\ UNCHANGED <<setup, actionVars>>

\* Fault: the condition of the deferred function forgets the error.
ShouldCleanup_forgets_error ==
  \/ on = "always"
  \/ setup = "ok" /\ on = "success"
  \/ setup = "ok" /\ on = "failure" /\ err

\* The policy `always` is deferred before setup, the two others after it has
\* succeeded: an error of setup itself finds nothing deferred for them.
ShouldCleanup ==
  \/ on = "always"
  \/ setup = "ok" /\ on = "success" /\ ~err
  \/ setup = "ok" /\ on = "failure" /\ err

Deferred ==
  /\ main = "deferred"
  /\ main' = IF ShouldCleanup THEN "stop" ELSE "exit"
  /\ UNCHANGED <<command, err, setup, cleaned, actionVars, configVars>>

\* doCleanup, first call: the action is stopped, when there is one.  It is
\* the last call of the trigger command.
StopAction ==
  /\ main = "stop"
  /\ \/ /\ place # "none" /\ OfferStop
        /\ UNCHANGED <<runVars, configVars>>
     \/ /\ place = "none" \/ StopReturns
        /\ main' = IF command = "run" THEN "cleanup" ELSE "exit"
        /\ UNCHANGED <<command, err, setup, cleaned, actionVars, configVars>>

\* Then the setup is stopped and the clean-up called; its error is logged.
Cleanup ==
  /\ main = "cleanup" /\ main' = "exit"
  /\ cleaned' = TRUE
  /\ UNCHANGED <<command, err, setup, actionVars, configVars>>

Main ==
  \/ Load \/ Start \/ Setup \/ Trigger \/ Receive \/ Assert \/ Verify
  \/ Deferred \/ StopAction \/ Cleanup

\* The process, and the goroutine of the action, end with the command.
Beside(A) == main \notin {"exit", "dead"} /\ A /\ UNCHANGED <<runVars, configVars>>

Next ==
  \/ Main \/ Signal \/ AssertCrash
  \/ Beside(Tick) \/ Beside(Goroutine) \/ Beside(Hang)

\* The stages end, the ticker ticks, the goroutine runs, requests are answered
\* unless the server hangs; a select chooses at random among what is ready, so
\* a stop that stays offered is taken.  No signal needs to come.
Fairness ==
  /\ WF_vars(Main)
  /\ WF_vars(Beside(Tick)) /\ WF_vars(Beside(Goroutine))
  /\ SF_vars(Beside(TakeStop))

Spec == Init /\ [][Next]_vars /\ Fairness

-----------------------------------------------------------------------------
TypeOK ==
  /\ ActionTypeOK
  /\ ConfigTypeOK /\ command \in {"run", "trigger"}
  /\ main \in {"start", "setup", "trigger", "recv", "signal", "assert", "verify",
               "deferred", "stop", "cleanup", "exit", "dead"}
  /\ setup \in {"before", "failed", "ok"}
  /\ err \in BOOLEAN /\ cleaned \in BOOLEAN

\* What the file asks for, or by default the environment.
Asked == IF written.on # "unset" THEN written.on ELSE Default

\* The policy in force is the one asked for, once a run has begun; the defaults
\* hold until the file is read.
PolicyInForce ==
  /\ loading = "read" => on = Default
  /\ loading \in {"convert", "finalize"} => on = Asked
  /\ loading = "loaded" /\ ~error => on = Asked
  /\ command = "run" /\ (main = "setup" \/ setup # "before") => loading = "loaded" /\ ~error

\* How far the setup is, by where the command is.
SetupInPlace ==
  /\ command = "trigger" =>
       /\ setup = "before" /\ ~cleaned
       /\ main \notin {"setup", "assert", "verify", "deferred", "cleanup"}
  /\ main = "signal" => command = "trigger"
  /\ setup = "before" =>
       /\ command = "run" => main \in {"start", "setup", "exit", "dead"}
       /\ ~cleaned
  /\ setup = "failed" => err /\ main \in {"deferred", "stop", "cleanup", "exit"}
  /\ setup = "ok" => main \notin {"start", "setup"}
  /\ command = "run" /\ main \in {"stop", "cleanup"} => ShouldCleanup
  /\ cleaned => main = "exit"
  /\ command = "run" /\ main = "exit" /\ setup # "before" => (cleaned <=> ShouldCleanup)

\* The action begins with the trigger stage and is waited for: hera-http ends
\* with its answer, and http is told to before anything is cleaned up.
ActionInPlace ==
  /\ main \in {"start", "setup", "trigger"} => place = "none"
  /\ cfg.kind = "hera-http" /\ place \notin {"none", "exit"} => main \in {"recv", "exit", "dead"}
  /\ stop = "taken" <=> place = "stopSend"
  /\ main = "cleanup" => place \in {"none", "exit", "stopSend"}

\* The variables keep their types, and the stages, the policy and the action
\* are where they belong.
Inv == TypeOK /\ PolicyInForce /\ SetupInPlace /\ ActionInPlace

\* The caller learns of success only after a request has succeeded, and of
\* failure only when none of the `times` requests made did; a url that cannot
\* be requested makes it so at times = 0.  hera-http sends nothing more after
\* the request that succeeded.
AnswerIsEarned ==
  [][/\ answer = "none" /\ answer' # "none" =>
          IF answer' = "nil" THEN okDone ELSE ~okDone /\ count = cfg.times
     /\ cfg.kind = "hera-http" /\ okDone => count' = count /\ place' # "execute"]_vars

\* When the command has ended, an environment that was set up has been cleaned
\* up exactly if the file, or its default, asks for it, by how the command
\* ended; one whose setup failed is cleaned up under `always` only, and one
\* that was never begun is left alone.
CleanedIffAsked ==
  /\ main = "exit" /\ setup = "ok" =>
       (cleaned <=> \/ Asked = "always"
                    \/ Asked = IF err THEN "failure" ELSE "success")
  /\ setup # "ok" /\ cleaned => Asked = "always" /\ setup = "failed" /\ err

\* No request is under way while the environment is torn down.
NoTrafficDuringCleanup == main = "cleanup" => place \notin {"execute", "hung"}

\* A command that waits gets its answer when times bounds the attempts and
\* requests can be made, unless one of them is never answered.
AnswerComes ==
  (main = "recv" /\ cfg.times > 0 /\ ~cfg.badURL) ~> (main # "recv" \/ place = "hung")

\* Stop returns, even with ticks and requests still coming, unless a request
\* is never answered: the clean-up behind it is reached.
StopEnds == (main = "stop") ~> (main # "stop" \/ place = "hung")
=============================================================================

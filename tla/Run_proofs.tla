----------------------------- MODULE Run_proofs -----------------------------
(***************************************************************************)
(* Proofs about Run, for every configuration file, every number of times   *)
(* and whether or not a server hangs or the assert stage crashes: the      *)
(* environment is cleaned up exactly as asked, no request is under way     *)
(* while it is, the answer of the action is earned, and what is loaded of  *)
(* the configuration file is what it says.                                 *)
(***************************************************************************)
EXTENDS Run, SequenceTheorems, WellFoundedInduction, TLAPS

\* What an action that has succeeded, or is about to answer, has done.
Earned ==
  /\ okDone => \/ place = "send" /\ val = "nil"
               \/ cfg.kind = "http" /\ sent
               \/ cfg.kind = "hera-http" /\ place = "exit"
  /\ sent => cfg.kind = "http" /\ place # "send"
  /\ place = "send" => IF val = "nil" THEN okDone ELSE ~okDone /\ count = cfg.times

\* The inductive invariant.
RunInv == Inv /\ Earned

-----------------------------------------------------------------------------
(* The steps of the action, whoever calls it.                              *)

\* The action keeps its types.
LEMMA ActionTypes ==
  ASSUME ActionTypeOK,
         Do \/ Tick \/ Goroutine \/ Hang \/ Deliver \/ OfferStop \/ UNCHANGED actionVars
  PROVE  ActionTypeOK'
<1>1. MaxTimes \in Nat /\ cfg.times \in 0..MaxTimes /\ Counted \in 0..(MaxTimes + 1)
  BY TriggerAssumption DEF TriggerAssumption, ActionTypeOK, Config, Counted
<1>2. CASE Do \/ Tick \/ Hang \/ OfferStop \/ UNCHANGED actionVars
  BY <1>2 DEF ActionTypeOK, Do, Tick, Hang, OfferStop, actionVars
<1>3. CASE Deliver
  BY <1>3 DEF ActionTypeOK, Deliver
<1>4. CASE TakeTick
  BY <1>4 DEF ActionTypeOK, TakeTick, AfterExecute
<1>5. ASSUME NEW ok \in BOOLEAN, Answer(ok) PROVE ActionTypeOK'
  BY <1>1, <1>5 DEF ActionTypeOK, Answer, AfterExecute
<1>6. CASE TakeStop
  BY <1>6 DEF ActionTypeOK, TakeStop
<1>. QED
  BY <1>2, <1>3, <1>4, <1>5, <1>6 DEF Goroutine

\* What is sent is earned, whatever the action does.
LEMMA EarnedStays ==
  ASSUME ActionTypeOK, Earned,
         Do \/ Tick \/ Goroutine \/ Hang \/ Deliver \/ OfferStop \/ UNCHANGED actionVars
  PROVE  Earned'
<1>1. CASE Do \/ Tick \/ Hang \/ OfferStop \/ UNCHANGED actionVars
  BY <1>1 DEF Earned, Do, Tick, Hang, OfferStop, actionVars
<1>2. CASE Deliver
  BY <1>2 DEF ActionTypeOK, Config, Kinds, Earned, Deliver
<1>3. CASE TakeTick
  BY <1>3 DEF ActionTypeOK, Config, Kinds, Earned, TakeTick, AfterExecute, Finished
<1>4. ASSUME NEW ok \in BOOLEAN, Answer(ok) PROVE Earned'
  BY <1>4 DEF ActionTypeOK, Config, Kinds, Earned, Answer, AfterExecute, Finished
<1>5. CASE TakeStop
  BY <1>5 DEF ActionTypeOK, Earned, TakeStop
<1>. QED
  BY <1>1, <1>2, <1>3, <1>4, <1>5 DEF Goroutine

-----------------------------------------------------------------------------
(* The steps of the command.                                               *)

\* Loading keeps its types, and the policy in force is the one asked for.
LEMMA LoadConfig ==
  ASSUME ConfigTypeOK, ReadGlobalConfigFile
  PROVE  ConfigTypeOK'
<1>1. CASE Read
  BY <1>1 DEF ConfigTypeOK, File, Read, Refuse
<1>2. CASE Convert
  BY <1>2 DEF ConfigTypeOK, Convert, OwnCase, Include, FileDone, Refuse
<1>3. CASE Finalize
  BY <1>3 DEF ConfigTypeOK, Finalize
<1>. QED
  BY <1>1, <1>2, <1>3 DEF ReadGlobalConfigFile

LEMMA LoadPolicy ==
  ASSUME PolicyInForce, main = "start", ReadGlobalConfigFile, UNCHANGED <<command, setup>>,
         main' \in {"start", "dead"}, command = "run" => setup = "before"
  PROVE  PolicyInForce'
<1>1. CASE Read
  <2>1. Asked' = Asked /\ Default' = Default
    BY <1>1 DEF Read, Asked, Default
  <2>2. loading = "read" /\ on = Default
    BY <1>1 DEF Read, PolicyInForce
  <2>3. \/ loading' = "loaded" /\ error' = TRUE
        \/ loading' = "convert" /\ on' = Asked
    BY <1>1, <2>2 DEF Read, Refuse, Asked
  <2>. QED
    BY <2>1, <2>3 DEF PolicyInForce
<1>2. CASE Convert
  <2>1. Asked' = Asked /\ on' = on /\ loading = "convert" /\ on = Asked
    BY <1>2 DEF Convert, Asked, Default, PolicyInForce
  <2>2. loading' # "read"
    BY <1>2, <2>1 DEF Convert, OwnCase, Include, FileDone, Refuse
  <2>. QED
    BY <2>1, <2>2 DEF PolicyInForce
<1>3. CASE Finalize
  BY <1>3 DEF Finalize, Asked, Default, PolicyInForce
<1>. QED
  BY <1>1, <1>2, <1>3 DEF ReadGlobalConfigFile

\* Nothing else changes what the file or the policy are.
LEMMA PolicyStays ==
  ASSUME PolicyInForce, UNCHANGED <<configVars, command>>,
         command = "run" /\ (main' = "setup" \/ setup' # "before") =>
           loading = "loaded" /\ ~error
  PROVE  PolicyInForce' /\ Asked' = Asked
BY DEF PolicyInForce, configVars, Asked, Default

\* The variables keep their types.
LEMMA RunTypes == ASSUME TypeOK, Next PROVE TypeOK'
<1>. USE DEF TypeOK
<1>1. CASE Load
  BY <1>1, LoadConfig, ActionTypes DEF Load
<1>2. CASE Start \/ Setup \/ Assert \/ Verify \/ Deferred \/ Cleanup \/ Signal \/ AssertCrash
  <2>1. UNCHANGED <<actionVars, configVars, command>>
    BY <1>2 DEF Start, Setup, Assert, Verify, Deferred, Cleanup, Signal, AssertCrash, EndStage
  <2>2. ActionTypeOK' /\ ConfigTypeOK'
    BY <2>1, ActionTypes DEF ConfigTypeOK, configVars
  <2>. QED
    BY <1>2, <2>1, <2>2
       DEF Start, Setup, Assert, Verify, Deferred, Cleanup, Signal, AssertCrash, EndStage, Return
<1>3. CASE Trigger \/ Receive \/ StopAction
  <2>1. UNCHANGED <<configVars, command>>
        /\ (Do \/ Deliver \/ OfferStop \/ UNCHANGED actionVars)
    BY <1>3 DEF Trigger, Receive, StopAction, EndStage, runVars
  <2>2. ActionTypeOK' /\ ConfigTypeOK'
    BY <2>1, ActionTypes DEF ConfigTypeOK, configVars
  <2>. QED
    BY <1>3, <2>1, <2>2 DEF Trigger, Receive, StopAction, EndStage, Return, runVars
<1>4. CASE Beside(Tick) \/ Beside(Goroutine) \/ Beside(Hang)
  BY <1>4, ActionTypes DEF Beside, ConfigTypeOK, configVars, runVars
<1>. QED
  BY <1>1, <1>2, <1>3, <1>4 DEF Next, Main

\* The policy in force is the one asked for.
LEMMA RunPolicy == ASSUME TypeOK, PolicyInForce, SetupInPlace, Next PROVE PolicyInForce'
<1>0. main = "start" => setup = "before"
  BY DEF TypeOK, SetupInPlace
<1>1. CASE Load
  BY <1>0, <1>1, LoadPolicy DEF Load
<1>2. CASE Start
  BY <1>0, <1>2, PolicyStays DEF Start
<1>3. CASE Next /\ ~Load /\ ~Start
  <2>1. UNCHANGED <<configVars, command>>
    BY <1>3
       DEF Next, Main, Setup, Trigger, Receive, Assert, Verify, Deferred, StopAction, Cleanup,
           Signal, AssertCrash, EndStage, Beside, runVars
  <2>2. main' = "setup" \/ setup' # "before" => main = "setup" \/ setup # "before"
    <3>1. CASE Setup
      BY <3>1 DEF Setup, EndStage
    <3>2. CASE Trigger \/ Assert \/ Verify
      BY <3>2 DEF Trigger, Assert, Verify, EndStage, Return
    <3>3. CASE Receive \/ Deferred \/ Cleanup \/ Signal \/ AssertCrash
      BY <3>3 DEF Receive, Deferred, Cleanup, Signal, AssertCrash, Return
    <3>4. CASE StopAction \/ Beside(Tick) \/ Beside(Goroutine) \/ Beside(Hang)
      BY <3>4 DEF StopAction, Beside, runVars
    <3>. QED
      BY <1>3, <3>1, <3>2, <3>3, <3>4 DEF Next, Main
  <2>. QED
    BY <2>1, <2>2, PolicyStays DEF PolicyInForce
<1>. QED
  BY <1>1, <1>2, <1>3

\* The setup, its error and the clean-up are where they belong.
LEMMA RunSetup == ASSUME TypeOK, SetupInPlace, Next PROVE SetupInPlace'
<1>1. CASE Load \/ Start
  BY <1>1 DEF TypeOK, SetupInPlace, Load, Start, ShouldCleanup, configVars
<1>2. CASE Setup
  <2>1. UNCHANGED <<on, cleaned, command>> /\ main = "setup"
    BY <1>2 DEF Setup, EndStage, configVars
  <2>3. setup = "before" /\ ~cleaned /\ command = "run"
    BY <2>1 DEF TypeOK, SetupInPlace
  <2>2. \/ main' = "trigger" /\ err' = FALSE /\ setup' = "ok"
        \/ main' = "deferred" /\ err' = TRUE /\ setup' = "failed"
    BY <1>2, <2>3 DEF Setup, EndStage, Return
  <2>. QED
    BY <2>1, <2>2, <2>3 DEF SetupInPlace
<1>3. CASE Trigger
  BY <1>3 DEF TypeOK, SetupInPlace, Trigger, EndStage, Return, ShouldCleanup, configVars
<1>4. CASE Receive
  BY <1>4 DEF TypeOK, SetupInPlace, Receive, Return, ShouldCleanup, configVars
<1>5. CASE Assert \/ Verify
  BY <1>5 DEF TypeOK, SetupInPlace, Assert, Verify, EndStage, Return, ShouldCleanup, configVars
<1>6. CASE Deferred
  BY <1>6 DEF TypeOK, SetupInPlace, Deferred, ShouldCleanup, configVars
<1>7. CASE StopAction
  BY <1>7 DEF TypeOK, SetupInPlace, StopAction, ShouldCleanup, configVars, runVars
<1>8. CASE Cleanup \/ Signal \/ AssertCrash
  <2>1. ShouldCleanup' = ShouldCleanup
    BY <1>8 DEF Cleanup, Signal, AssertCrash, ShouldCleanup, configVars
  <2>2. CASE Cleanup
    <3>1. main = "cleanup" /\ main' = "exit" /\ cleaned' = TRUE /\ UNCHANGED <<command, err, setup>>
      BY <2>2 DEF Cleanup
    <3>. QED
      BY <2>1, <3>1 DEF TypeOK, SetupInPlace
  <2>3. CASE Signal
    <3>1. main = "signal" /\ main' = "stop" /\ UNCHANGED <<command, err, setup, cleaned>>
      BY <2>3 DEF Signal
    <3>. QED
      BY <2>1, <3>1 DEF TypeOK, SetupInPlace
  <2>4. CASE AssertCrash
    BY <2>1, <2>4 DEF TypeOK, SetupInPlace, AssertCrash
  <2>. QED
    BY <1>8, <2>2, <2>3, <2>4
<1>9. CASE Beside(Tick) \/ Beside(Goroutine) \/ Beside(Hang)
  BY <1>9 DEF SetupInPlace, Beside, ShouldCleanup, configVars, runVars
<1>. QED
  BY <1>1, <1>2, <1>3, <1>4, <1>5, <1>6, <1>7, <1>8, <1>9 DEF Next, Main

\* The action runs only where it is waited for, or told to stop.
LEMMA RunAction == ASSUME TypeOK, ActionInPlace, Next PROVE ActionInPlace'
<1>1. CASE Load \/ Start \/ Setup \/ Assert \/ Verify \/ Deferred \/ Cleanup \/ Signal \/ AssertCrash
  BY <1>1
     DEF TypeOK, ActionTypeOK, ActionInPlace, Load, Start, Setup, Assert, Verify, Deferred, Cleanup,
         Signal, AssertCrash, EndStage, Return, actionVars
<1>2. CASE Trigger
  BY <1>2 DEF TypeOK, ActionTypeOK, ActionInPlace, Trigger, EndStage, Return, Do, actionVars
<1>3. CASE Receive
  BY <1>3 DEF TypeOK, ActionTypeOK, Config, Kinds, ActionInPlace, Receive, Return, Deliver
<1>4. CASE StopAction
  BY <1>4 DEF TypeOK, ActionTypeOK, Config, Kinds, ActionInPlace, StopAction, OfferStop,
              StopReturns, actionVars, runVars
<1>5. CASE Beside(Tick) \/ Beside(Hang)
  BY <1>5 DEF TypeOK, ActionInPlace, Beside, Tick, Hang, runVars
<1>6. CASE Beside(TakeTick) \/ Beside(TakeStop)
  BY <1>6 DEF TypeOK, ActionInPlace, Beside, TakeTick, AfterExecute, TakeStop, runVars
<1>7. ASSUME NEW ok \in BOOLEAN, Beside(Answer(ok)) PROVE ActionInPlace'
  BY <1>7 DEF TypeOK, ActionInPlace, Beside, Answer, AfterExecute, runVars
<1>8. Beside(Goroutine) =>
        Beside(TakeTick) \/ Beside(TakeStop) \/ \E ok \in BOOLEAN : Beside(Answer(ok))
  BY DEF Beside, Goroutine
<1>. QED
  BY <1>1, <1>2, <1>3, <1>4, <1>5, <1>6, <1>7, <1>8 DEF Next, Main

\* What the action does in a step of the command.
LEMMA StepOfAction ==
  ASSUME Next
  PROVE  Do \/ Tick \/ Goroutine \/ Hang \/ Deliver \/ OfferStop \/ UNCHANGED actionVars
BY DEF Next, Main, Load, Start, Setup, Trigger, Receive, Assert, Verify, Deferred, StopAction,
       Cleanup, Signal, AssertCrash, EndStage, Beside

\* At the start nothing has happened.
LEMMA RunInit == Init => RunInv
<1>. SUFFICES ASSUME Init PROVE RunInv
  OBVIOUS
<1>1. ActionTypeOK
  <2>1. 0 \in 0..(MaxTimes + 1)
    BY TriggerAssumption DEF TriggerAssumption
  <2>. QED
    BY <2>1 DEF Init, ActionInit, ActionTypeOK
<1>4. Earned
  BY DEF Init, ActionInit, Earned
<1>2. ConfigTypeOK
  BY DEF Init, ConfigInit, ConfigTypeOK, Default, Policies
<1>3. PolicyInForce
  BY DEF Init, ConfigInit, PolicyInForce
<1>. QED
  BY <1>1, <1>2, <1>3, <1>4
     DEF Init, ActionInit, RunInv, Inv, TypeOK, SetupInPlace, ActionInPlace

\* The invariant holds in every reachable state.
LEMMA RunInvHolds == Spec => []RunInv
<1>1. RunInv /\ [Next]_vars => RunInv'
  <2>. SUFFICES ASSUME RunInv, [Next]_vars PROVE RunInv'
    OBVIOUS
  <2>1. CASE UNCHANGED vars
    BY <2>1 DEF vars, actionVars, runVars, configVars, RunInv, Inv, TypeOK, ActionTypeOK,
                ConfigTypeOK, PolicyInForce, SetupInPlace, ActionInPlace, Earned, Asked, Default,
                ShouldCleanup
  <2>2. CASE Next
    BY <2>2, RunTypes, RunPolicy, RunSetup, RunAction, StepOfAction, EarnedStays
       DEF RunInv, Inv, TypeOK
  <2>. QED
    BY <2>1, <2>2
<1>. QED
  BY <1>1, RunInit, PTL DEF Spec

\* The bookkeeping of the command: the stages, the policy and the action are
\* where they belong.
THEOREM RunIsInPlace == Spec => []Inv
<1>1. RunInv => Inv
  BY DEF RunInv
<1>. QED
  BY <1>1, RunInvHolds, PTL

\* runAccordingE2E cleans up an environment that was set up exactly if the
\* file, or the default of CI, asks for it, on every way out of it.
THEOREM CleanedAsAsked == Spec => []CleanedIffAsked
<1>1. RunInv => CleanedIffAsked
  <2>. SUFFICES ASSUME RunInv PROVE CleanedIffAsked
    OBVIOUS
  <2>1. TypeOK /\ PolicyInForce /\ SetupInPlace
    BY DEF RunInv, Inv
  <2>2. ASSUME main = "exit", setup = "ok"
        PROVE  cleaned <=> \/ Asked = "always"
                           \/ Asked = IF err THEN "failure" ELSE "success"
    <3>1. command = "run" /\ (cleaned <=> ShouldCleanup)
      BY <2>1, <2>2 DEF TypeOK, SetupInPlace
    <3>2. on = Asked
      BY <2>1, <2>2, <3>1 DEF PolicyInForce
    <3>. QED
      BY <2>2, <3>1, <3>2 DEF ShouldCleanup
  <2>3. ASSUME setup # "ok", cleaned
        PROVE  Asked = "always" /\ setup = "failed" /\ err
    <3>1. command = "run" /\ main = "exit" /\ setup = "failed" /\ err
      BY <2>1, <2>3 DEF TypeOK, SetupInPlace
    <3>2. on = "always"
      BY <2>1, <2>3, <3>1 DEF SetupInPlace, ShouldCleanup
    <3>. QED
      BY <2>1, <2>3, <3>1, <3>2 DEF PolicyInForce
  <2>. QED
    BY <2>2, <2>3 DEF CleanedIffAsked
<1>. QED
  BY <1>1, RunInvHolds, PTL

\* No request of the action is under way while the environment is torn down.
THEOREM QuietCleanup == Spec => []NoTrafficDuringCleanup
<1>1. RunInv => NoTrafficDuringCleanup
  BY DEF RunInv, Inv, ActionInPlace, NoTrafficDuringCleanup
<1>. QED
  BY <1>1, RunInvHolds, PTL

\* The caller of Do learns of a success only after one, and of a failure only
\* after `times` requests; hera-http is quiet after its success.
THEOREM AnswersAreEarned == Spec => AnswerIsEarned
<1>. DEFINE A ==
       /\ answer = "none" /\ answer' # "none" =>
            IF answer' = "nil" THEN okDone ELSE ~okDone /\ count = cfg.times
       /\ cfg.kind = "hera-http" /\ okDone => count' = count /\ place' # "execute"
<1>1. RunInv /\ [Next]_vars => [A]_vars
  <2>. SUFFICES ASSUME RunInv, Next PROVE A
    OBVIOUS
  <2>1. CASE Do \/ Tick \/ Hang \/ OfferStop \/ UNCHANGED actionVars
    BY <2>1 DEF RunInv, Earned, Do, Tick, Hang, OfferStop, actionVars
  <2>2. CASE Deliver
    BY <2>2 DEF RunInv, Earned, Deliver
  <2>3. CASE TakeTick
    BY <2>3 DEF RunInv, Earned, TakeTick
  <2>4. CASE TakeStop
    BY <2>4 DEF RunInv, Earned, TakeStop
  <2>5. ASSUME NEW ok \in BOOLEAN, Answer(ok) PROVE A
    BY <2>5 DEF RunInv, Earned, Answer
  <2>. QED
    BY <2>1, <2>2, <2>3, <2>4, <2>5, StepOfAction DEF Goroutine
<1>. QED
  BY <1>1, RunInvHolds, PTL DEF Spec, AnswerIsEarned

-----------------------------------------------------------------------------
(* Whom a command waits for.                                               *)

\* Where the action is, by what the command has had of it.
AwaitInv ==
  /\ place = "none" => count = 0 /\ ~sent /\ stop = "none"
  /\ main \in {"start", "setup", "trigger"} => stop = "none" /\ answer = "none"
  /\ main = "recv" =>
       /\ stop = "none" /\ answer = "none" /\ ~sent
       /\ place \in {"select", "execute", "send", "hung"}
       /\ cfg.times > 0 /\ ~cfg.badURL /\ place \in {"select", "execute"} => count < cfg.times
  /\ cfg.kind = "http" /\ place # "none" /\ main \notin {"recv", "exit", "dead"} =>
       sent /\ place \in {"select", "execute", "hung", "stopSend"}

\* Where a command waits for its action something can still happen.  The answer
\* is due, its counter has not passed the number it is compared with; a stop
\* that is offered meets a goroutine that comes back to its select, and never
\* one that waits to hand over another answer.
WaitsForAction ==
  /\ main = "recv" =>
       /\ answer = "none" /\ place \in {"select", "execute", "send", "hung"}
       /\ cfg.times > 0 /\ ~cfg.badURL /\ place \in {"select", "execute"} =>
            ~sent /\ count < cfg.times
  /\ main = "stop" /\ stop = "offered" /\ ~StopReturns =>
       place \in {"select", "execute", "hung"}

\* A step of a command or of its action keeps who is waited for.
LEMMA RunAwaits == ASSUME RunInv, AwaitInv, Next PROVE AwaitInv'
<1>1. /\ TypeOK /\ ActionTypeOK /\ ActionInPlace /\ AwaitInv
      /\ cfg.times \in Nat /\ count \in Nat /\ cfg.kind \in {"http", "hera-http"}
  BY TriggerAssumption
  DEF RunInv, Inv, TypeOK, ActionTypeOK, Config, Kinds, TriggerAssumption
<1>2. CASE Load \/ Start \/ Setup \/ Assert \/ Verify \/ Deferred \/ Cleanup \/ Signal \/ AssertCrash
  <2>1. UNCHANGED <<cfg, place, count, sent, stop, answer>> /\ main' # "recv"
        /\ (main' \in {"start", "setup", "trigger"} => main \in {"start", "setup"})
        /\ main \notin {"recv", "exit", "dead"}
    BY <1>2
    DEF Load, Start, Setup, Assert, Verify, Deferred, Cleanup, Signal, AssertCrash, EndStage,
        Return, actionVars
  <2>. QED
    BY <1>1, <2>1 DEF AwaitInv
<1>3. CASE Trigger
  <2>1. CASE UNCHANGED actionVars /\ EndStage("trigger", IF command = "run" THEN "assert" ELSE "exit")
    BY <1>1, <2>1 DEF AwaitInv, EndStage, Return, actionVars
  <2>2. CASE main = "trigger" /\ Do /\ main' = "recv"
    BY <1>1, <2>2 DEF AwaitInv, Do
  <2>. QED
    BY <1>3, <2>1, <2>2 DEF Trigger
<1>4. CASE Receive
  BY <1>1, <1>4 DEF AwaitInv, Receive, Deliver, Return
<1>5. CASE StopAction
  BY <1>1, <1>5 DEF AwaitInv, StopAction, OfferStop, actionVars, runVars
<1>6. CASE Beside(Tick) \/ Beside(Hang)
  BY <1>1, <1>6 DEF AwaitInv, ActionInPlace, Beside, Tick, Hang, runVars
<1>7. CASE Beside(TakeTick)
  BY <1>1, <1>7 DEF AwaitInv, Beside, TakeTick, AfterExecute, Finished, ActionInPlace, runVars
<1>8. CASE Beside(TakeStop)
  BY <1>1, <1>8 DEF AwaitInv, Beside, TakeStop, ActionInPlace, runVars
<1>9. ASSUME NEW ok \in BOOLEAN, Beside(Answer(ok)) PROVE AwaitInv'
  <2>1. /\ place = "execute" /\ UNCHANGED <<cfg, sent, stop, answer, main>>
        /\ place' \in {"select", "send"} /\ count' = Counted
        /\ main \notin {"exit", "dead"}
    BY <1>9 DEF Beside, Answer, AfterExecute, runVars
  <2>2. cfg.kind = "http" /\ sent => place' = "select"
    BY <1>9 DEF Beside, Answer, AfterExecute, Finished
  <2>3. main = "recv" /\ cfg.times > 0 /\ ~cfg.badURL /\ place' = "select" => count' < cfg.times
    <3>. SUFFICES ASSUME main = "recv", cfg.times > 0, ~cfg.badURL, place' = "select"
                  PROVE  count' < cfg.times
      OBVIOUS
    <3>1. count < cfg.times /\ ~sent
      BY <1>1, <2>1 DEF AwaitInv
    <3>2. Counted = count + 1
      BY <1>1, <3>1 DEF Counted
    <3>3. Counted # cfg.times
      BY <1>9, <3>1 DEF Beside, Answer, AfterExecute, Finished
    <3>. QED
      BY <1>1, <2>1, <3>1, <3>2, <3>3
  <2>4. main \notin {"start", "setup", "trigger"}
    BY <1>1, <2>1 DEF ActionInPlace
  <2>. QED
    BY <1>1, <2>1, <2>2, <2>3, <2>4 DEF AwaitInv
<1>10. Beside(Goroutine) =>
         Beside(TakeTick) \/ Beside(TakeStop) \/ \E ok \in BOOLEAN : Beside(Answer(ok))
  BY DEF Beside, Goroutine
<1>. QED
  BY <1>2, <1>3, <1>4, <1>5, <1>6, <1>7, <1>8, <1>9, <1>10 DEF Next, Main

\* No command waits for an action that will not answer or take its stop: the
\* safety parts of AnswerComes and StopEnds.
THEOREM NoActionIsWaitedForInVain == Spec => []WaitsForAction
<1>1. Init => AwaitInv
  BY DEF Init, ActionInit, AwaitInv
<1>2. RunInv /\ AwaitInv /\ [Next]_vars => AwaitInv'
  <2>. SUFFICES ASSUME RunInv, AwaitInv, [Next]_vars PROVE AwaitInv'
    OBVIOUS
  <2>1. CASE UNCHANGED vars
    BY <2>1 DEF vars, actionVars, runVars, AwaitInv
  <2>. QED
    BY <2>1, RunAwaits
<1>3. RunInv /\ AwaitInv => WaitsForAction
  <2>. SUFFICES ASSUME RunInv, AwaitInv PROVE WaitsForAction
    OBVIOUS
  <2>1. main = "stop" /\ stop = "offered" /\ ~StopReturns =>
          place \in {"select", "execute", "hung"}
    BY DEF RunInv, Inv, TypeOK, ActionTypeOK, Config, Kinds, ActionInPlace, AwaitInv, StopReturns
  <2>. QED
    BY <2>1 DEF AwaitInv, WaitsForAction
<1>. QED
  BY <1>1, <1>2, <1>3, RunInvHolds, PTL DEF Spec

-----------------------------------------------------------------------------
(* Numbers and the functions of numbers.                                   *)

\* Induction over an interval, with a set in the place of a predicate.
LEMMA UpTo ==
  ASSUME NEW a \in Nat, NEW n \in Nat, NEW S, a \in S,
         \A i \in a..n : i \in S /\ i < n => i + 1 \in S
  PROVE  a..n \subseteq S
<1>. DEFINE Bad == {i \in a..n : i \notin S}
<1>. SUFFICES ASSUME Bad # {} PROVE FALSE
  OBVIOUS
<1>1. Bad \subseteq Nat
  OBVIOUS
<1>2. PICK k \in Bad : \A l \in Bad : ~(<<l, k>> \in OpToRel(<, Nat))
  <2>. HIDE DEF Bad
  <2>. QED
    BY <1>1, NatLessThanWellFounded, WFMin
<1>3. k \in a..n /\ k \notin S /\ k # a /\ k - 1 \in a..n /\ k - 1 < n /\ (k - 1) + 1 = k
  OBVIOUS
<1>4. k - 1 \in Bad
  BY <1>3
<1>5. <<k - 1, k>> \in Nat \X Nat /\ <<k - 1, k>>[1] < <<k - 1, k>>[2]
  BY <1>3
<1>. QED
  BY <1>2, <1>4, <1>5, Zenon DEF OpToRel

\* The function h of the numbers from a to n is x for a, and for each other
\* number what step makes of its value for the one before.
Iterates(h, a, n, X, x, step) ==
  /\ h \in [a..n -> X]
  /\ h[a] = x /\ \A i \in (a + 1)..n : h[i] = step[<<i, h[i - 1]>>]

\* A function of a number can be defined by what it is for a, and what it is
\* for each number given what it is for the one before.
LEMMA Iterate ==
  ASSUME NEW a \in Nat, NEW n \in Nat, a <= n, NEW X, NEW x \in X,
         NEW step \in [Nat \X X -> X]
  PROVE  \E h : Iterates(h, a, n, X, x, step)
<1>. DEFINE Fits(h, m) ==
              h[a] = x /\ \A i \in (a + 1)..m : h[i] = step[<<i, h[i - 1]>>]
            S == {m \in a..n : \E h \in [a..m -> X] : Fits(h, m)}
<1>1. a \in S
  <2>. DEFINE g == [i \in a..a |-> x]
  <2>1. g \in [a..a -> X] /\ Fits(g, a)
    OBVIOUS
  <2>. HIDE DEF g
  <2>. QED
    BY <2>1
<1>2. ASSUME NEW m \in a..n, m \in S, m < n PROVE m + 1 \in S
  <2>1. PICK h \in [a..m -> X] : Fits(h, m)
    BY <1>2
  <2>. DEFINE g == [i \in a..(m + 1) |-> IF i = m + 1 THEN step[<<m + 1, h[m]>>] ELSE h[i]]
  <2>2. step[<<m + 1, h[m]>>] \in X
    OBVIOUS
  <2>3. g \in [a..(m + 1) -> X]
    BY <2>2
  <2>4. Fits(g, m + 1)
    <3>1. g[a] = x
      BY <2>1
    <3>2. ASSUME NEW i \in (a + 1)..(m + 1) PROVE g[i] = step[<<i, g[i - 1]>>]
      <4>1. i - 1 \in a..m /\ g[i - 1] = h[i - 1]
        OBVIOUS
      <4>2. CASE i = m + 1
        <5>1. g[i] = step[<<m + 1, h[m]>>] /\ g[i - 1] = h[m]
          BY <4>1, <4>2
        <5>. QED
          BY <4>2, <5>1
      <4>3. CASE i # m + 1
        <5>1. i \in (a + 1)..m /\ g[i] = h[i]
          BY <4>3
        <5>. QED
          BY <2>1, <4>1, <5>1
      <4>. QED
        BY <4>2, <4>3
    <3>. QED
      BY <3>1, <3>2
  <2>5. m + 1 \in a..n
    BY <1>2
  <2>. QED
    BY <2>3, <2>4, <2>5
<1>3. n \in S
  <2>1. \A m \in a..n : m \in S /\ m < n => m + 1 \in S
    BY <1>2
  <2>2. n \in a..n
    OBVIOUS
  <2>. HIDE DEF S
  <2>3. a..n \subseteq S
    BY <1>1, <2>1, UpTo, Zenon
  <2>. QED
    BY <2>2, <2>3
<1>. QED
  BY <1>3 DEF Iterates

-----------------------------------------------------------------------------
(* Sequences, grouped and put together.                                    *)

\* Concatenation may be grouped as one likes.
Grouped(s, t, u) == (s \o t) \o u = s \o (t \o u)

\* Any three sequences.
LEMMA GroupThree ==
  ASSUME NEW S, NEW s \in Seq(S), NEW t \in Seq(S), NEW u \in Seq(S)
  PROVE  Grouped(s, t, u)
BY ConcatAssociative DEF Grouped

\* The same of four.
Regrouped(w, x, y, z) == w \o ((x \o y) \o z) = (w \o x) \o (y \o z)

\* Four pieces, in another grouping.
LEMMA Regroup ==
  ASSUME NEW S, NEW w \in Seq(S), NEW x \in Seq(S), NEW y \in Seq(S), NEW z \in Seq(S)
  PROVE  Regrouped(w, x, y, z)
<1>1. y \o z \in Seq(S)
  BY ConcatProperties
<1>2. Grouped(w, x, y \o z) /\ Grouped(x, y, z)
  BY <1>1, GroupThree
<1>. QED
  BY <1>2, Zenon DEF Grouped, Regrouped

\* The pieces of a sequence of sequences of T, put together one by one.
Joins(h, q, n, T) ==
  /\ h \in [1..n -> Seq(T)]
  /\ h[1] = q[1] /\ \A i \in 2..n : h[i] = h[i - 1] \o q[i]
  /\ Seqs!FlattenSeq(q) = h[n]

\* There are such pieces: FlattenSeq is defined by what it makes of them.
LEMMA FlattenIs ==
  ASSUME NEW T, NEW n \in Nat, 1 <= n, NEW q \in [1..n -> Seq(T)]
  PROVE  \E h : Joins(h, q, n, T)
<1>. DEFINE Is(h) == h = [i \in 1..n |-> IF i = 1 THEN q[i] ELSE h[i - 1] \o q[i]]
<1>1. 1 \in 1..n /\ q[1] \in Seq(T)
  OBVIOUS
<1>2. \E h : Is(h)
  <2>. DEFINE step == [p \in Nat \X Seq(T) |-> IF p[1] \in 1..n THEN p[2] \o q[p[1]] ELSE <<>>]
  <2>1. step \in [Nat \X Seq(T) -> Seq(T)]
    <3>1. ASSUME NEW p \in Nat \X Seq(T)
          PROVE  (IF p[1] \in 1..n THEN p[2] \o q[p[1]] ELSE <<>>) \in Seq(T)
      BY ConcatProperties
    <3>. QED
      BY <3>1
  <2>2. \A i \in 1..n, s \in Seq(T) : step[<<i, s>>] = s \o q[i]
    <3>. SUFFICES ASSUME NEW i \in 1..n, NEW s \in Seq(T) PROVE step[<<i, s>>] = s \o q[i]
      OBVIOUS
    <3>1. <<i, s>> \in Nat \X Seq(T)
      OBVIOUS
    <3>. QED
      BY <3>1
  <2>. HIDE DEF step
  <2>3. PICK h \in [1..n -> Seq(T)] :
          h[1] = q[1] /\ \A i \in (1 + 1)..n : h[i] = step[<<i, h[i - 1]>>]
    <3>1. 1 \in Nat /\ q[1] \in Seq(T)
      OBVIOUS
    <3>2. \E h : Iterates(h, 1, n, Seq(T), q[1], step)
      BY <3>1, <2>1, Iterate
    <3>. QED
      BY <3>2 DEF Iterates
  <2>4. ASSUME NEW i \in 1..n, i # 1 PROVE h[i] = h[i - 1] \o q[i]
    <3>1. i \in (1 + 1)..n /\ i - 1 \in 1..n /\ h[i - 1] \in Seq(T)
      BY <2>4
    <3>. QED
      BY <2>2, <2>3, <3>1
  <2>5. h = [i \in 1..n |-> IF i = 1 THEN q[i] ELSE h[i - 1] \o q[i]]
    BY <2>3, <2>4
  <2>. QED
    BY <2>5
<1>. DEFINE c == CHOOSE h : Is(h)
<1>3. Is(c)
  BY <1>2, Zenon
<1>4. Seqs!FlattenSeq(q) = c[n]
  <2>1. Len(q) = n /\ n # 0
    OBVIOUS
  <2>2. Seqs!FlattenSeq(q) =
          (CHOOSE h : h = [i \in 1..Len(q) |-> IF i = 1 THEN q[i] ELSE h[i - 1] \o q[i]])[Len(q)]
    BY <2>1, Zenon DEF Seqs!FlattenSeq
  <2>. QED
    BY <2>1, <2>2, Zenon
<1>. HIDE DEF c
<1>5. \A i \in 1..n : c[i] = IF i = 1 THEN q[i] ELSE c[i - 1] \o q[i]
  BY <1>3
<1>6. c \in [1..n -> Seq(T)]
  <2>. DEFINE S == {i \in 1..n : c[i] \in Seq(T)}
  <2>1. 1 \in S
    BY <1>1, <1>5
  <2>2. ASSUME NEW i \in 1..n, i \in S, i < n PROVE i + 1 \in S
    <3>1. i + 1 \in 1..n /\ i + 1 # 1 /\ (i + 1) - 1 = i
      BY <2>2
    <3>2. c[i + 1] = c[i] \o q[i + 1] /\ q[i + 1] \in Seq(T)
      BY <1>5, <3>1
    <3>. QED
      BY <2>2, <3>1, <3>2, ConcatProperties
  <2>3. \A i \in 1..n : i \in S /\ i < n => i + 1 \in S
    BY <2>2
  <2>4. 1..n \subseteq S
    <3>. HIDE DEF S
    <3>1. 1 \in Nat
      OBVIOUS
    <3>. QED
      BY <3>1, <2>1, <2>3, UpTo, Zenon
  <2>. QED
    BY <1>3, <2>4
<1>7. c[1] = q[1]
  BY <1>1, <1>5
<1>8. \A i \in 2..n : c[i] = c[i - 1] \o q[i]
  <2>. TAKE i \in 2..n
  <2>1. i \in 1..n /\ i # 1
    OBVIOUS
  <2>. QED
    BY <1>5, <2>1
<1>. QED
  BY <1>4, <1>6, <1>7, <1>8, Zenon DEF Joins

\* A sequence without elements.
LEMMA NoLength == ASSUME NEW S, NEW s \in Seq(S), Len(s) = 0 PROVE s = <<>>
OBVIOUS

\* Of nothing there is nothing.
LEMMA FlattenNone == Seqs!FlattenSeq(<<>>) = <<>>
<1>1. Len(<<>>) = 0
  OBVIOUS
<1>. QED
  BY <1>1, Zenon DEF Seqs!FlattenSeq

\* What is put together is a sequence of the same kind.
LEMMA FlattenType == ASSUME NEW T, NEW q \in Seq(Seq(T)) PROVE Seqs!FlattenSeq(q) \in Seq(T)
<1>1. CASE q = <<>>
  <2>1. <<>> \in Seq(T)
    OBVIOUS
  <2>. QED
    BY <1>1, <2>1, FlattenNone
<1>2. CASE q # <<>>
  <2>1. PICK n \in Nat : n = Len(q)
    OBVIOUS
  <2>2. 1 <= n /\ q \in [1..n -> Seq(T)] /\ n \in 1..n
    BY <1>2, <2>1
  <2>3. PICK h : Joins(h, q, n, T)
    BY <2>2, FlattenIs
  <2>. QED
    BY <2>2, <2>3 DEF Joins
<1>. QED
  BY <1>1, <1>2

\* The first piece can be put in front of the others.
LEMMA FlattenFirst ==
  ASSUME NEW T, NEW q \in Seq(Seq(T)), q # <<>>
  PROVE  Seqs!FlattenSeq(q) = Head(q) \o Seqs!FlattenSeq(Tail(q))
<1>1. PICK n \in Nat : n = Len(q)
  OBVIOUS
<1>2. /\ 1 <= n /\ q \in [1..n -> Seq(T)] /\ Head(q) = q[1] /\ q[1] \in Seq(T)
      /\ 1 \in 1..n /\ n \in 1..n
  BY <1>1
<1>0. PICK h : Joins(h, q, n, T)
  BY <1>2, FlattenIs
<1>3. /\ h \in [1..n -> Seq(T)]
      /\ h[1] = q[1] /\ \A i \in 2..n : h[i] = h[i - 1] \o q[i]
      /\ Seqs!FlattenSeq(q) = h[n]
  BY <1>0 DEF Joins
<1>4. CASE n = 1
  <2>1. Tail(q) = <<>>
    <3>1. Tail(q) \in Seq(Seq(T)) /\ Len(Tail(q)) = Len(q) - 1
      BY HeadTailProperties
    <3>2. Len(Tail(q)) = 0
      BY <1>1, <1>4, <3>1
    <3>. QED
      BY <3>1, <3>2, NoLength, Zenon
  <2>. QED
    BY <1>2, <1>3, <1>4, <2>1, FlattenNone, ConcatEmptySeq
<1>5. CASE n # 1
  <2>. DEFINE p == Tail(q)
  <2>1. /\ n - 1 \in Nat /\ 1 <= n - 1 /\ p \in [1..(n - 1) -> Seq(T)]
        /\ \A i \in 1..(n - 1) : p[i] = q[i + 1]
    <3>1. p \in Seq(Seq(T)) /\ Len(p) = n - 1 /\ \A i \in 1..Len(p) : p[i] = q[i + 1]
      BY <1>1, HeadTailProperties
    <3>. HIDE DEF p
    <3>. QED
      BY <1>2, <1>5, <3>1
  <2>. HIDE DEF p
  <2>0. PICK g : Joins(g, p, n - 1, T)
    BY <2>1, FlattenIs
  <2>2. /\ g \in [1..(n - 1) -> Seq(T)]
        /\ g[1] = p[1] /\ \A i \in 2..(n - 1) : g[i] = g[i - 1] \o p[i]
        /\ Seqs!FlattenSeq(p) = g[n - 1]
    BY <2>0 DEF Joins
  <2>. DEFINE S == {i \in 1..(n - 1) : h[i + 1] = q[1] \o g[i]}
  <2>3. 1 \in S
    <3>1. 1 \in 1..(n - 1) /\ 1 + 1 \in 2..n /\ (1 + 1) - 1 = 1
      BY <1>5, <1>2
    <3>2. h[1 + 1] = h[1] \o q[1 + 1] /\ g[1] = q[1 + 1]
      BY <1>3, <2>1, <2>2, <3>1
    <3>. QED
      BY <1>3, <3>1, <3>2
  <2>4. ASSUME NEW i \in 1..(n - 1), i \in S, i < n - 1 PROVE i + 1 \in S
    <3>1. /\ i + 1 \in 1..(n - 1) /\ i + 1 \in 2..(n - 1) /\ (i + 1) - 1 = i
          /\ (i + 1) + 1 \in 2..n /\ ((i + 1) + 1) - 1 = i + 1 /\ (i + 1) + 1 \in 1..n
      BY <2>4
    <3>2. /\ h[(i + 1) + 1] = h[i + 1] \o q[(i + 1) + 1]
          /\ g[i + 1] = g[i] \o p[i + 1] /\ p[i + 1] = q[(i + 1) + 1]
      BY <1>3, <2>1, <2>2, <3>1
    <3>3. g[i] \in Seq(T) /\ q[(i + 1) + 1] \in Seq(T)
      BY <1>2, <2>2, <3>1
    <3>4. h[i + 1] = q[1] \o g[i]
      BY <2>4
    <3>5. h[(i + 1) + 1] = q[1] \o g[i + 1]
      <4>1. PICK x \in Seq(T), y \in Seq(T), z \in Seq(T) :
              x = q[1] /\ y = g[i] /\ z = q[(i + 1) + 1]
        BY <1>2, <3>3
      <4>2. Grouped(x, y, z)
        BY GroupThree
      <4>. QED
        BY <3>2, <3>4, <4>1, <4>2, Zenon DEF Grouped
    <3>. QED
      BY <3>1, <3>5
  <2>5. \A i \in 1..(n - 1) : i \in S /\ i < n - 1 => i + 1 \in S
    BY <2>4
  <2>6. n - 1 \in S
    <3>. HIDE DEF S
    <3>1. 1 \in Nat
      OBVIOUS
    <3>2. 1..(n - 1) \subseteq S
      BY <3>1, <2>1, <2>3, <2>5, UpTo, Zenon
    <3>. QED
      BY <2>1, <3>2
  <2>7. h[n] = q[1] \o g[n - 1]
    <3>1. (n - 1) + 1 = n
      OBVIOUS
    <3>. QED
      BY <2>6, <3>1
  <2>. QED
    BY <1>2, <1>3, <2>2, <2>7 DEF p
<1>. QED
  BY <1>4, <1>5

-----------------------------------------------------------------------------
(* The cases that files stand for.                                         *)

Case == (Path \X Name) \cup {Broken}

\* What the files that are included stand for.
Known == [Path -> Seq(Case)]

\* The files that an item includes, by their cases.
Parts(item, of) == [k \in DOMAIN item.includes |-> of[item.includes[k]]]

\* They are sequences of cases, one for each file.
LEMMA PartsType ==
  ASSUME NEW of \in Known, NEW item \in Item
  PROVE  /\ Parts(item, of) \in Seq(Seq(Case)) /\ Len(Parts(item, of)) = Len(item.includes)
         /\ \A k \in 1..Len(item.includes) : Parts(item, of)[k] = of[item.includes[k]]
<1>1. item.includes \in Seq(Path)
  BY DEF Item
<1>2. PICK n \in Nat : n = Len(item.includes)
  BY <1>1
<1>3. DOMAIN item.includes = 1..n /\ \A k \in 1..n : item.includes[k] \in Path
  BY <1>1, <1>2
<1>4. \A k \in 1..n : of[item.includes[k]] \in Seq(Case)
  BY <1>3 DEF Known
<1>5. Parts(item, of) = [k \in 1..n |-> of[item.includes[k]]]
  BY <1>3 DEF Parts
<1>6. [k \in 1..n |-> of[item.includes[k]]] \in Seq(Seq(Case))
  BY <1>4, IsASeq
<1>. QED
  BY <1>2, <1>5, <1>6

\* In the place of an item there are cases.
LEMMA InPlaceType ==
  ASSUME NEW of \in Known, NEW f \in Path, NEW item \in Item
  PROVE  InPlaceOf(f, item, of) \in Seq(Case)
<1>1. <<f, item.name>> \in Case /\ Broken \in Case
  BY DEF Item, Case
<1>2. <<<<f, item.name>>>> \in Seq(Case) /\ <<Broken>> \in Seq(Case)
  BY <1>1
<1>3. Seqs!FlattenSeq(Parts(item, of)) \in Seq(Case)
  BY PartsType, FlattenType
<1>. QED
  BY <1>2, <1>3, Zenon DEF InPlaceOf, Parts

\* The items of a file, by their cases.
Places(f, items, of) == [k \in DOMAIN items |-> InPlaceOf(f, items[k], of)]

\* They are sequences of cases, one for each item.
LEMMA PlacesType ==
  ASSUME NEW of \in Known, NEW f \in Path, NEW items \in Seq(Item)
  PROVE  /\ Places(f, items, of) \in Seq(Seq(Case)) /\ Len(Places(f, items, of)) = Len(items)
         /\ \A k \in 1..Len(items) : Places(f, items, of)[k] = InPlaceOf(f, items[k], of)
<1>1. PICK n \in Nat : n = Len(items)
  OBVIOUS
<1>2. DOMAIN items = 1..n /\ \A k \in 1..n : items[k] \in Item
  BY <1>1
<1>3. \A k \in 1..n : InPlaceOf(f, items[k], of) \in Seq(Case)
  BY <1>2, InPlaceType
<1>4. Places(f, items, of) = [k \in 1..n |-> InPlaceOf(f, items[k], of)]
  BY <1>2 DEF Places
<1>5. [k \in 1..n |-> InPlaceOf(f, items[k], of)] \in Seq(Seq(Case))
  BY <1>3, IsASeq
<1>. QED
  BY <1>1, <1>4, <1>5

\* A file stands for cases.
LEMMA ListedType ==
  ASSUME NEW of \in Known, NEW f \in Path, NEW items \in Seq(Item)
  PROVE  Listed(f, items, of) \in Seq(Case)
<1>1. Seqs!FlattenSeq(Places(f, items, of)) \in Seq(Case)
  BY PlacesType, FlattenType
<1>. QED
  BY <1>1, Zenon DEF Listed, Places

\* A file without items stands for none.
LEMMA ListedNone == ASSUME NEW of, NEW f PROVE Listed(f, <<>>, of) = <<>>
<1>1. [k \in DOMAIN <<>> |-> InPlaceOf(f, <<>>[k], of)] = <<>>
  OBVIOUS
<1>. QED
  BY <1>1, FlattenNone, Zenon DEF Listed

\* The cases of the first item stand before those of the others.
LEMMA ListedFirst ==
  ASSUME NEW of \in Known, NEW f \in Path, NEW item \in Item, NEW rest \in Seq(Item)
  PROVE  Listed(f, <<item>> \o rest, of) = InPlaceOf(f, item, of) \o Listed(f, rest, of)
<1>. DEFINE items == <<item>> \o rest
            q == Places(f, items, of)
            p == Places(f, rest, of)
<1>1. /\ items \in Seq(Item) /\ Len(items) = Len(rest) + 1 /\ items[1] = item
      /\ \A k \in 1..Len(rest) : items[k + 1] = rest[k]
  OBVIOUS
<1>. HIDE DEF items
<1>2. /\ q \in Seq(Seq(Case)) /\ Len(q) = Len(rest) + 1
      /\ \A k \in 1..(Len(rest) + 1) : q[k] = InPlaceOf(f, items[k], of)
  BY <1>1, PlacesType
<1>3. /\ p \in Seq(Seq(Case)) /\ Len(p) = Len(rest)
      /\ \A k \in 1..Len(rest) : p[k] = InPlaceOf(f, rest[k], of)
  BY PlacesType
<1>. HIDE DEF p, q
<1>4. PICK n \in Nat : n = Len(rest)
  OBVIOUS
<1>5. q # <<>> /\ 1 \in 1..(n + 1) /\ Head(q) = q[1]
  BY <1>2, <1>4
<1>6. Head(q) = InPlaceOf(f, item, of)
  BY <1>1, <1>2, <1>4, <1>5
<1>7. Tail(q) = p
  <2>1. /\ Tail(q) \in Seq(Seq(Case)) /\ Len(Tail(q)) = n
        /\ \A k \in 1..Len(Tail(q)) : Tail(q)[k] = q[k + 1]
    <3>1. /\ Tail(q) \in Seq(Seq(Case)) /\ Len(Tail(q)) = Len(q) - 1
          /\ \A k \in 1..Len(Tail(q)) : Tail(q)[k] = q[k + 1]
      BY <1>2, <1>5, HeadTailProperties
    <3>. QED
      BY <1>2, <1>4, <3>1
  <2>2. \A k \in 1..n : Tail(q)[k] = p[k]
    <3>. TAKE k \in 1..n
    <3>1. k + 1 \in 1..(n + 1)
      OBVIOUS
    <3>2. q[k + 1] = InPlaceOf(f, rest[k], of)
      BY <1>1, <1>2, <1>4, <3>1
    <3>. QED
      BY <1>3, <1>4, <2>1, <3>2
  <2>. QED
    BY <1>3, <1>4, <2>1, <2>2, SeqEqual
<1>8. Seqs!FlattenSeq(q) = Head(q) \o Seqs!FlattenSeq(Tail(q))
  BY <1>2, <1>5, FlattenFirst
<1>. QED
  BY <1>6, <1>7, <1>8, Zenon DEF Listed, p, q, Places, items

\* The cases of the first file that an item includes stand before those of what
\* is left of it.
LEMMA IncludeFirst ==
  ASSUME NEW of \in Known, NEW f \in Path, NEW item \in Item, NEW rest \in Seq(Item),
         item.includes # <<>>, ~item.own
  PROVE  /\ Included(item) \o rest \in Seq(Item) /\ Head(item.includes) \in Path
         /\ InPlaceOf(f, item, of) \o Listed(f, rest, of) =
              of[Head(item.includes)] \o Listed(f, Included(item) \o rest, of)
<1>. DEFINE i == Head(item.includes)
            left == [item EXCEPT !.includes = Tail(@)]
            q == Parts(item, of)
<1>1. /\ item.includes \in Seq(Path) /\ i \in Path /\ Tail(item.includes) \in Seq(Path)
      /\ i = item.includes[1] /\ item.name \in Name /\ item.own \in BOOLEAN
      /\ item = [name |-> item.name, own |-> item.own, includes |-> item.includes]
  BY DEF Item
<1>2. PICK n \in Nat : n = Len(item.includes)
  BY <1>1
<1>3. /\ 1 <= n /\ Len(Tail(item.includes)) = n - 1 /\ 1 \in 1..n
      /\ \A k \in 1..(n - 1) : Tail(item.includes)[k] = item.includes[k + 1]
  <2>1. /\ Len(Tail(item.includes)) = Len(item.includes) - 1
        /\ \A k \in 1..Len(Tail(item.includes)) : Tail(item.includes)[k] = item.includes[k + 1]
    BY <1>1, HeadTailProperties
  <2>2. Len(item.includes) # 0
    BY <1>1
  <2>. QED
    BY <1>2, <2>1, <2>2
<1>4. left \in Item /\ left.includes = Tail(item.includes) /\ left.own = FALSE
  BY <1>1 DEF Item
<1>5. /\ q \in Seq(Seq(Case)) /\ Len(q) = n
      /\ \A k \in 1..n : q[k] = of[item.includes[k]]
  BY <1>2, PartsType
<1>6. /\ Parts(left, of) \in Seq(Seq(Case)) /\ Len(Parts(left, of)) = n - 1
      /\ \A k \in 1..(n - 1) : Parts(left, of)[k] = of[item.includes[k + 1]]
  <2>1. /\ Parts(left, of) \in Seq(Seq(Case)) /\ Len(Parts(left, of)) = Len(left.includes)
        /\ \A k \in 1..Len(left.includes) : Parts(left, of)[k] = of[left.includes[k]]
    BY <1>4, PartsType
  <2>. HIDE DEF left
  <2>. QED
    BY <1>3, <1>4, <2>1
<1>. HIDE DEF left, q
<1>7. q # <<>> /\ Head(q) = of[i]
  BY <1>1, <1>3, <1>5
<1>8. Tail(q) = Parts(left, of)
  <2>1. /\ Tail(q) \in Seq(Seq(Case)) /\ Len(Tail(q)) = Len(q) - 1
        /\ \A k \in 1..Len(Tail(q)) : Tail(q)[k] = q[k + 1]
    BY <1>5, <1>7, HeadTailProperties
  <2>2. \A k \in 1..(n - 1) : Tail(q)[k] = Parts(left, of)[k]
    <3>. TAKE k \in 1..(n - 1)
    <3>1. k + 1 \in 1..n
      OBVIOUS
    <3>. QED
      BY <1>5, <1>6, <2>1, <3>1
  <2>. QED
    BY <1>5, <1>6, <2>1, <2>2, SeqEqual
<1>9. InPlaceOf(f, item, of) = of[i] \o Seqs!FlattenSeq(Parts(left, of))
  <2>1. InPlaceOf(f, item, of) = Seqs!FlattenSeq(q)
    BY Zenon DEF InPlaceOf, q, Parts
  <2>2. Seqs!FlattenSeq(q) = Head(q) \o Seqs!FlattenSeq(Tail(q))
    BY <1>5, <1>7, FlattenFirst
  <2>. QED
    BY <1>7, <1>8, <2>1, <2>2, Zenon
<1>10. PICK x \in Seq(Case), y \in Seq(Case), z \in Seq(Case) :
         /\ x = of[i] /\ y = Seqs!FlattenSeq(Parts(left, of)) /\ z = Listed(f, rest, of)
  <2>1. of[i] \in Seq(Case)
    BY <1>1 DEF Known
  <2>2. Seqs!FlattenSeq(Parts(left, of)) \in Seq(Case)
    BY <1>6, FlattenType
  <2>. QED
    BY <2>1, <2>2, ListedType
<1>11. Grouped(x, y, z)
  BY GroupThree
<1>12. CASE n = 1
  <2>1. Included(item) = <<>>
    BY <1>2, <1>12 DEF Included
  <2>2. Included(item) \o rest = rest
    BY <2>1
  <2>3. y = <<>>
    <3>1. Len(Parts(left, of)) = 0
      BY <1>6, <1>12
    <3>2. Parts(left, of) = <<>>
      BY <1>6, <3>1, NoLength, Zenon
    <3>. QED
      BY <1>10, <3>2, FlattenNone
  <2>4. y \o z = z
    BY <2>3, ConcatEmptySeq
  <2>. QED
    BY <1>1, <1>9, <1>10, <1>11, <2>2, <2>4, Zenon DEF Grouped
<1>13. CASE n # 1
  <2>1. Included(item) = <<left>>
    BY <1>2, <1>13 DEF Included, left
  <2>2. Included(item) \o rest \in Seq(Item)
    BY <1>4, <2>1
  <2>3. Listed(f, <<left>> \o rest, of) = InPlaceOf(f, left, of) \o z
    BY <1>4, <1>10, ListedFirst
  <2>4. InPlaceOf(f, left, of) = y
    <3>1. left.includes # <<>>
      <4>1. Len(left.includes) # 0
        <5>1. Len(left.includes) = n - 1
          BY <1>3, <1>4, Zenon
        <5>. QED
          BY <1>13, <5>1
      <4>2. Len(<<>>) = 0
        OBVIOUS
      <4>. QED
        BY <4>1, <4>2, Zenon
    <3>. QED
      BY <1>4, <1>10, <3>1, Zenon DEF InPlaceOf, Parts
  <2>. QED
    BY <1>1, <1>9, <1>10, <1>11, <2>1, <2>2, <2>3, <2>4, Zenon DEF Grouped
<1>. QED
  BY <1>12, <1>13

\* What a file stands for, by what those it includes do, one level down.
LEMMA CasesOfIs ==
  ASSUME NEW tree \in Trees
  PROVE  /\ \A d \in 0..MaxDepth : CasesOf(tree)[d] \in Known
         /\ \A d \in 0..MaxDepth, f \in Path :
              CasesOf(tree)[d][f] =
                IF d = 0 \/ f \notin DOMAIN tree THEN <<Broken>>
                ELSE Listed(f, tree[f], CasesOf(tree)[d - 1])
<1>. DEFINE Level(d, of) == [f \in Path |->
              IF d = 0 \/ f \notin DOMAIN tree THEN <<Broken>> ELSE Listed(f, tree[f], of)]
            Is(h) == h = [d \in 0..MaxDepth |-> [f \in Path |->
              IF d = 0 \/ f \notin DOMAIN tree THEN <<Broken>>
              ELSE Listed(f, tree[f], h[d - 1])]]
<1>1. MaxDepth \in Nat /\ \A f \in DOMAIN tree : tree[f] \in Seq(Item)
  BY ConfigAssumption DEF ConfigAssumption
<1>2. <<Broken>> \in Seq(Case)
  BY DEF Case
<1>3. \A d \in Nat, of \in Known : Level(d, of) \in Known
  <2>. TAKE d \in Nat, of \in Known
  <2>1. ASSUME NEW f \in Path
        PROVE  (IF d = 0 \/ f \notin DOMAIN tree THEN <<Broken>> ELSE Listed(f, tree[f], of))
                  \in Seq(Case)
    BY <1>1, <1>2, ListedType
  <2>. QED
    BY <2>1 DEF Known
<1>4. Level(0, <<>>) \in Known
  BY <1>2 DEF Known
<1>5. \E h : Is(h)
  <2>. DEFINE step == [p \in Nat \X Known |-> Level(p[1], p[2])]
  <2>1. step \in [Nat \X Known -> Known]
    <3>1. ASSUME NEW p \in Nat \X Known PROVE Level(p[1], p[2]) \in Known
      BY <1>3
    <3>. HIDE DEF Level
    <3>. QED
      BY <3>1
  <2>2. ASSUME NEW d \in Nat, NEW of \in Known PROVE step[<<d, of>>] = Level(d, of)
    <3>1. <<d, of>> \in Nat \X Known
      OBVIOUS
    <3>. HIDE DEF Level
    <3>. QED
      BY <3>1
  <2>. HIDE DEF step
  <2>3. PICK h : Iterates(h, 0, MaxDepth, Known, Level(0, <<>>), step)
    <3>1. 0 \in Nat /\ 0 <= MaxDepth
      BY <1>1
    <3>. HIDE DEF Level
    <3>. QED
      BY <1>1, <1>4, <2>1, <3>1, Iterate
  <2>4. /\ h \in [0..MaxDepth -> Known] /\ h[0] = Level(0, <<>>)
        /\ \A d \in (0 + 1)..MaxDepth : h[d] = step[<<d, h[d - 1]>>]
    BY <2>3, Zenon DEF Iterates
  <2>5. \A d \in 0..MaxDepth : h[d] = Level(d, h[d - 1])
    <3>. TAKE d \in 0..MaxDepth
    <3>1. CASE d = 0
      BY <2>4, <3>1
    <3>2. CASE d # 0
      <4>1. d \in (0 + 1)..MaxDepth /\ d \in Nat /\ d - 1 \in 0..MaxDepth
        BY <1>1, <3>2
      <4>2. h[d - 1] \in Known
        BY <2>4, <4>1
      <4>. HIDE DEF Level
      <4>. QED
        BY <2>2, <2>4, <4>1, <4>2
    <3>. QED
      BY <3>1, <3>2
  <2>6. h = [d \in 0..MaxDepth |-> Level(d, h[d - 1])]
    <3>. HIDE DEF Level
    <3>. QED
      BY <2>4, <2>5
  <2>7. Is(h)
    BY <2>6, Zenon
  <2>. HIDE DEF Is
  <2>. QED
    BY <2>7
<1>. DEFINE c == CHOOSE h : Is(h)
<1>6. Is(c)
  BY <1>5, Zenon
<1>7. CasesOf(tree) = c
  BY Zenon DEF CasesOf
<1>. HIDE DEF c
<1>8. \A d \in 0..MaxDepth : c[d] = Level(d, c[d - 1])
  BY <1>6
<1>9. 0..MaxDepth \subseteq {d \in 0..MaxDepth : c[d] \in Known}
  <2>. DEFINE S == {d \in 0..MaxDepth : c[d] \in Known}
  <2>1. 0 \in S
    <3>1. 0 \in 0..MaxDepth
      BY <1>1
    <3>2. c[0] = Level(0, c[0 - 1])
      BY <1>8, <3>1, Zenon
    <3>3. Level(0, c[0 - 1]) = Level(0, <<>>)
      OBVIOUS
    <3>. HIDE DEF Level
    <3>. QED
      BY <1>4, <3>1, <3>2, <3>3
  <2>2. ASSUME NEW d \in 0..MaxDepth, d \in S, d < MaxDepth PROVE d + 1 \in S
    <3>1. d + 1 \in 0..MaxDepth /\ d + 1 \in Nat /\ (d + 1) - 1 = d
      BY <1>1, <2>2
    <3>. HIDE DEF Level
    <3>2. c[d + 1] = Level(d + 1, c[d])
      BY <1>8, <3>1
    <3>. QED
      BY <1>3, <2>2, <3>1, <3>2
  <2>3. \A d \in 0..MaxDepth : d \in S /\ d < MaxDepth => d + 1 \in S
    BY <2>2
  <2>4. 0..MaxDepth \subseteq S
    <3>1. 0 \in Nat
      OBVIOUS
    <3>. HIDE DEF S
    <3>. QED
      BY <1>1, <2>1, <2>3, <3>1, UpTo
  <2>. QED
    BY <2>4
<1>10. \A d \in 0..MaxDepth, f \in Path :
         c[d][f] = IF d = 0 \/ f \notin DOMAIN tree THEN <<Broken>>
                   ELSE Listed(f, tree[f], c[d - 1])
  BY <1>8
<1>. QED
  BY <1>7, <1>9, <1>10, Zenon

-----------------------------------------------------------------------------
(* The stack of files that are being converted.                            *)

Frame == [file : Path, items : Seq(Item)]

\* What frame k of a stack, with fs on top of the others, still stands for.
LeftOf(tree, fr, k) == Listed(fr.file, fr.items, CasesOf(tree)[MaxDepth - k])

\* s[k] is what is left of the first k frames: that of the last one first.
Stacked(tree, fs, s) ==
  /\ s \in [0..Len(fs) -> Seq(Case)] /\ s[0] = <<>>
  /\ \A k \in 1..Len(fs) : s[k] = LeftOf(tree, fs[k], k) \o s[k - 1]

\* The cases of r are still to come, in this order.
ToCome(tree, fs, r) ==
  /\ fs \in Seq(Frame) /\ Len(fs) <= MaxDepth /\ r \in Seq(Case)
  /\ \E s : Stacked(tree, fs, s) /\ r = s[Len(fs)]

\* What a frame stands for are cases.
LEMMA LeftOfType ==
  ASSUME NEW tree \in Trees, NEW fr \in Frame, NEW k \in 1..MaxDepth
  PROVE  LeftOf(tree, fr, k) \in Seq(Case)
<1>1. MaxDepth - k \in 0..MaxDepth /\ fr.file \in Path /\ fr.items \in Seq(Item)
  BY ConfigAssumption DEF ConfigAssumption, Frame
<1>2. CasesOf(tree)[MaxDepth - k] \in Known
  BY <1>1, CasesOfIs
<1>. QED
  BY <1>1, <1>2, ListedType DEF LeftOf

\* From an empty stack nothing is to come.
LEMMA NothingToCome ==
  ASSUME NEW tree \in Trees
  PROVE  /\ ToCome(tree, <<>>, <<>>)
         /\ \A r : ToCome(tree, <<>>, r) => r = <<>>
<1>1. Stacked(tree, <<>>, [k \in 0..0 |-> <<>>])
  BY DEF Stacked
<1>2. Len(<<>>) = 0 /\ [k \in 0..0 |-> <<>>][0] = <<>> /\ <<>> \in Seq(Frame) /\ <<>> \in Seq(Case)
  OBVIOUS
<1>3. 0 <= MaxDepth
  BY ConfigAssumption DEF ConfigAssumption
<1>4. ToCome(tree, <<>>, <<>>)
  BY <1>1, <1>2, <1>3 DEF ToCome
<1>5. ASSUME NEW r, ToCome(tree, <<>>, r) PROVE r = <<>>
  <2>1. PICK s : Stacked(tree, <<>>, s) /\ r = s[Len(<<>>)]
    BY <1>5, Zenon DEF ToCome
  <2>. QED
    BY <1>2, <2>1, Zenon DEF Stacked
<1>. QED
  BY <1>4, <1>5

\* A frame is put on the stack: what is left of it comes first.
LEMMA Push ==
  ASSUME NEW tree \in Trees, NEW fs, NEW r, ToCome(tree, fs, r),
         NEW fr \in Frame, Len(fs) < MaxDepth
  PROVE  ToCome(tree, Append(fs, fr), LeftOf(tree, fr, Len(fs) + 1) \o r)
<1>1. /\ fs \in Seq(Frame) /\ r \in Seq(Case)
      /\ \E s : Stacked(tree, fs, s) /\ r = s[Len(fs)]
  BY DEF ToCome
<1>2. PICK s : Stacked(tree, fs, s) /\ r = s[Len(fs)]
  BY <1>1
<1>3. PICK n \in Nat : n = Len(fs)
  BY <1>1
<1>. DEFINE gs == Append(fs, fr)
            new == LeftOf(tree, fr, n + 1) \o r
            t == [k \in 0..(n + 1) |-> IF k = n + 1 THEN new ELSE s[k]]
<1>4. /\ gs \in Seq(Frame) /\ Len(gs) = n + 1 /\ gs[n + 1] = fr
      /\ \A k \in 1..n : gs[k] = fs[k]
  BY <1>1, <1>3
<1>5. /\ n + 1 \in 1..MaxDepth /\ LeftOf(tree, fr, n + 1) \in Seq(Case)
      /\ new \in Seq(Case)
  <2>1. n + 1 \in 1..MaxDepth
    BY <1>3, ConfigAssumption DEF ConfigAssumption
  <2>2. LeftOf(tree, fr, n + 1) \in Seq(Case)
    BY <2>1, LeftOfType
  <2>. QED
    BY <1>1, <2>1, <2>2, ConcatProperties
<1>6. /\ s \in [0..n -> Seq(Case)] /\ s[0] = <<>> /\ r = s[n]
      /\ \A k \in 1..n : s[k] = LeftOf(tree, fs[k], k) \o s[k - 1]
  BY <1>2, <1>3 DEF Stacked
<1>. HIDE DEF gs, new
<1>7. t \in [0..(n + 1) -> Seq(Case)] /\ t[0] = <<>> /\ t[n + 1] = new
  BY <1>5, <1>6
<1>8. ASSUME NEW k \in 1..(n + 1) PROVE t[k] = LeftOf(tree, gs[k], k) \o t[k - 1]
  <2>1. k - 1 \in 0..n /\ k - 1 # n + 1 /\ t[k - 1] = s[k - 1]
    OBVIOUS
  <2>2. CASE k = n + 1
    <3>1. k - 1 = n
      BY <2>2
    <3>2. t[k - 1] = r
      BY <1>6, <2>1, <3>1
    <3>3. t[k] = new
      BY <1>7, <2>2
    <3>. QED
      BY <1>4, <2>2, <3>2, <3>3, Zenon DEF new
  <2>3. CASE k # n + 1
    <3>1. k \in 1..n /\ t[k] = s[k]
      BY <2>3
    <3>. HIDE DEF t
    <3>. QED
      BY <1>4, <1>6, <2>1, <3>1
  <2>. QED
    BY <2>2, <2>3
<1>9. Stacked(tree, gs, t)
  BY <1>4, <1>7, <1>8, Zenon DEF Stacked
<1>10. Len(gs) <= MaxDepth
  BY <1>4, <1>5
<1>11. ToCome(tree, gs, new)
  BY <1>4, <1>5, <1>7, <1>9, <1>10, Zenon DEF ToCome
<1>. QED
  BY <1>3, <1>11 DEF gs, new

\* The last frame of fs stands for the first cases of r, the others for q.
TopIs(tree, fs, r, n, q) ==
  /\ n = Len(fs) /\ n \in 1..MaxDepth /\ fs[n] \in Frame /\ q \in Seq(Case)
  /\ Len(SubSeq(fs, 1, n - 1)) = n - 1 /\ ToCome(tree, SubSeq(fs, 1, n - 1), q)
  /\ r = LeftOf(tree, fs[n], n) \o q

\* The last frame is taken off the stack.
LEMMA Pop ==
  ASSUME NEW tree \in Trees, NEW fs, NEW r, ToCome(tree, fs, r), fs # <<>>
  PROVE  \E n, q : TopIs(tree, fs, r, n, q)
<1>1. /\ fs \in Seq(Frame) /\ Len(fs) <= MaxDepth
      /\ \E s : Stacked(tree, fs, s) /\ r = s[Len(fs)]
  BY DEF ToCome
<1>2. PICK s : Stacked(tree, fs, s) /\ r = s[Len(fs)]
  BY <1>1
<1>3. PICK n \in Nat : n = Len(fs)
  BY <1>1
<1>. DEFINE gs == SubSeq(fs, 1, n - 1)
            t == [k \in 0..(n - 1) |-> s[k]]
<1>4. /\ n # 0 /\ n \in 1..MaxDepth /\ n - 1 \in 0..n /\ n - 1 <= MaxDepth /\ n \in 1..n
  <2>1. n # 0
    BY <1>1, <1>3, NoLength
  <2>. QED
    BY <1>1, <1>3, <2>1, ConfigAssumption DEF ConfigAssumption
<1>5. gs \in Seq(Frame) /\ Len(gs) = n - 1 /\ \A k \in 1..(n - 1) : gs[k] = fs[k]
  <2>1. \A k \in 1..(n - 1) : fs[k] \in Frame
    BY <1>1, <1>3
  <2>. QED
    BY <1>4, <2>1, SubSeqProperties
<1>6. /\ s \in [0..n -> Seq(Case)] /\ s[0] = <<>> /\ r = s[n]
      /\ \A k \in 1..n : s[k] = LeftOf(tree, fs[k], k) \o s[k - 1]
  BY <1>2, <1>3 DEF Stacked
<1>. HIDE DEF gs
<1>7. /\ t \in [0..(n - 1) -> Seq(Case)] /\ t[0] = <<>>
      /\ \A k \in 1..(n - 1) : t[k] = LeftOf(tree, gs[k], k) \o t[k - 1]
  <2>1. t \in [0..(n - 1) -> Seq(Case)] /\ t[0] = <<>>
    BY <1>4, <1>6
  <2>2. ASSUME NEW k \in 1..(n - 1) PROVE t[k] = LeftOf(tree, gs[k], k) \o t[k - 1]
    <3>1. k \in 1..n /\ t[k] = s[k] /\ t[k - 1] = s[k - 1]
      BY <1>4
    <3>. HIDE DEF t
    <3>. QED
      BY <1>5, <1>6, <3>1
  <2>. QED
    BY <2>1, <2>2
<1>8. Stacked(tree, gs, t) /\ t[n - 1] = s[n - 1] /\ s[n - 1] \in Seq(Case)
  <2>1. s[n - 1] \in Seq(Case)
    BY <1>4, <1>6
  <2>2. n - 1 \in 0..(n - 1)
    BY <1>4
  <2>3. t[n - 1] = s[n - 1]
    BY <2>2
  <2>. HIDE DEF t
  <2>4. Stacked(tree, gs, t)
    BY <1>5, <1>7, Zenon DEF Stacked
  <2>. QED
    BY <2>1, <2>3, <2>4
<1>. HIDE DEF t
<1>9. ToCome(tree, gs, s[n - 1])
  BY <1>4, <1>5, <1>8 DEF ToCome
<1>10. r = LeftOf(tree, fs[n], n) \o s[n - 1]
  BY <1>4, <1>6
<1>11. fs[n] \in Frame
  BY <1>1, <1>3, <1>4
<1>12. s[n - 1] \in Seq(Case)
  BY <1>8
<1>. QED
  BY <1>3, <1>4, <1>5, <1>9, <1>10, <1>11, <1>12, Zenon DEF TopIs, gs

\* The first item of a frame, and those after it.
LEMMA NextItem ==
  ASSUME NEW tree \in Trees, NEW fr \in Frame, NEW n \in 1..MaxDepth, fr.items # <<>>
  PROVE  LET item == Head(fr.items)  of == CasesOf(tree)[MaxDepth - n] IN
         /\ item \in Item /\ Tail(fr.items) \in Seq(Item) /\ fr.file \in Path /\ of \in Known
         /\ LeftOf(tree, fr, n) =
              InPlaceOf(fr.file, item, of) \o Listed(fr.file, Tail(fr.items), of)
<1>1. fr.file \in Path /\ fr.items \in Seq(Item)
  BY DEF Frame
<1>2. Head(fr.items) \in Item /\ Tail(fr.items) \in Seq(Item)
  BY <1>1
<1>3. fr.items = <<Head(fr.items)>> \o Tail(fr.items)
  BY <1>1
<1>4. MaxDepth - n \in 0..MaxDepth
  BY ConfigAssumption DEF ConfigAssumption
<1>5. CasesOf(tree)[MaxDepth - n] \in Known
  BY <1>4, CasesOfIs
<1>6. PICK items : items = fr.items
  OBVIOUS
<1>7. Listed(fr.file, <<Head(items)>> \o Tail(items), CasesOf(tree)[MaxDepth - n]) =
        InPlaceOf(fr.file, Head(items), CasesOf(tree)[MaxDepth - n])
          \o Listed(fr.file, Tail(items), CasesOf(tree)[MaxDepth - n])
  BY <1>1, <1>2, <1>5, <1>6, ListedFirst
<1>. QED
  BY <1>1, <1>2, <1>3, <1>5, <1>6, <1>7, Zenon DEF LeftOf

\* A frame with other items left.
LEMMA OtherItems ==
  ASSUME NEW tree, NEW fr \in Frame, NEW n, NEW items \in Seq(Item)
  PROVE  /\ [fr EXCEPT !.items = items] \in Frame
         /\ LeftOf(tree, [fr EXCEPT !.items = items], n) =
              Listed(fr.file, items, CasesOf(tree)[MaxDepth - n])
<1>1. [fr EXCEPT !.items = items] \in Frame
  BY DEF Frame
<1>2. [fr EXCEPT !.items = items].items = items /\ [fr EXCEPT !.items = items].file = fr.file
  BY DEF Frame
<1>. QED
  BY <1>1, <1>2, Zenon DEF LeftOf

-----------------------------------------------------------------------------
(* The cases that are loaded, and those that are still to come.            *)

\* What the files say.
Flat(tree) == CasesOf(tree)[MaxDepth][CfgFile]

\* What is loaded, and then what is left on the stack, is what the files say.
Loaded(tree, l, fs, cs, e) ==
  /\ cs \in Seq(Case)
  /\ l = "read" => cs = <<>>
  /\ l = "convert" => fs # <<>> /\ \E r : ToCome(tree, fs, r) /\ Flat(tree) = cs \o r
  /\ l = "finalize" => cs = Flat(tree)
  /\ l = "loaded" => IF e THEN \E k \in DOMAIN Flat(tree) : Flat(tree)[k] = Broken
                     ELSE cs = Flat(tree)

LoadInv == Loaded(written.tree, loading, frames, cases, error)

\* The configuration file is read.
LEMMA LoadRead == ASSUME ConfigTypeOK, LoadInv, Read PROVE LoadInv'
<1>1. PICK tree \in Trees : tree = written.tree
  BY DEF ConfigTypeOK, File
<1>2. /\ written' = written /\ written'.tree = tree /\ cases' = cases /\ cases = <<>>
      /\ loading = "read"
  BY <1>1 DEF Read, LoadInv, Loaded
<1>3. MaxDepth \in 0..MaxDepth /\ MaxDepth # 0 /\ MaxDepth - 1 \in 0..MaxDepth /\ 0 < MaxDepth
      /\ CfgFile \in Path
  BY ConfigAssumption DEF ConfigAssumption
<1>4. Flat(tree) = IF CfgFile \notin DOMAIN tree THEN <<Broken>>
                   ELSE Listed(CfgFile, tree[CfgFile], CasesOf(tree)[MaxDepth - 1])
  BY <1>3, CasesOfIs DEF Flat
<1>5. CASE CfgFile \notin DOMAIN tree
  <2>1. loading' = "loaded" /\ error' = TRUE
    BY <1>1, <1>5 DEF Read, Refuse
  <2>2. 1 \in DOMAIN Flat(tree) /\ Flat(tree)[1] = Broken
    BY <1>4, <1>5
  <2>3. cases' \in Seq(Case)
    BY <1>2
  <2>. QED
    BY <1>2, <2>1, <2>2, <2>3 DEF LoadInv, Loaded
<1>6. CASE CfgFile \in DOMAIN tree
  <2>. DEFINE fr == [file |-> CfgFile, items |-> tree[CfgFile]]
  <2>1. loading' = "convert" /\ frames' = <<fr>>
    BY <1>1, <1>6 DEF Read
  <2>2. fr \in Frame /\ fr.file = CfgFile /\ fr.items = tree[CfgFile]
    BY <1>3, <1>6, ConfigAssumption DEF Frame, ConfigAssumption
  <2>. HIDE DEF fr
  <2>3. ToCome(tree, Append(<<>>, fr), LeftOf(tree, fr, 0 + 1) \o <<>>)
    <3>1. Len(<<>>) = 0
      OBVIOUS
    <3>2. ToCome(tree, Append(<<>>, fr), LeftOf(tree, fr, Len(<<>>) + 1) \o <<>>)
      BY <1>3, <2>2, <3>1, NothingToCome, Push
    <3>. QED
      BY <3>1, <3>2, Zenon
  <2>4. Append(<<>>, fr) = <<fr>> /\ <<fr>> # <<>> /\ 0 + 1 = 1
    OBVIOUS
  <2>5. LeftOf(tree, fr, 1) = Flat(tree)
    BY <1>4, <1>6, <2>2, Zenon DEF LeftOf
  <2>6. Flat(tree) \in Seq(Case)
    BY <1>3, CasesOfIs DEF Flat, Known
  <2>7. Flat(tree) \o <<>> = Flat(tree) /\ <<>> \o Flat(tree) = Flat(tree)
    BY <2>6
  <2>8. ToCome(tree, <<fr>>, Flat(tree)) /\ Flat(tree) = <<>> \o Flat(tree)
    BY <2>3, <2>4, <2>5, <2>7, Zenon
  <2>9. cases' \in Seq(Case)
    BY <1>2
  <2>10. \E r : ToCome(tree, frames', r) /\ Flat(tree) = cases' \o r
    BY <1>2, <2>1, <2>8, Zenon
  <2>. QED
    BY <1>2, <2>1, <2>4, <2>9, <2>10 DEF LoadInv, Loaded
<1>. QED
  BY <1>5, <1>6

\* The frame on the top, and what is still to come before and after it is left.
LEMMA AtTop ==
  ASSUME ConfigTypeOK, LoadInv, loading = "convert"
  PROVE  \E tree \in Trees, n \in 1..MaxDepth : \E q :
           /\ tree = written.tree /\ n = Len(frames) /\ Top \in Frame /\ Len(Rest) = n - 1
           /\ ToCome(tree, Rest, q) /\ q \in Seq(Case) /\ cases \in Seq(Case)
           /\ Flat(tree) = cases \o (LeftOf(tree, Top, n) \o q)
<1>1. PICK tree \in Trees : tree = written.tree
  BY DEF ConfigTypeOK, File
<1>2. cases \in Seq(Case) /\ frames # <<>>
      /\ \E r : ToCome(tree, frames, r) /\ Flat(tree) = cases \o r
  BY <1>1 DEF LoadInv, Loaded
<1>3. PICK r : ToCome(tree, frames, r) /\ Flat(tree) = cases \o r
  BY <1>2
<1>4. PICK n, q : TopIs(tree, frames, r, n, q)
  BY <1>2, <1>3, Pop, Zenon
<1>. QED
  BY <1>1, <1>2, <1>3, <1>4, Zenon DEF TopIs, Top, Rest

\* The case after those of w.
LEMMA CaseAfter ==
  ASSUME NEW S, NEW w \in Seq(S), NEW c \in S, NEW y \in Seq(S), NEW z \in Seq(S)
  PROVE  LET all == w \o ((<<c>> \o y) \o z)
         IN  Len(w) + 1 \in DOMAIN all /\ all[Len(w) + 1] = c
<1>1. PICK x \in Seq(S) : x = <<c>>
  <2>1. <<c>> \in Seq(S)
    OBVIOUS
  <2>. QED
    BY <2>1
<1>2. PICK v \in Seq(S) : v = y \o z
  BY ConcatProperties
<1>3. w \o ((x \o y) \o z) = (w \o x) \o v
  <2>1. Regrouped(w, x, y, z)
    BY <1>1, Regroup
  <2>. QED
    BY <1>2, <2>1, Zenon DEF Regrouped
<1>4. PICK u \in Seq(S) : u = w \o x
  BY ConcatProperties
<1>5. Len(u) = Len(w) + 1 /\ u[Len(w) + 1] = c
  BY <1>1, <1>4
<1>6. Len(w) + 1 \in DOMAIN (u \o v) /\ (u \o v)[Len(w) + 1] = c
  BY <1>5
<1>. QED
  BY <1>1, <1>3, <1>4, <1>6, Zenon

\* A case of its own is converted.
LEMMA LoadOwnCase ==
  ASSUME ConfigTypeOK, LoadInv, loading = "convert", written' = written, OwnCase
  PROVE  LoadInv'
<1>a. PICK tree \in Trees, n \in 1..MaxDepth : \E q :
         /\ tree = written.tree /\ n = Len(frames) /\ Top \in Frame /\ Len(Rest) = n - 1
         /\ ToCome(tree, Rest, q) /\ q \in Seq(Case) /\ cases \in Seq(Case)
         /\ Flat(tree) = cases \o (LeftOf(tree, Top, n) \o q)
  BY AtTop
<1>1. PICK q :
         /\ tree = written.tree /\ n = Len(frames) /\ Top \in Frame /\ Len(Rest) = n - 1
         /\ ToCome(tree, Rest, q) /\ q \in Seq(Case) /\ cases \in Seq(Case)
         /\ Flat(tree) = cases \o (LeftOf(tree, Top, n) \o q)
  BY <1>a
<1>2. PICK top \in Frame, cs \in Seq(Case) : top = Top /\ cs = cases
  BY <1>1
<1>0. PICK low : low = Rest
  OBVIOUS
<1>. DEFINE item == Head(top.items)
            of == CasesOf(tree)[MaxDepth - n]
            y == Listed(top.file, Tail(top.items), of)
            c == <<top.file, item.name>>
            fr == [top EXCEPT !.items = Tail(top.items)]
<1>3. /\ top.items # <<>> /\ item.includes = <<>> /\ cases' = Append(cs, c)
      /\ frames' = Append(low, fr) /\ loading' = "convert"
  BY <1>0, <1>2 DEF OwnCase, Left
<1>4. /\ item \in Item /\ Tail(top.items) \in Seq(Item) /\ top.file \in Path /\ of \in Known
      /\ LeftOf(tree, top, n) = InPlaceOf(top.file, item, of) \o y
  BY <1>3, NextItem
<1>5. InPlaceOf(top.file, item, of) = <<c>>
  BY <1>3, Zenon DEF InPlaceOf
<1>6. fr \in Frame /\ LeftOf(tree, fr, n) = y
  BY <1>4, OtherItems
<1>7. y \in Seq(Case) /\ c \in Case
  BY <1>4, ListedType DEF Item, Case
<1>. HIDE DEF fr, y, c, of, item
<1>8. ToCome(tree, Append(low, fr), y \o q)
  <2>1. Len(low) = n - 1 /\ Len(low) + 1 = n /\ Len(low) < MaxDepth
    BY <1>0, <1>1, <1>2, ConfigAssumption DEF ConfigAssumption
  <2>2. ToCome(tree, Append(low, fr), LeftOf(tree, fr, Len(low) + 1) \o q)
    BY <1>0, <1>1, <1>2, <1>6, <2>1, Push
  <2>. QED
    BY <1>6, <2>1, <2>2, Zenon
<1>9. cases' = cs \o <<c>> /\ cases' \in Seq(Case)
  BY <1>3, <1>7
<1>10. Flat(tree) = cases' \o (y \o q)
  <2>1. <<c>> \in Seq(Case)
    BY <1>7
  <2>2. Regrouped(cs, <<c>>, y, q)
    BY <1>1, <1>2, <1>7, <2>1, Regroup
  <2>. QED
    BY <1>0, <1>1, <1>2, <1>4, <1>5, <1>9, <2>2, Zenon DEF Regrouped
<1>11. frames' # <<>>
  <2>1. low \in Seq(Frame)
    BY <1>0, <1>1, <1>2 DEF ToCome
  <2>. QED
    BY <1>3, <1>6, <2>1
<1>. QED
  BY <1>1, <1>3, <1>8, <1>9, <1>10, <1>11 DEF LoadInv, Loaded

\* A file is included, or the conversion stops.
LEMMA LoadInclude ==
  ASSUME ConfigTypeOK, LoadInv, loading = "convert", written' = written, Include
  PROVE  LoadInv'
<1>a. PICK tree \in Trees, n \in 1..MaxDepth : \E q :
         /\ tree = written.tree /\ n = Len(frames) /\ Top \in Frame /\ Len(Rest) = n - 1
         /\ ToCome(tree, Rest, q) /\ q \in Seq(Case) /\ cases \in Seq(Case)
         /\ Flat(tree) = cases \o (LeftOf(tree, Top, n) \o q)
  BY AtTop
<1>1. PICK q :
         /\ tree = written.tree /\ n = Len(frames) /\ Top \in Frame /\ Len(Rest) = n - 1
         /\ ToCome(tree, Rest, q) /\ q \in Seq(Case) /\ cases \in Seq(Case)
         /\ Flat(tree) = cases \o (LeftOf(tree, Top, n) \o q)
  BY <1>a
<1>2. PICK top \in Frame, cs \in Seq(Case) : top = Top /\ cs = cases
  BY <1>1
<1>0. PICK low : low = Rest
  OBVIOUS
<1>. DEFINE item == Head(top.items)
            rest == Tail(top.items)
            f == Head(item.includes)
            of == CasesOf(tree)[MaxDepth - n]
            y == Listed(top.file, rest, of)
            z == Listed(top.file, Included(item) \o rest, of)
<1>3. top.items # <<>> /\ item.includes # <<>> /\ cases' = cs
  BY <1>0, <1>2 DEF Include
<1>4. /\ item \in Item /\ rest \in Seq(Item) /\ top.file \in Path /\ of \in Known
      /\ LeftOf(tree, top, n) = InPlaceOf(top.file, item, of) \o y
  BY <1>3, NextItem
<1>5. y \in Seq(Case)
  BY <1>4, ListedType
<1>6. ASSUME ~item.own
      PROVE  /\ Included(item) \o rest \in Seq(Item) /\ f \in Path
             /\ InPlaceOf(top.file, item, of) \o y = of[f] \o z
             /\ of[f] \in Seq(Case) /\ z \in Seq(Case)
  <2>. HIDE DEF item, rest, of
  <2>1. /\ Included(item) \o rest \in Seq(Item) /\ f \in Path
        /\ InPlaceOf(top.file, item, of) \o y = of[f] \o z
    BY <1>3, <1>4, <1>6, IncludeFirst
  <2>. QED
    BY <1>4, <2>1, ListedType DEF Known
<1>7. MaxDepth - n \in 0..MaxDepth /\ n \in Nat /\ MaxDepth \in Nat /\ n <= MaxDepth
  BY ConfigAssumption DEF ConfigAssumption
<1>8. ASSUME ~item.own
      PROVE  of[f] = IF MaxDepth - n = 0 \/ f \notin DOMAIN tree THEN <<Broken>>
                     ELSE Listed(f, tree[f], CasesOf(tree)[(MaxDepth - n) - 1])
  <2>1. f \in Path
    BY <1>6, <1>8
  <2>. HIDE DEF f
  <2>. QED
    BY <1>7, <2>1, CasesOfIs
<1>. HIDE DEF item, rest, f, of, y, z
<1>9. CASE item.own \/ f \notin DOMAIN tree
  <2>1. loading' = "loaded" /\ error' = TRUE
    BY <1>0, <1>1, <1>2, <1>9 DEF Include, Refuse, item, f
  <2>2. PICK v \in Seq(Case) : InPlaceOf(top.file, item, of) \o y = <<Broken>> \o v
    <3>1. CASE item.own
      BY <1>3, <1>5, <3>1, Zenon DEF InPlaceOf
    <3>2. CASE ~item.own
      BY <1>6, <1>8, <1>9, <3>2, Zenon
    <3>. QED
      BY <3>1, <3>2
  <2>3. Flat(tree) = cs \o ((<<Broken>> \o v) \o q)
    BY <1>0, <1>1, <1>2, <1>4, <2>2, Zenon
  <2>4. Broken \in Case
    BY DEF Case
  <2>5. Len(cs) + 1 \in DOMAIN Flat(tree) /\ Flat(tree)[Len(cs) + 1] = Broken
    BY <1>1, <1>2, <2>2, <2>3, <2>4, CaseAfter
  <2>. QED
    BY <1>1, <1>3, <2>1, <2>5 DEF LoadInv, Loaded
<1>10. CASE ~(item.own \/ f \notin DOMAIN tree) /\ n = MaxDepth
  <2>1. loading' = "exhausted"
    BY <1>0, <1>1, <1>2, <1>10 DEF Include, item, f
  <2>. QED
    BY <1>3, <2>1 DEF LoadInv, Loaded
<1>11. CASE ~(item.own \/ f \notin DOMAIN tree) /\ n # MaxDepth
  <2>. DEFINE fr == [top EXCEPT !.items = Included(item) \o rest]
              in == [file |-> f, items |-> tree[f]]
              gs == Append(low, fr)
  <2>1. loading' = "convert" /\ frames' = Append(gs, in)
    BY <1>0, <1>1, <1>2, <1>11 DEF Include, Left, item, rest, f
  <2>2. fr \in Frame /\ LeftOf(tree, fr, n) = z
    BY <1>6, <1>11, OtherItems DEF z, of
  <2>3. in \in Frame /\ in.file = f /\ in.items = tree[f]
    BY <1>6, <1>11, ConfigAssumption DEF Frame, ConfigAssumption
  <2>. HIDE DEF fr, in
  <2>4. ToCome(tree, gs, z \o q) /\ Len(gs) = n /\ gs \in Seq(Frame)
    <3>1. Len(low) = n - 1 /\ Len(low) + 1 = n /\ Len(low) < MaxDepth
      BY <1>0, <1>1, <1>2, <1>7
    <3>2. ToCome(tree, gs, LeftOf(tree, fr, Len(low) + 1) \o q)
      BY <1>0, <1>1, <1>2, <2>2, <3>1, Push
    <3>3. low \in Seq(Frame)
      BY <1>0, <1>1, <1>2 DEF ToCome
    <3>4. Len(gs) = Len(low) + 1 /\ gs \in Seq(Frame)
      BY <2>2, <3>3
    <3>. QED
      BY <2>2, <3>1, <3>2, <3>4, Zenon
  <2>. HIDE DEF gs
  <2>5. LeftOf(tree, in, n + 1) = of[f]
    <3>1. MaxDepth - n # 0 /\ MaxDepth - (n + 1) = (MaxDepth - n) - 1
      BY <1>7, <1>11
    <3>. QED
      BY <1>8, <1>11, <2>3, <3>1, Zenon DEF LeftOf
  <2>6. ToCome(tree, Append(gs, in), of[f] \o (z \o q))
    <3>1. Len(gs) < MaxDepth
      BY <1>7, <1>11, <2>4
    <3>2. ToCome(tree, Append(gs, in), LeftOf(tree, in, Len(gs) + 1) \o (z \o q))
      BY <2>3, <2>4, <3>1, Push
    <3>. QED
      BY <2>4, <2>5, <3>2, Zenon
  <2>7. Flat(tree) = cs \o (of[f] \o (z \o q))
    <3>1. PICK x \in Seq(Case) : x = of[f]
      BY <1>6, <1>11
    <3>2. z \in Seq(Case) /\ q \in Seq(Case)
      BY <1>1, <1>6, <1>11
    <3>3. Grouped(x, z, q)
      BY <3>1, <3>2, GroupThree
    <3>. QED
      BY <1>0, <1>1, <1>2, <1>4, <1>6, <1>11, <3>1, <3>3, Zenon DEF Grouped
  <2>8. frames' # <<>>
    BY <2>1, <2>3, <2>4
  <2>9. \E r : ToCome(tree, frames', r) /\ Flat(tree) = cases' \o r
    BY <1>3, <2>1, <2>6, <2>7, Zenon
  <2>. QED
    BY <1>1, <1>3, <2>1, <2>8, <2>9 DEF LoadInv, Loaded
<1>. QED
  BY <1>9, <1>10, <1>11

\* A file is done.
LEMMA LoadFileDone ==
  ASSUME ConfigTypeOK, LoadInv, loading = "convert", written' = written, FileDone
  PROVE  LoadInv'
<1>a. PICK tree \in Trees, n \in 1..MaxDepth : \E q :
         /\ tree = written.tree /\ n = Len(frames) /\ Top \in Frame /\ Len(Rest) = n - 1
         /\ ToCome(tree, Rest, q) /\ q \in Seq(Case) /\ cases \in Seq(Case)
         /\ Flat(tree) = cases \o (LeftOf(tree, Top, n) \o q)
  BY AtTop
<1>1. PICK q :
         /\ tree = written.tree /\ n = Len(frames) /\ Top \in Frame /\ Len(Rest) = n - 1
         /\ ToCome(tree, Rest, q) /\ q \in Seq(Case) /\ cases \in Seq(Case)
         /\ Flat(tree) = cases \o (LeftOf(tree, Top, n) \o q)
  BY <1>a
<1>2. LeftOf(tree, Top, n) = <<>>
  BY ListedNone DEF FileDone, LeftOf
<1>3. Flat(tree) = cases \o q
  <2>1. <<>> \o q = q
    BY <1>1
  <2>. QED
    BY <1>1, <1>2, <2>1, Zenon
<1>4. cases' = cases /\ frames' = Rest /\ cases' \in Seq(Case)
  BY <1>1 DEF FileDone
<1>5. CASE Rest = <<>>
  <2>1. q = <<>>
    BY <1>1, <1>5, NothingToCome
  <2>2. cases \o <<>> = cases
    BY <1>1
  <2>3. cases' = Flat(tree) /\ loading' = "finalize"
    BY <1>3, <1>4, <1>5, <2>1, <2>2 DEF FileDone
  <2>. QED
    BY <1>1, <1>4, <2>3 DEF LoadInv, Loaded
<1>6. CASE Rest # <<>>
  <2>1. loading' = "convert"
    BY <1>6 DEF FileDone
  <2>2. \E r : ToCome(tree, frames', r) /\ Flat(tree) = cases' \o r
    BY <1>1, <1>3, <1>4, Zenon
  <2>. QED
    BY <1>1, <1>4, <1>6, <2>1, <2>2 DEF LoadInv, Loaded
<1>. QED
  BY <1>5, <1>6

\* Every step of the loader.
LEMMA LoadStep == ASSUME ConfigTypeOK, LoadInv, ReadGlobalConfigFile PROVE LoadInv'
<1>1. CASE Convert
  BY <1>1, LoadOwnCase, LoadInclude, LoadFileDone DEF Convert
<1>2. CASE Finalize
  <2>1. /\ written' = written /\ cases' = cases /\ loading' = "loaded" /\ error' = FALSE
        /\ cases \in Seq(Case) /\ cases = Flat(written.tree)
    BY <1>2 DEF Finalize, LoadInv, Loaded
  <2>. QED
    BY <2>1 DEF LoadInv, Loaded
<1>. QED
  BY <1>1, <1>2, LoadRead DEF ReadGlobalConfigFile

\* readGlobalConfigFile loads a file as it is written: the cases are those of
\* the file and, in their places, in their order and known by their own files,
\* those of the files it includes; an error tells of one that cannot be read.
THEOREM LoadsWhatIsWritten == Spec => []LoadedAsWritten
<1>1. Init => LoadInv
  <2>. SUFFICES ASSUME Init PROVE LoadInv
    OBVIOUS
  <2>1. cases = <<>> /\ loading = "read"
    BY DEF Init, ConfigInit
  <2>. QED
    BY <2>1 DEF LoadInv, Loaded
<1>2. RunInv /\ LoadInv /\ [Next]_vars => LoadInv'
  <2>. SUFFICES ASSUME RunInv, LoadInv, [Next]_vars PROVE LoadInv'
    OBVIOUS
  <2>1. CASE Load
    BY <2>1, LoadStep DEF Load, RunInv, Inv, TypeOK
  <2>2. CASE ~Load
    <3>1. UNCHANGED configVars
      BY <2>2
         DEF Next, Main, Start, Setup, Trigger, Receive, Assert, Verify, Deferred, StopAction,
             Cleanup, Signal, AssertCrash, EndStage, Beside, vars
    <3>. QED
      BY <3>1 DEF configVars, LoadInv
  <2>. QED
    BY <2>1, <2>2
<1>3. LoadInv => LoadedAsWritten
  BY DEF LoadInv, Loaded, LoadedAsWritten, Flat
<1>. QED
  BY <1>1, <1>2, <1>3, RunInvHolds, PTL DEF Spec
=============================================================================

------------------------------ MODULE SetupErr ------------------------------
(***************************************************************************)
(* The local variable `err` of ComposeSetup and of KindSetup.  The closure *)
(* they give their container listener captures it and assigns it, without  *)
(* a lock, from the goroutine of the listener; the caller assigns it the   *)
(* result of a stage, tests it, and reads it once more to return it.  Each *)
(* of these accesses is a step of its own.                                 *)
(***************************************************************************)
VARIABLES
  main,         \* where the caller is
  err,          \* the shared variable: "nil" or "err"
  stage,        \* the stage whose result the caller last assigned to err
  failed,       \* history: a stage has failed
  overwritten,  \* history: the listener has assigned err between such an
                \* assignment and the last read of it
  returned      \* what the caller returned: "none" until it does

errVars == <<main, err, stage, failed, overwritten, returned>>

Errors == {"nil", "err"}

ErrInit ==
  /\ main = "prepare" /\ err = "nil" /\ stage = "prepare" /\ failed = FALSE
  /\ overwritten = FALSE /\ returned = "none"

ErrTypeOK ==
  /\ err \in Errors /\ returned \in Errors \cup {"none"}
  /\ failed \in BOOLEAN /\ overwritten \in BOOLEAN

\* The caller returns a value of its own, whatever err holds.
ReturnValue(v) ==
  /\ main' = "done" /\ returned' = v /\ failed' = (failed \/ v = "err")
  /\ UNCHANGED <<err, stage, overwritten>>

\* err = <stage>(...): its result is assigned, to be tested next.
AssignErr(from, v) ==
  /\ err' = v /\ failed' = (failed \/ v = "err")
  /\ stage' = from /\ main' = "check" /\ UNCHANGED <<overwritten, returned>>

\* Fault: the error of the steps is logged and the setup goes on.
CheckErr_ignores_steps(next) ==
  /\ main = "check"
  /\ IF err # "nil" /\ stage # "steps" THEN main' = "return" /\ UNCHANGED returned
     ELSE /\ main' = next
          /\ returned' = IF next = "done" THEN "nil" ELSE returned
  /\ UNCHANGED <<err, stage, failed, overwritten>>

\* if err != nil { return err }: a first read ...
CheckErr(next) ==
  /\ main = "check"
  /\ IF err # "nil" THEN main' = "return" /\ UNCHANGED returned
     ELSE /\ main' = next
          /\ returned' = IF next = "done" THEN "nil" ELSE returned
  /\ UNCHANGED <<err, stage, failed, overwritten>>

\* ... and a second one.
ReturnErr ==
  /\ main = "return"
  /\ main' = "done" /\ returned' = err
  /\ UNCHANGED <<err, stage, failed, overwritten>>

\* The listener's callback assigns the result of its own call.
OverwriteErr(v) ==
  /\ err' = v /\ overwritten' = (overwritten \/ main \in {"check", "return"})
  /\ UNCHANGED <<main, stage, failed, returned>>

-----------------------------------------------------------------------------
\* Whatever the listener does beside it, the caller fails exactly when one of
\* its stages has, unless err is assigned between a stage and its last test.
ReturnsItsOwn ==
  returned # "none" /\ ~overwritten => (returned = "err" <=> failed)
=============================================================================

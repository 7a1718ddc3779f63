---------------------------- MODULE CaseVerdict ----------------------------
(***************************************************************************)
(* What a list of cases promises its caller, whatever runs it (verify or   *)
(* assert, one case after the other or all at once): every case is passed  *)
(* or failed at most once, the cases never settled are skipped and there   *)
(* are some only when fail-fast is on and a case failed, and the list is   *)
(* an error exactly when a case failed or the list was refused unrun.      *)
(* A list whose attempts run in goroutines of their own may also die.      *)
(***************************************************************************)
CONSTANT Case

VARIABLES failFast,  \* the fail-fast setting of the list
          mayDie,    \* a panic may end the process
          verdict,   \* [Case -> {"pending", "pass", "fail", "skip"}]
          outcome    \* what the caller sees: "running", "ok", "error" or "dead"

vars == <<failFast, mayDie, verdict, outcome>>

Failed  == {c \in Case : verdict[c] = "fail"}
Pending == {c \in Case : verdict[c] = "pending"}

Init ==
  /\ failFast \in BOOLEAN /\ mayDie \in BOOLEAN
  /\ verdict = [c \in Case |-> "pending"]
  /\ outcome = "running"

\* A pending case is decided, once and for all.
Settle(c) ==
  /\ outcome = "running"
  /\ verdict[c] = "pending"
  /\ \E v \in {"pass", "fail"} : verdict' = [verdict EXCEPT ![c] = v]
  /\ UNCHANGED <<failFast, mayDie, outcome>>

\* A bad configuration is an error before any case is looked at.
Refuse ==
  /\ outcome = "running"
  /\ Pending = Case
  /\ outcome' = "error"
  /\ UNCHANGED <<failFast, mayDie, verdict>>

\* The list ends; what is still pending is skipped.
Finish ==
  /\ outcome = "running"
  /\ Pending # {} => failFast /\ Failed # {}
  /\ verdict' = [c \in Case |-> IF c \in Pending THEN "skip" ELSE verdict[c]]
  /\ outcome' = IF Failed # {} THEN "error" ELSE "ok"
  /\ UNCHANGED <<failFast, mayDie>>

\* The process ends without an answer.
Die ==
  /\ outcome = "running" /\ mayDie
  /\ outcome' = "dead"
  /\ UNCHANGED <<failFast, mayDie, verdict>>

Next == Refuse \/ Finish \/ Die \/ \E c \in Case : Settle(c)

Spec == Init /\ [][Next]_vars /\ WF_vars(Next)
=============================================================================

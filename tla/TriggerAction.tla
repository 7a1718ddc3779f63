--------------------------- MODULE TriggerAction ---------------------------
(***************************************************************************)
(* internal/components/trigger: the goroutine behind Action.Do, for the    *)
(* two kinds of action.  "http" keeps sending requests after the first     *)
(* answer until it is stopped; "hera-http" ends with its first answer.     *)
(* The module has no caller of its own: Run adds the one that receives     *)
(* from the channel of Do and calls Stop.                                  *)
(***************************************************************************)
EXTENDS Integers

CONSTANTS MaxTimes,       \* bound on trigger.times
          ServerMayHang   \* whether a request may never be answered: the
                          \* http.Client of the code has no timeout

ASSUME TriggerAssumption == MaxTimes \in Nat /\ ServerMayHang \in BOOLEAN

VARIABLES
  cfg,      \* the trigger section of the configuration, fixed
  place,    \* where the goroutine is
  count,    \* executedCount
  sent,     \* http: the first answer has been sent
  val,      \* the value being sent: "nil" or "err"
  tick,     \* a tick is waiting in the channel of the ticker
  stop,     \* stopCh: "none", "offered" or "taken"
  answer,   \* what the caller received: "none", "nil" or "err"
  okDone    \* history: a request was answered 200

actionVars == <<cfg, place, count, sent, val, tick, stop, answer, okDone>>

Kinds == {"http", "hera-http"}

Config == [kind : Kinds, times : 0..MaxTimes,
           badURL : BOOLEAN]     \* http.NewRequest refuses the url

ActionInit ==
  /\ cfg \in Config
  /\ place = "none" /\ count = 0 /\ sent = FALSE /\ val = "nil"
  /\ tick = FALSE /\ stop = "none" /\ answer = "none" /\ okDone = FALSE

ActionTypeOK ==
  /\ cfg \in Config
  /\ place \in {"none", "select", "execute", "hung", "send", "stopSend", "exit"}
  /\ count \in 0..(MaxTimes + 1)
  /\ sent \in BOOLEAN /\ tick \in BOOLEAN /\ okDone \in BOOLEAN
  /\ val \in {"nil", "err"} /\ answer \in {"none", "nil", "err"}
  /\ stop \in {"none", "offered", "taken"}

-----------------------------------------------------------------------------
\* Do starts the goroutine and its ticker.
Do ==
  /\ place = "none" /\ place' = "select"
  /\ UNCHANGED <<cfg, count, sent, val, tick, stop, answer, okDone>>

\* The ticker fires; its channel holds one tick, a second one is dropped.
Tick ==
  /\ place \in {"select", "execute", "send"} /\ ~tick
  /\ tick' = TRUE
  /\ UNCHANGED <<cfg, place, count, sent, val, stop, answer, okDone>>

\* Fault: a request that always fails is never given up.
Finished_never_gives_up(ok, n) == ok /\ (cfg.kind = "http" => ~sent)

\* The test after execute, in both kinds: is its result to be sent?
\* times = 0 is never reached by a counter that has moved.
Finished(ok, n) ==
  /\ cfg.kind = "http" => ~sent
  /\ ok \/ cfg.times = n

AfterExecute(ok, n) ==
  IF Finished(ok, n)
  THEN place' = "send" /\ val' = IF ok THEN "nil" ELSE "err"
  ELSE place' = "select" /\ UNCHANGED val

\* The select takes a tick.  A request that cannot even be built fails before
\* it is counted.
TakeTick ==
  /\ place = "select" /\ tick
  /\ tick' = FALSE
  /\ IF cfg.badURL
     THEN AfterExecute(FALSE, count)
     ELSE place' = "execute" /\ UNCHANGED val
  /\ UNCHANGED <<cfg, count, sent, stop, answer, okDone>>

\* Fault: the attempts are counted down.
Counted_down == IF count > cfg.times THEN count ELSE count - 1

\* Bound: beyond times + 1 the counter is never compared equal again.
Counted == IF count > cfg.times THEN count ELSE count + 1

\* Fault: the counter is compared before it is incremented.
Answer_off_by_one(ok) ==
  /\ place = "execute"
  /\ count' = Counted
  /\ AfterExecute(ok, count)
  /\ okDone' = (okDone \/ ok)
  /\ UNCHANGED <<cfg, sent, tick, stop, answer>>

\* The request under way is answered, 200 or not.
Answer(ok) ==
  /\ place = "execute"
  /\ count' = Counted
  /\ AfterExecute(ok, Counted)
  /\ okDone' = (okDone \/ ok)
  /\ UNCHANGED <<cfg, sent, tick, stop, answer>>

\* Or it never is.
Hang ==
  /\ ServerMayHang
  /\ place = "execute" /\ place' = "hung"
  /\ UNCHANGED <<cfg, count, sent, val, tick, stop, answer, okDone>>

\* Fault: the goroutine of http ends with its answer, and its Stop blocks.
Deliver_ends ==
  /\ place = "send" /\ answer = "none"
  /\ answer' = val
  /\ sent' = TRUE /\ place' = "exit" /\ tick' = FALSE
  /\ UNCHANGED <<cfg, count, val, stop, okDone>>

\* The unbuffered result channel hands val to the waiting caller.
Deliver ==
  /\ place = "send" /\ answer = "none"
  /\ answer' = val
  /\ IF cfg.kind = "http"
     THEN sent' = TRUE /\ place' = "select" /\ UNCHANGED tick
     ELSE place' = "exit" /\ tick' = FALSE /\ UNCHANGED sent
  /\ UNCHANGED <<cfg, count, val, stop, okDone>>

\* The select takes the stop; `result <- nil` then waits for a receiver
\* that is gone.
TakeStop ==
  /\ place = "select" /\ stop = "offered"
  /\ place' = "stopSend" /\ stop' = "taken" /\ tick' = FALSE
  /\ UNCHANGED <<cfg, count, sent, val, answer, okDone>>

\* Fault: Stop does not wait, the channel of http has a buffer.
StopReturns_at_once == stop # "none"

\* Stop returns when the goroutine takes the token: the stop channel of
\* hera-http has a buffer for it, the one of http has not.
StopReturns == IF cfg.kind = "http" THEN stop = "taken" ELSE stop # "none"

OfferStop ==
  /\ stop = "none" /\ stop' = "offered"
  /\ UNCHANGED <<cfg, place, count, sent, val, tick, answer, okDone>>

Goroutine == TakeTick \/ (\E ok \in BOOLEAN : Answer(ok)) \/ TakeStop
=============================================================================

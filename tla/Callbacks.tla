----------------------------- MODULE Callbacks ------------------------------
(***************************************************************************)
(* Solution 1: the webhooks of StreamTask's outcomes.  The worker that     *)
(* ends a task, or the request that cancels it, appends an event to a      *)
(* queue in Redis; dispatchers take events from the queue, look the user's *)
(* subscription up in Postgres and post the event to its URL.  An event    *)
(* the receiver does not take is put on a schedule and comes back to the   *)
(* queue, until its attempts are used up and it goes to the dead letters.  *)
(*                                                                         *)
(* The queue is a Redis list that gives an event away before it has been   *)
(* told: a call that fails or a dispatcher that crashes loses the event it *)
(* holds.  missed collects the tasks whose event was lost in this way, or  *)
(* could not be queued.                                                    *)
(***************************************************************************)
EXTENDS StreamTask, Sequences

CONSTANTS
  Dispatchers,  \* processes of webhook_dispatcher.py
  MaxAttempts,  \* webhook_max_attempts
  NoEvent

ASSUME CallbackConstantsOK ==
  /\ MaxAttempts \in Nat \ {0}
  /\ NoEvent \notin [task : Tasks, status : Terminal, attempt : Nat]
  /\ \A s \in Scenes : /\ s.dispatchers \subseteq Dispatchers
                       /\ s.hookFailures \in Nat /\ s.replays \in Nat

VARIABLES
  sub,      \* webhook_subscriptions: "none", "enabled" or "disabled"
  queue,    \* webhook:queue
  later,    \* webhook:scheduled
  dpc,      \* dispatcher: program counter
  due,      \* dispatcher: the scheduled events it has read and not come to yet
  held,     \* dispatcher: the event it has removed from the queue or the schedule
  heard,    \* how many of the posts of a task's event the receiver confirmed
  outcomes, \* the outcomes a receiver was told of
  dlq,      \* webhook:dlq
  replayed, \* the event replay_webhook_dlq.py has removed from webhook:dlq
  replays,  \* how often it was run
  skipped,  \* the tasks whose event found no enabled subscription
  missed,
  hookFaults

dispatchVars == <<dpc, due, held>>
heardVars == <<heard, outcomes>>
fateVars == <<dlq, skipped, missed>>
replayVars == <<replayed, replays>>
hookVars == <<sub, queue, later, dispatchVars, heardVars, fateVars, replayVars, hookFaults>>

Event(t, st) == [task |-> t, status |-> st, attempt |-> 0]

HookInit ==
  /\ Init
  /\ sub = [u \in Users |-> "none"]
  /\ queue = <<>> /\ later = {}
  /\ dpc = [d \in Dispatchers |-> "idle"]
  /\ due = [d \in Dispatchers |-> {}] /\ held = [d \in Dispatchers |-> NoEvent]
  /\ heard = [t \in Tasks |-> 0] /\ outcomes = [t \in Tasks |-> {}]
  /\ dlq = {} /\ skipped = {} /\ missed = {}
  /\ replayed = NoEvent /\ replays = 0
  /\ hookFaults = 0

(* webhook_enabled: without it no one announces and no dispatcher runs. *)
Enabled == scene.dispatchers # {}

HookFault == hookFaults < scene.hookFailures /\ hookFaults' = hookFaults + 1

-----------------------------------------------------------------------------
(* Who announces an outcome *)

(* RPUSH.  The LTRIM that follows keeps webhook_queue_maxlen = 100 000       *)
(* events, and is left out.                                                  *)
Enqueue(t, st) ==
  queue' = Append(queue, Event(t, st)) /\ UNCHANGED <<missed, hookFaults>>

(* An error is only logged. *)
EnqueueError(t) == HookFault /\ missed' = missed \cup {t} /\ UNCHANGED queue

Announce(t, st) ==
  /\ IF Enabled THEN Enqueue(t, st) \/ EnqueueError(t)
     ELSE UNCHANGED <<queue, missed, hookFaults>>
  /\ UNCHANGED <<sub, later, dispatchVars, heardVars, dlq, skipped, replayVars>>

(* The last step of a worker that has completed or failed the task, before   *)
(* it acknowledges the message: the event follows the caches and the slot.   *)
WorkerAnnounces(w) ==
  /\ wpc[w] \in {"finished", "failed"}
  /\ WorkFinish(w) \/ WorkPublish(w) \/ WorkGiveUp(w)
  /\ Announce(job[w], IF wpc[w] = "finished" THEN "COMPLETED" ELSE "FAILED")

CancelAnnounces(c) == CancelCache(c) /\ Announce(CancelOf[c], "CANCELLED")

(* No one announces what the reaper fails. *)
Announcing ==
  \/ \E w \in Workers : wpc[w] \in {"finished", "failed"} /\ wpc'[w] = "ack"
  \/ \E c \in Cancels : cpc[c] = "cache" /\ UNCHANGED faults /\ cpc' # cpc

-----------------------------------------------------------------------------
(* PUT and DELETE /v1/webhook *)

Subscribe(u, st) ==
  /\ Enabled
  /\ sub' = [sub EXCEPT ![u] = st]
  /\ UNCHANGED <<queue, later, dispatchVars, heardVars, fateVars, replayVars, hookFaults>>

PutWebhook(u) == \E st \in {"enabled", "disabled"} : Subscribe(u, st)

(* There is nothing to disable: 404. *)
DeleteWebhook(u) == sub[u] # "none" /\ Subscribe(u, "disabled")

-----------------------------------------------------------------------------
(* A dispatcher: one pass promotes what is due, then takes one event *)

GoDispatch(d, step, e) ==
  dpc' = [dpc EXCEPT ![d] = step] /\ held' = [held EXCEPT ![d] = e]

PassOver(d) == GoDispatch(d, "idle", NoEvent) /\ UNCHANGED due

(* ZRANGEBYSCORE: any of the scheduled events may be due. *)
PromoteRead(d) ==
  /\ d \in scene.dispatchers /\ dpc[d] = "idle"
  /\ \E S \in SUBSET later : due' = [due EXCEPT ![d] = S]
  /\ GoDispatch(d, "promote", NoEvent)
  /\ UNCHANGED <<sub, queue, later, heardVars, fateVars, replayVars, hookFaults>>

(* Defect: it does not look at what ZREM answers. *)
PromoteTakeBlind(d, e) ==
  /\ dpc[d] = "promote" /\ e \in due[d]
  /\ due' = [due EXCEPT ![d] = @ \ {e}] /\ later' = later \ {e}
  /\ GoDispatch(d, "push", e)
  /\ UNCHANGED <<sub, queue, heardVars, fateVars, replayVars, hookFaults>>

(* ZREM: another dispatcher may have taken the event. *)
PromoteTake(d, e) ==
  /\ dpc[d] = "promote" /\ e \in due[d]
  /\ due' = [due EXCEPT ![d] = @ \ {e}] /\ later' = later \ {e}
  /\ IF e \in later THEN GoDispatch(d, "push", e) ELSE UNCHANGED <<dpc, held>>
  /\ UNCHANGED <<sub, queue, heardVars, fateVars, replayVars, hookFaults>>

(* LPUSH: it is the next event to be taken. *)
PromotePush(d) ==
  /\ dpc[d] = "push"
  /\ queue' = <<held[d]>> \o queue
  /\ GoDispatch(d, "promote", NoEvent)
  /\ UNCHANGED <<sub, later, due, heardVars, fateVars, replayVars, hookFaults>>

(* BLPOP; when the queue is empty the pass is over. *)
Pop(d) ==
  /\ dpc[d] = "promote" /\ due[d] = {}
  /\ \/ /\ queue # <<>>
        /\ queue' = Tail(queue)
        /\ GoDispatch(d, "look", Head(queue))
     \/ queue = <<>> /\ PassOver(d) /\ UNCHANGED queue
  /\ UNCHANGED <<sub, later, due, heardVars, fateVars, replayVars, hookFaults>>

(* get_webhook_subscription *)
Look(d) ==
  LET t == held[d].task IN
  /\ dpc[d] = "look"
  /\ IF sub[UserOf[t]] = "enabled"
     THEN GoDispatch(d, "send", held[d]) /\ UNCHANGED <<due, skipped>>
     ELSE PassOver(d) /\ skipped' = skipped \cup {t}
  /\ UNCHANGED <<sub, queue, later, heardVars, dlq, missed, replayVars, hookFaults>>

Later(d) == [held[d] EXCEPT !.attempt = @ + 1]

(* webhook:scheduled, with the next attempt's number. *)
Reschedule(d) == later' = later \cup {Later(d)} /\ UNCHANGED dlq

(* The lookup raises: the event is scheduled again, whatever its attempts.   *)
LookError(d) ==
  /\ dpc[d] = "look"
  /\ HookFault
  /\ Reschedule(d) /\ PassOver(d)
  /\ UNCHANGED <<sub, queue, heardVars, skipped, missed, replayVars>>

Told(d) == outcomes' = [outcomes EXCEPT ![held[d].task] = @ \cup {held[d].status}]

(* The receiver answers with a 2xx status. *)
SendHeard(d) ==
  /\ dpc[d] = "send"
  /\ Told(d) /\ heard' = [heard EXCEPT ![held[d].task] = @ + 1]
  /\ PassOver(d)
  /\ UNCHANGED <<sub, queue, later, fateVars, replayVars, hookFaults>>

(* webhook:dlq, and a row whose failure is only logged and is left out. *)
Bury(d) == dlq' = dlq \cup {Later(d)} /\ UNCHANGED later

(* Defect: a retried event keeps its number of attempts. *)
RetryForever(d) == later' = later \cup {held[d]} /\ UNCHANGED dlq

Retry(d) ==
  IF held[d].attempt + 1 >= MaxAttempts THEN Bury(d) ELSE Reschedule(d)

(* The receiver refuses the event, or takes it and does not answer in time.  *)
SendRefused(d) ==
  /\ dpc[d] = "send"
  /\ Told(d) \/ UNCHANGED outcomes
  /\ Retry(d) /\ PassOver(d)
  /\ UNCHANGED <<sub, queue, heard, skipped, missed, replayVars, hookFaults>>

(* A call raises, and the iteration ends, or the dispatcher crashes: what it *)
(* holds is lost.  The socket timeout of 50 ms, shorter than the 2 s BLPOP   *)
(* waits, can cut off the answer with the event, too.                        *)
DispatchAbort(d) ==
  /\ dpc[d] # "idle"
  /\ HookFault
  /\ missed' = IF held[d] = NoEvent THEN missed ELSE missed \cup {held[d].task}
  /\ (dpc[d] = "send" /\ Told(d)) \/ UNCHANGED outcomes
  /\ GoDispatch(d, "idle", NoEvent) /\ due' = [due EXCEPT ![d] = {}]
  /\ UNCHANGED <<sub, queue, later, heard, dlq, skipped, replayVars>>

Dispatch(d) ==
  \/ PromotePush(d) \/ Pop(d) \/ Look(d) \/ SendHeard(d) \/ SendRefused(d)
  \/ \E e \in due[d] : PromoteTake(d, e)

-----------------------------------------------------------------------------
(* replay_webhook_dlq.py, run by an operator *)

(* RPOP *)
ReplayTake(e) ==
  /\ replayed = NoEvent /\ replays < scene.replays
  /\ e \in dlq
  /\ dlq' = dlq \ {e}
  /\ replayed' = [e EXCEPT !.attempt = 0] /\ replays' = replays + 1
  /\ UNCHANGED <<sub, queue, later, dispatchVars, heardVars, skipped, missed, hookFaults>>

(* LPUSH: the event has all its attempts before it again. *)
ReplayPush ==
  /\ replayed # NoEvent
  /\ queue' = <<replayed>> \o queue
  /\ replayed' = NoEvent
  /\ UNCHANGED <<sub, later, dispatchVars, heardVars, fateVars, replays, hookFaults>>

(* The script ends between the two calls. *)
ReplayAbort ==
  /\ replayed # NoEvent
  /\ HookFault
  /\ missed' = missed \cup {replayed.task}
  /\ replayed' = NoEvent
  /\ UNCHANGED <<sub, queue, later, dispatchVars, heardVars, dlq, skipped, replays>>

-----------------------------------------------------------------------------
HookNext ==
  \/ \E w \in Workers : WorkerAnnounces(w)
  \/ \E c \in Cancels : CancelAnnounces(c)
  \/ Next /\ ~Announcing /\ UNCHANGED hookVars
  \/ \E u \in Users : (PutWebhook(u) \/ DeleteWebhook(u)) /\ UNCHANGED vars
  \/ \E d \in Dispatchers :
       /\ PromoteRead(d) \/ Dispatch(d) \/ LookError(d) \/ DispatchAbort(d)
       /\ UNCHANGED vars
  \/ /\ ReplayPush \/ ReplayAbort \/ \E e \in dlq : ReplayTake(e)
     /\ UNCHANGED vars

HookSpec == HookInit /\ [][HookNext]_<<vars, hookVars>>

(* A dispatcher and the script run on, and a scheduled event becomes due. *)
DispatchFairness ==
  /\ SF_hookVars(\E d \in Dispatchers : PromoteRead(d) /\ due'[d] = later)
  /\ \A d \in Dispatchers : WF_hookVars(PromoteRead(d) \/ Dispatch(d))
  /\ WF_hookVars(ReplayPush)

-----------------------------------------------------------------------------
(* Properties *)

(* A receiver is told the task's outcome and no other, and an event it has   *)
(* confirmed is not posted again, though two dispatchers may read the same   *)
(* event from the schedule.                                                  *)
CallbacksTrue ==
  \A t \in Tasks :
    /\ \A st \in outcomes[t] : status[t] \in {st, "EXPIRED"}
    /\ heard[t] <= 1

InFlight(t) ==
  \/ \E i \in 1 .. Len(queue) : queue[i].task = t
  \/ \E e \in later : e.task = t
  \/ \E e \in {replayed} \cup {held[d] : d \in Dispatchers} : e # NoEvent /\ e.task = t

(* An event comes to an end, also when it is replayed: it is confirmed, put  *)
(* aside after its attempts, or found to have no subscriber, unless a        *)
(* failure lost it.                                                          *)
CallbacksEnd ==
  \A t \in Tasks :
    InFlight(t) ~> \/ heard[t] > 0
                   \/ \E e \in dlq : e.task = t
                   \/ t \in skipped \cup missed

=============================================================================

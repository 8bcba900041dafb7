-------------------------- MODULE ReservedCallbacks --------------------------
(***************************************************************************)
(* Solution 2: the webhooks, on top of ReservedTask.  A request that       *)
(* cancels a task queues an event in Redis once the CANCELLED state is in  *)
(* the cache; nothing else of Solution 2 queues one.  Dispatchers take     *)
(* events from the queue and post them to the URL the user subscribed.     *)
(*                                                                         *)
(* An event belongs to the cancel that queued it: two cancels that race    *)
(* for one task both queue one, with ids of their own.  An event has one   *)
(* owner at a time, the queue, the schedule or a dispatcher, and is handed *)
(* over by calls of which the first removes it: what fails between them    *)
(* loses it.                                                               *)
(***************************************************************************)
EXTENDS ReservedTask

CONSTANTS
  Dispatchers,   \* processes of webhook_dispatcher.py
  MaxAttempts,   \* webhook_max_attempts
  MaxHookFaults, \* bound on failed calls and crashes of the dispatchers
  NoEvent

ASSUME CallbackConstantsOK ==
  /\ MaxAttempts \in Nat \ {0} /\ MaxHookFaults \in Nat
  /\ NoEvent \notin [of : Cancels, attempt : Nat]

VARIABLES
  webhooks,  \* webhook_enabled, a setting
  sub,       \* webhook_subscriptions: "none", "enabled" or "disabled"
  owed,      \* the cancels that have cancelled and not yet queued their event
  queue,     \* webhook:queue
  later,     \* webhook:scheduled
  dpc,       \* dispatcher: program counter
  due,       \* dispatcher: the scheduled events it has read and not come to yet
  held,      \* dispatcher: the event it has removed from the queue or the schedule
  fate,      \* what became of the event of each cancel, "open" while it is under way
  hookFaults

dispatchVars == <<dpc, due, held>>
hookVars == <<webhooks, sub, owed, queue, later, dispatchVars, fate, hookFaults>>

CallbackEvents == [of : Cancels, attempt : Nat]
Fates == {"none", "open", "told", "buried", "skipped", "lost"}

HookTypeOK ==
  /\ webhooks \in BOOLEAN
  /\ sub \in [Users -> {"none", "enabled", "disabled"}]
  /\ owed \subseteq Cancels
  /\ queue \in Seq(CallbackEvents) /\ later \subseteq CallbackEvents
  /\ dpc \in [Dispatchers -> {"idle", "promote", "push", "look", "send"}]
  /\ due \in [Dispatchers -> SUBSET CallbackEvents]
  /\ held \in [Dispatchers -> CallbackEvents \cup {NoEvent}]
  /\ fate \in [Cancels -> Fates]
  /\ hookFaults \in Nat

HookInit ==
  /\ Init
  /\ webhooks \in BOOLEAN
  /\ sub = [u \in Users |-> "none"]
  /\ owed = {} /\ queue = <<>> /\ later = {}
  /\ dpc = [d \in Dispatchers |-> "idle"]
  /\ due = [d \in Dispatchers |-> {}] /\ held = [d \in Dispatchers |-> NoEvent]
  /\ fate = [c \in Cancels |-> "none"]
  /\ hookFaults = 0

HookFault == hookFaults < MaxHookFaults /\ hookFaults' = hookFaults + 1

Becomes(c, end) == fate' = [fate EXCEPT ![c] = end]

-----------------------------------------------------------------------------
(* The cancel request *)

(* It owes an event if it has cancelled the task or found it cancelled in    *)
(* its transaction, and none if its first read found it cancelled.           *)
CancelOwes(c) ==
  /\ CancelTransact(c)
  /\ owed' = IF webhooks /\ cpc'[c] = "sync" THEN owed \cup {c} ELSE owed
  /\ UNCHANGED <<webhooks, sub, queue, later, dispatchVars, fate, hookFaults>>

(* The request ends before it comes to the event. *)
CancelMute(c) ==
  /\ CancelAbort(c)
  /\ owed' = owed \ {c}
  /\ IF c \in owed THEN Becomes(c, "lost") ELSE UNCHANGED fate
  /\ UNCHANGED <<webhooks, sub, queue, later, dispatchVars, hookFaults>>

(* After the write to the cache: RPUSH, whose error is only logged.  The     *)
(* LTRIM to webhook_queue_maxlen = 100 000 events is left out.               *)
EnqueueCancel(c) ==
  /\ c \in owed /\ cpc[c] = "cancelled"
  /\ owed' = owed \ {c}
  /\ \/ /\ queue' = Append(queue, [of |-> c, attempt |-> 0])
        /\ Becomes(c, "open") /\ UNCHANGED hookFaults
     \/ HookFault /\ Becomes(c, "lost") /\ UNCHANGED queue
  /\ UNCHANGED <<vars, webhooks, sub, later, dispatchVars>>

-----------------------------------------------------------------------------
(* PUT and DELETE /v1/webhook *)

Subscribe(u, st) == sub' = [sub EXCEPT ![u] = st]

PutWebhook(u) ==
  /\ \E st \in {"enabled", "disabled"} : Subscribe(u, st)
  /\ UNCHANGED <<vars, webhooks, owed, queue, later, dispatchVars, fate, hookFaults>>

DeleteWebhook(u) ==
  /\ sub[u] # "none"
  /\ Subscribe(u, "disabled")
  /\ UNCHANGED <<vars, webhooks, owed, queue, later, dispatchVars, fate, hookFaults>>

-----------------------------------------------------------------------------
(* A dispatcher: each pass promotes what is due, then takes one event *)

GoDispatch(d, step, e) ==
  dpc' = [dpc EXCEPT ![d] = step] /\ held' = [held EXCEPT ![d] = e]

NextPass(d) == GoDispatch(d, "idle", NoEvent) /\ UNCHANGED due

(* ZRANGEBYSCORE: any of the scheduled events may be due. *)
PromoteRead(d) ==
  /\ webhooks /\ dpc[d] = "idle"
  /\ \E S \in SUBSET later : due' = [due EXCEPT ![d] = S]
  /\ GoDispatch(d, "promote", NoEvent)
  /\ UNCHANGED <<vars, webhooks, sub, owed, queue, later, fate, hookFaults>>

(* Defect: the answer of ZREM is not looked at. *)
PromoteTakeBlind(d, e) ==
  /\ dpc[d] = "promote" /\ e \in due[d]
  /\ due' = [due EXCEPT ![d] = @ \ {e}] /\ later' = later \ {e}
  /\ GoDispatch(d, "push", e)
  /\ UNCHANGED <<vars, webhooks, sub, owed, queue, fate, hookFaults>>

(* ZREM: another dispatcher may have removed the event since. *)
PromoteTake(d, e) ==
  /\ dpc[d] = "promote" /\ e \in due[d]
  /\ due' = [due EXCEPT ![d] = @ \ {e}] /\ later' = later \ {e}
  /\ IF e \in later THEN GoDispatch(d, "push", e) ELSE UNCHANGED <<dpc, held>>
  /\ UNCHANGED <<vars, webhooks, sub, owed, queue, fate, hookFaults>>

(* LPUSH: it is the next event to be taken. *)
PromotePush(d) ==
  /\ dpc[d] = "push"
  /\ queue' = <<held[d]>> \o queue
  /\ GoDispatch(d, "promote", NoEvent)
  /\ UNCHANGED <<vars, webhooks, sub, owed, later, due, fate, hookFaults>>

(* BLPOP.  A socket timeout counts as an empty queue, also when the answer   *)
(* that got lost had an event in it.                                         *)
Pop(d) ==
  /\ dpc[d] = "promote" /\ due[d] = {}
  /\ \/ /\ queue # <<>> /\ queue' = Tail(queue)
        /\ \/ /\ GoDispatch(d, "look", Head(queue))
              /\ UNCHANGED <<due, fate, hookFaults>>
           \/ HookFault /\ Becomes(Head(queue).of, "lost") /\ NextPass(d)
     \/ queue = <<>> /\ NextPass(d) /\ UNCHANGED <<queue, fate, hookFaults>>
  /\ UNCHANGED <<vars, webhooks, sub, owed, later>>

(* _schedule_retry *)
Reschedule(d) ==
  later' = later \cup {[held[d] EXCEPT !.attempt = @ + 1]} /\ UNCHANGED fate

Subscriber(d) == OwnerOf[CancelOf[held[d].of]]

(* get_webhook_subscription.  If it raises, the event is scheduled again,    *)
(* whatever its attempts.                                                    *)
Look(d) ==
  /\ dpc[d] = "look"
  /\ \/ /\ sub[Subscriber(d)] = "enabled"
        /\ GoDispatch(d, "send", held[d])
        /\ UNCHANGED <<due, later, fate, hookFaults>>
     \/ /\ sub[Subscriber(d)] # "enabled"
        /\ Becomes(held[d].of, "skipped")
        /\ NextPass(d) /\ UNCHANGED <<later, hookFaults>>
     \/ HookFault /\ Reschedule(d) /\ NextPass(d)
  /\ UNCHANGED <<vars, webhooks, sub, owed, queue>>

(* The receiver answers with a 2xx status. *)
SendHeard(d) ==
  /\ dpc[d] = "send"
  /\ Becomes(held[d].of, "told")
  /\ NextPass(d)
  /\ UNCHANGED <<vars, webhooks, sub, owed, queue, later, hookFaults>>

(* To webhook:dlq and the table of dead letters. *)
Bury(d) == Becomes(held[d].of, "buried") /\ UNCHANGED later

(* It refuses the event, or takes it and does not answer in time: the event  *)
(* is scheduled again until it has used up its attempts.                     *)
SendRefused(d) ==
  /\ dpc[d] = "send"
  /\ IF held[d].attempt + 1 >= MaxAttempts
     THEN Bury(d)
     ELSE Reschedule(d)
  /\ NextPass(d)
  /\ UNCHANGED <<vars, webhooks, sub, owed, queue, hookFaults>>

(* A call raises, which ends the pass, or the dispatcher crashes: the event  *)
(* it holds is in no list any more.                                          *)
DispatchAbort(d) ==
  /\ dpc[d] # "idle"
  /\ HookFault
  /\ IF held[d] # NoEvent THEN Becomes(held[d].of, "lost") ELSE UNCHANGED fate
  /\ GoDispatch(d, "idle", NoEvent) /\ due' = [due EXCEPT ![d] = {}]
  /\ UNCHANGED <<vars, webhooks, sub, owed, queue, later>>

-----------------------------------------------------------------------------
CommandStep ==
  \/ \E r \in Reqs : Admit(r) \/ AdmitError(r) \/ SubmitCache(r) \/ RequestAbort(r)
  \/ \E t \in Tasks : Inline(t) \/ SyncFinishError(t)
  \/ \E c \in Cancels : CancelRead(c) \/ CancelSync(c)
  \/ \E a \in Adjusts : Adjust(a)
  \/ \E t \in Tasks : Publish(t) \/ Overdue(t) \/ WatchExpire(t)
  \/ \E w \in Workers : Work(w) \/ WorkDrop(w)
  \/ Unlink \/ WatchCache \/ WatchAbort

HookNext ==
  \/ CommandStep /\ UNCHANGED hookVars
  \/ \E c \in Cancels : CancelOwes(c) \/ CancelMute(c) \/ EnqueueCancel(c)
  \/ \E u \in Users : PutWebhook(u) \/ DeleteWebhook(u)
  \/ \E d \in Dispatchers :
       \/ PromoteRead(d) \/ PromotePush(d) \/ Pop(d) \/ Look(d)
       \/ \E e \in due[d] : PromoteTake(d, e)
       \/ SendHeard(d) \/ SendRefused(d) \/ DispatchAbort(d)

HookSpec == HookInit /\ [][HookNext]_<<vars, hookVars>>

-----------------------------------------------------------------------------
(* Property *)

Places(c) ==
  {<<"queue", i>> : i \in {j \in 1 .. Len(queue) : queue[j].of = c}}
  \cup {<<"later", e>> : e \in {f \in later : f.of = c}}
  \cup {<<"held", d>> : d \in {x \in Dispatchers : held[x] # NoEvent /\ held[x].of = c}}

(* An event under way is in one place, although two dispatchers may read it  *)
(* from the schedule; one that was confirmed, buried, skipped or lost is in  *)
(* none, so it is not posted again; and only cancelled tasks have events.    *)
EventsHaveOnePlace ==
  \A c \in Cancels :
    /\ fate[c] = "open" => \E p \in Places(c) : Places(c) = {p}
    /\ fate[c] # "open" => Places(c) = {}
    /\ fate[c] # "none" => status[CancelOf[c]] = "CANCELLED"

=============================================================================

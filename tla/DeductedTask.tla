---------------------------- MODULE DeductedTask ----------------------------
(***************************************************************************)
(* Solution 0: submit and cancel handlers, Celery workers and reaper.  The *)
(* admission script deducts the cost from the balance in Redis and takes a *)
(* slot of the user; every way a task ends otherwise than COMPLETED must   *)
(* give the credits back, once, and every way it ends its slot.            *)
(*                                                                         *)
(* A script, a Redis command, a transaction is one step, and anything can  *)
(* happen between two steps.  Fault is a call that fails, an answer that   *)
(* is lost, a process that crashes or a request that stalls.               *)
(*                                                                         *)
(* astray has the tasks a failure has hit that the code does not account   *)
(* for, and rewritten the users whose balance a late hydration has reset.  *)
(* Every behaviour has its scene: the requests made, the workers running   *)
(* and the number of failures.                                             *)
(***************************************************************************)
EXTENDS Integers, FiniteSets

CONSTANTS
  Users,
  Tasks,         \* submit requests, each with the task id it generates
  UserOf,        \* UserOf[t]: the authenticated user
  NoKey,
  KeyOf,         \* KeyOf[t]: the Idempotency-Key of the request, or NoKey
  Credits,       \* users.credits of the seed migration
  Cost,          \* task_cost
  MaxConcurrent, \* max_concurrent
  MaxRetries,    \* max_retries of run_task
  Cancels,       \* cancel requests
  CancelOf,      \* CancelOf[c]: the task c wants cancelled
  Adjusts,       \* admin credit adjustments
  AdjustUser, AdjustBy,
  Workers,       \* Celery worker processes
  NoTask,
  Scenes         \* [cast, failures, readers]: see scene

ASSUME ConstantsOK ==
  /\ IsFiniteSet(Tasks) /\ NoTask \notin Tasks
  /\ UserOf \in [Tasks -> Users]
  /\ Credits \in [Users -> Nat]
  /\ Cost \in Nat \ {0} /\ MaxConcurrent \in Nat /\ MaxRetries \in Nat
  /\ CancelOf \in [Cancels -> Tasks]
  /\ AdjustUser \in [Adjusts -> Users] /\ AdjustBy \in [Adjusts -> Int]
  /\ \A s \in Scenes : /\ s.cast \subseteq Tasks \cup Cancels \cup Adjusts \cup Workers
                       /\ s.failures \in Nat /\ s.readers \in BOOLEAN

VARIABLES
  scene,     \* who acts, how many failures there are and, for DeductedRead,
             \* whether anyone polls
  stored,    \* users.credits, which no task changes
  credits,   \* credits:{user} in Redis, or NoBalance
  active,    \* active:{user}
  keys,      \* the tasks whose id is stored under their idempotency key
  markers,   \* the tasks with a pending marker
  status,    \* tasks.status, "none" when there is no row
  ledger,    \* the sum of the task's credit_transactions
  queue,     \* Celery messages: <<task, retries>>
  rpc, cpc,  \* submit and cancel: program counters
  got,       \* submit: the stored balance it has read
  made,      \* the adjustments that are committed
  syncs,     \* those still to be copied to Redis: <<adjustment, balance>>
  wpc, job,  \* worker: program counter; the message it holds
  xpc, xjob, \* reaper: program counter; the task at hand
  rewritten, astray, faults

billVars == <<credits, active>>
adminVars == <<stored, made, syncs>>
rowVars == <<status, ledger>>
markVars == <<keys, markers>>
requestVars == <<rpc, cpc, got>>
workVars == <<wpc, job>>
reapVars == <<xpc, xjob>>
faultVars == <<rewritten, astray, faults>>
taskVars == <<billVars, rowVars, markVars, queue, requestVars, workVars, reapVars, faultVars>>
vars == <<scene, adminVars, taskVars>>

NoBalance == -1
Open == {"PENDING", "RUNNING"}
NoJob == <<NoTask, 0>>

UndoSteps == {"undo", "undoSlot", "undoKey", "undoMark"}
RevertSteps == {"revert", "revertSlot", "revertKey", "revertRow", "revertLedger"}
RequestSteps == {"hydrate", "fill", "regate", "mark", "persist", "send", "clear"}
                \cup UndoSteps \cup RevertSteps

Init ==
  /\ scene \in Scenes
  /\ stored = Credits /\ made = {} /\ syncs = {}
  /\ credits = [u \in Users |-> NoBalance] /\ active = [u \in Users |-> 0]
  /\ keys = {} /\ markers = {}
  /\ status = [t \in Tasks |-> "none"] /\ ledger = [t \in Tasks |-> 0]
  /\ queue = {}
  /\ rpc = [t \in Tasks |-> "idle"] /\ cpc = [c \in Cancels |-> "idle"]
  /\ got = [t \in Tasks |-> 0]
  /\ wpc = [w \in Workers |-> "idle"] /\ job = [w \in Workers |-> NoJob]
  /\ xpc = "idle" /\ xjob = NoTask
  /\ rewritten = {} /\ astray = {} /\ faults = 0

Fault == faults < scene.failures /\ faults' = faults + 1 /\ UNCHANGED <<rewritten, astray>>

Misled(t) ==
  /\ faults < scene.failures /\ faults' = faults + 1
  /\ astray' = astray \cup {t} /\ UNCHANGED rewritten

(* A failure that leaves something undone, or done twice, when it bites. *)
FaultAt(t, bites) == IF bites THEN Misled(t) ELSE Fault

(* A balance is written over, unless that changes nothing. *)
Rewritten(u, unless) == rewritten' = IF unless THEN rewritten ELSE rewritten \cup {u}

-----------------------------------------------------------------------------
(* Redis and Postgres *)

Credit(u) == credits' = [credits EXCEPT ![u] = IF @ = NoBalance THEN Cost ELSE @ + Cost]

GiveBack(t) == Credit(UserOf[t]) /\ UNCHANGED active

(* DECR_ACTIVE_CLAMP_LUA *)
GiveSlot(t) ==
  /\ active' = [active EXCEPT ![UserOf[t]] = IF @ > 0 THEN @ - 1 ELSE 0]
  /\ UNCHANGED credits

SameKey(s, t) == s = t \/ (KeyOf[s] # NoKey /\ KeyOf[s] = KeyOf[t] /\ UserOf[s] = UserOf[t])

ForgetKey(t) == keys' = {s \in keys : ~SameKey(s, t)} /\ UNCHANGED markers

ForgetMarker(t) == markers' = markers \ {t} /\ UNCHANGED keys

SetStatus(t, from, st) == status[t] \in from /\ status' = [status EXCEPT ![t] = st]

(* Defect: the guard of the UPDATE forgets that another has ended the task. *)
EndAgain(t, st) ==
  /\ SetStatus(t, Open \cup {"COMPLETED", "FAILED", "CANCELLED"}, st)
  /\ ledger' = [ledger EXCEPT ![t] = @ + Cost]

(* The guarded UPDATE and the ledger's refund in one transaction. *)
EndWithRefund(t, st) ==
  /\ SetStatus(t, Open, st)
  /\ ledger' = [ledger EXCEPT ![t] = @ + Cost]

Ended(t) == status[t] \notin Open /\ UNCHANGED rowVars

-----------------------------------------------------------------------------
(* POST /v1/task *)

Go(t, step) == rpc' = [rpc EXCEPT ![t] = step] /\ UNCHANGED <<cpc, got>>

KeyTaken(t) == \E s \in keys : SameKey(s, t)

Admissible(t) ==
  /\ ~KeyTaken(t)
  /\ active[UserOf[t]] < MaxConcurrent
  /\ credits[UserOf[t]] >= Cost

Admit(t) ==
  /\ Admissible(t)
  /\ credits' = [credits EXCEPT ![UserOf[t]] = @ - Cost]
  /\ active' = [active EXCEPT ![UserOf[t]] = @ + 1]
  /\ keys' = keys \cup {t} /\ UNCHANGED markers

CacheMiss(t) ==
  ~KeyTaken(t) /\ active[UserOf[t]] < MaxConcurrent /\ credits[UserOf[t]] = NoBalance

Arrives(t) == (rpc[t] = "idle" /\ t \in scene.cast) \/ rpc[t] = "regate"

(* run_admission_gate, once more after the balance was hydrated. *)
Gate(t) ==
  /\ Arrives(t)
  /\ \/ Admit(t) /\ Go(t, "mark")
     \/ /\ ~Admissible(t) /\ UNCHANGED <<billVars, markVars>>
        /\ Go(t, IF CacheMiss(t) /\ rpc[t] = "idle" THEN "hydrate" ELSE "ended")
  /\ UNCHANGED <<rowVars, queue, workVars, reapVars, faultVars>>

(* The answer is lost: 503, and neither marker nor refund. *)
GateLost(t) ==
  /\ Arrives(t)
  /\ Admit(t) /\ Misled(t) /\ Go(t, "ended")
  /\ UNCHANGED <<rowVars, queue, workVars, reapVars>>

(* hydrate_credits_from_db reads the stored balance ... *)
HydrateRead(t) ==
  /\ rpc[t] = "hydrate"
  /\ rpc' = [rpc EXCEPT ![t] = "fill"] /\ got' = [got EXCEPT ![t] = stored[UserOf[t]]]
  /\ UNCHANGED cpc
  /\ UNCHANGED <<billVars, rowVars, markVars, queue, workVars, reapVars, faultVars>>

(* The reaper is past the refund of orphan t. *)
Reaped(t) == xjob = t /\ xpc \in {"orphanSlot", "unkey", "unmark"}

(* Somebody has ended t and is still to credit it. *)
RefundDue(t) ==
  \/ \E c \in Cancels : CancelOf[c] = t /\ cpc[c] = "refund"
  \/ \E w \in Workers : job[w][1] = t /\ wpc[w] = "refund"
  \/ xjob = t /\ xpc = "refund"

(* The credits of t are deducted, and not given back. *)
Holds(t) ==
  \/ rpc[t] = "mark"
  \/ /\ t \in markers /\ status[t] = "none"
     /\ rpc[t] \notin UndoSteps \ {"undo"} /\ ~Reaped(t)
  \/ status[t] \in Open \cup {"COMPLETED"} /\ rpc[t] \notin RevertSteps \ {"revert"}
  \/ status[t] # "none" /\ RefundDue(t)

Holding(u) == {t \in Tasks : UserOf[t] = u /\ Holds(t)}

(* ... and sets the one in Redis, deducted from by now or not. *)
HydrateFill(t) ==
  LET u == UserOf[t] IN
  /\ rpc[t] = "fill"
  /\ rpc' = [rpc EXCEPT ![t] = "regate"] /\ got' = [got EXCEPT ![t] = 0]
  /\ credits' = [credits EXCEPT ![u] = got[t]] /\ UNCHANGED <<active, cpc>>
  /\ Rewritten(u, Holding(u) = {} /\ got[t] = stored[u])
  /\ UNCHANGED <<rowVars, markVars, queue, workVars, reapVars, astray, faults>>

MarkPending(t) ==
  /\ rpc[t] = "mark"
  /\ markers' = markers \cup {t} /\ UNCHANGED keys
  /\ \/ Go(t, "persist") /\ UNCHANGED faultVars
     \/ Fault /\ Go(t, "ended")
  /\ UNCHANGED <<billVars, rowVars, queue, workVars, reapVars>>

(* ux_tasks_user_idempotency_key *)
KeyPersisted(t) == \E s \in Tasks : SameKey(s, t) /\ status[s] # "none"

Insert(t) ==
  /\ ~KeyPersisted(t)
  /\ status' = [status EXCEPT ![t] = "PENDING"]
  /\ ledger' = [ledger EXCEPT ![t] = @ - Cost]

Persist(t) ==
  /\ rpc[t] = "persist"
  /\ \/ Insert(t) /\ Go(t, "send") /\ UNCHANGED faultVars
     \/ KeyPersisted(t) /\ Go(t, "undo") /\ UNCHANGED <<rowVars, faultVars>>
     \/ Fault /\ Go(t, "undo") /\ UNCHANGED rowVars
     \/ Misled(t) /\ Insert(t) /\ Go(t, "undo")
  /\ UNCHANGED <<billVars, markVars, queue, workVars, reapVars>>

(* The compensation: credits, slot, key, marker. *)
Undo(t) ==
  /\ \/ rpc[t] = "undo" /\ GiveBack(t) /\ Go(t, "undoSlot") /\ UNCHANGED markVars
     \/ rpc[t] = "undoSlot" /\ GiveSlot(t) /\ Go(t, "undoKey") /\ UNCHANGED markVars
     \/ rpc[t] = "undoKey" /\ ForgetKey(t) /\ Go(t, "undoMark") /\ UNCHANGED billVars
     \/ rpc[t] = "undoMark" /\ ForgetMarker(t) /\ Go(t, "ended") /\ UNCHANGED billVars
  /\ UNCHANGED <<rowVars, queue, workVars, reapVars, faultVars>>

(* send_task; an error may come after the message is in the broker.  What is  *)
(* then given back belongs to a task that runs, or that a cancel has ended.  *)
Send(t) ==
  /\ rpc[t] = "send"
  /\ \/ queue' = queue \cup {<<t, 0>>} /\ Go(t, "clear") /\ UNCHANGED faultVars
     \/ FaultAt(t, status[t] \notin Open) /\ Go(t, "revert") /\ UNCHANGED queue
     \/ Misled(t) /\ queue' = queue \cup {<<t, 0>>} /\ Go(t, "revert")
  /\ UNCHANGED <<billVars, rowVars, markVars, workVars, reapVars>>

(* Its compensation: credits, slot, key, row and, apart, the ledger. *)
Revert(t) ==
  /\ \/ rpc[t] = "revert" /\ GiveBack(t) /\ Go(t, "revertSlot") /\ UNCHANGED <<rowVars, markVars>>
     \/ rpc[t] = "revertSlot" /\ GiveSlot(t) /\ Go(t, "revertKey") /\ UNCHANGED <<rowVars, markVars>>
     \/ rpc[t] = "revertKey" /\ ForgetKey(t) /\ Go(t, "revertRow") /\ UNCHANGED <<rowVars, billVars>>
     \/ /\ rpc[t] = "revertRow" /\ UNCHANGED <<billVars, markVars>>
        /\ \/ SetStatus(t, Open, "FAILED") /\ UNCHANGED ledger /\ Go(t, "revertLedger")
           \/ Ended(t) /\ Go(t, "clear")
     \/ /\ rpc[t] = "revertLedger" /\ UNCHANGED <<status, billVars, markVars>>
        /\ ledger' = [ledger EXCEPT ![t] = @ + Cost] /\ Go(t, "clear")
  /\ UNCHANGED <<queue, workVars, reapVars, faultVars>>

(* A marker that cannot be deleted is left to the reaper. *)
Clear(t) ==
  /\ rpc[t] = "clear"
  /\ Go(t, "ended")
  /\ \/ ForgetMarker(t) /\ UNCHANGED faultVars
     \/ Fault /\ UNCHANGED markVars
  /\ UNCHANGED <<billVars, rowVars, queue, workVars, reapVars>>

(* An error in a compensation ends it; the one of send_task still deletes    *)
(* the marker.                                                               *)
RevertError(t) ==
  /\ rpc[t] \in RevertSteps
  /\ Misled(t) /\ Go(t, "clear")
  /\ UNCHANGED <<billVars, rowVars, markVars, queue, workVars, reapVars>>

(* A crash, or an error: before the marker is written and after the row is,  *)
(* nobody makes up for it, and who finds the marker refunds what a           *)
(* compensation has refunded.                                                *)
RequestAbort(t) ==
  /\ rpc[t] \in RequestSteps
  /\ FaultAt(t, rpc[t] \in ({"mark", "send", "undoSlot", "undoKey", "undoMark"} \cup RevertSteps))
  /\ Go(t, "ended")
  /\ UNCHANGED <<billVars, rowVars, markVars, queue, workVars, reapVars>>

-----------------------------------------------------------------------------
(* Any request: the user behind the API key *)

(* resolve_user_from_api_key, when the cache does not know the key: SETNX of *)
(* the stored balance.                                                       *)
Authenticate(u) ==
  /\ credits[u] = NoBalance
  /\ credits' = [credits EXCEPT ![u] = stored[u]]
  /\ UNCHANGED <<active, rowVars, markVars, queue, requestVars, workVars, reapVars, faultVars>>

-----------------------------------------------------------------------------
(* POST /v1/admin/credits *)

(* The row and its audit in one statement ... *)
AdminUpdate(a) ==
  LET u == AdjustUser[a] IN
  /\ a \in scene.cast \ made
  /\ stored[u] + AdjustBy[a] >= 0
  /\ stored' = [stored EXCEPT ![u] = @ + AdjustBy[a]]
  /\ made' = made \cup {a} /\ syncs' = syncs \cup {<<a, stored'[u]>>}
  /\ UNCHANGED taskVars

(* ... then the new balance into Redis, which knows of deductions the row    *)
(* does not.                                                                 *)
AdminSync(a, balance) ==
  LET u == AdjustUser[a] IN
  /\ <<a, balance>> \in syncs
  /\ credits' = [credits EXCEPT ![u] = balance]
  /\ Rewritten(u, Holding(u) = {} /\ balance = stored[u])
  /\ \/ syncs' = syncs \ {<<a, balance>>} /\ UNCHANGED faults
     \/ faults < scene.failures /\ faults' = faults + 1 /\ UNCHANGED syncs
  /\ UNCHANGED <<stored, made, active, rowVars, markVars, queue, requestVars, workVars,
                 reapVars, astray>>

(* A crash, or an error that is only logged: Redis keeps the old balance.    *)
AdminLost(a, balance) ==
  /\ <<a, balance>> \in syncs
  /\ faults < scene.failures /\ faults' = faults + 1
  /\ syncs' = syncs \ {<<a, balance>>}
  /\ Rewritten(AdjustUser[a], FALSE)
  /\ UNCHANGED <<stored, made, billVars, rowVars, markVars, queue, requestVars, workVars,
                 reapVars, astray>>

-----------------------------------------------------------------------------
(* POST /v1/task/{id}/cancel *)

GoCancel(c, step) == cpc' = [cpc EXCEPT ![c] = step] /\ UNCHANGED <<rpc, got>>

(* The id is known from the answer, be it to another request with the key. *)
CancelRead(c) ==
  LET t == CancelOf[c] IN
  /\ cpc[c] = "idle" /\ c \in scene.cast /\ status[t] # "none"
  /\ GoCancel(c, IF status[t] \in Open THEN "transact" ELSE "ended")
  /\ UNCHANGED <<billVars, rowVars, markVars, queue, workVars, reapVars, faultVars>>

(* A task whose publication is being reverted is refunded by both. *)
CancelTransact(c) ==
  LET t == CancelOf[c] IN
  /\ cpc[c] = "transact"
  /\ \/ EndWithRefund(t, "CANCELLED") /\ GoCancel(c, "refund")
     \/ Ended(t) /\ GoCancel(c, "ended")
  /\ astray' = IF rpc[t] \in RevertSteps THEN astray \cup {t} ELSE astray
  /\ UNCHANGED <<billVars, markVars, queue, workVars, reapVars, rewritten, faults>>

CancelRefund(c) ==
  LET t == CancelOf[c] IN
  /\ \/ cpc[c] = "refund" /\ GiveBack(t) /\ GoCancel(c, "slot")
     \/ cpc[c] = "slot" /\ GiveSlot(t) /\ GoCancel(c, "revoke")
  /\ UNCHANGED <<rowVars, markVars, queue, workVars, reapVars, faultVars>>

(* revoke takes t's messages from the queue and ends the process that runs   *)
(* it; its failure is only logged.                                           *)
CancelRevoke(c) ==
  LET t == CancelOf[c] IN
  /\ cpc[c] = "revoke" /\ GoCancel(c, "ended")
  /\ \/ /\ queue' = {m \in queue : m[1] # t} /\ UNCHANGED faultVars
        /\ wpc' = [w \in Workers |-> IF job[w][1] = t THEN "idle" ELSE wpc[w]]
        /\ job' = [w \in Workers |-> IF job[w][1] = t THEN NoJob ELSE job[w]]
     \/ Fault /\ UNCHANGED <<queue, workVars>>
  /\ UNCHANGED <<billVars, rowVars, markVars, reapVars>>

(* The refund is retried as a whole when its second half fails or its answer *)
(* is lost, and lost in a crash.                                             *)
CancelAbort(c) ==
  LET t == CancelOf[c] IN
  /\ \/ /\ cpc[c] = "slot" /\ Misled(t) /\ GoCancel(c, "refund")
        /\ GiveSlot(t) \/ UNCHANGED billVars
     \/ /\ cpc[c] \in {"transact", "refund", "slot", "revoke"}
        /\ FaultAt(t, cpc[c] \in {"refund", "slot"}) /\ GoCancel(c, "ended")
        /\ UNCHANGED billVars
  /\ UNCHANGED <<rowVars, markVars, queue, workVars, reapVars>>

-----------------------------------------------------------------------------
(* Celery workers: run_task *)

GoWork(w, step) == wpc' = [wpc EXCEPT ![w] = step] /\ UNCHANGED job

Leave(w) == wpc' = [wpc EXCEPT ![w] = "idle"] /\ job' = [job EXCEPT ![w] = NoJob]

WorkTake(w, m) ==
  /\ wpc[w] = "idle" /\ w \in scene.cast
  /\ wpc' = [wpc EXCEPT ![w] = "start"] /\ job' = [job EXCEPT ![w] = m]
  /\ queue' = queue \ {m}
  /\ UNCHANGED <<billVars, rowVars, markVars, requestVars, reapVars, faultVars>>

(* A task that is not PENDING is none of this attempt's business. *)
WorkStart(w) ==
  LET t == job[w][1] IN
  /\ wpc[w] = "start"
  /\ \/ SetStatus(t, {"PENDING"}, "RUNNING") /\ GoWork(w, "execute")
     \/ status[t] # "PENDING" /\ Leave(w) /\ UNCHANGED status
  /\ UNCHANGED <<billVars, ledger, markVars, queue, requestVars, reapVars, faultVars>>

(* Defect: after the last attempt nobody ends the task. *)
RetryOnly(w) ==
  /\ Leave(w)
  /\ queue' = IF job[w][2] < MaxRetries THEN queue \cup {<<job[w][1], job[w][2] + 1>>} ELSE queue

(* Celery's retry: another message, until the attempts are used up. *)
Retry(w) ==
  \/ /\ job[w][2] < MaxRetries /\ Leave(w)
     /\ queue' = queue \cup {<<job[w][1], job[w][2] + 1>>}
  \/ job[w][2] = MaxRetries /\ GoWork(w, "fail") /\ UNCHANGED queue

(* An UPDATE raises, before or after it took effect, or the model does.  Who *)
(* has completed a task without knowing never frees its slot.                *)
WorkRaise(w) ==
  LET t == job[w][1] IN
  /\ \/ wpc[w] = "start" /\ Fault /\ UNCHANGED status
     \/ wpc[w] = "start" /\ Fault /\ SetStatus(t, {"PENDING"}, "RUNNING")
     \/ wpc[w] = "execute" /\ UNCHANGED <<status, faultVars>>
     \/ wpc[w] = "execute" /\ Misled(t) /\ SetStatus(t, {"RUNNING"}, "COMPLETED")
  /\ Retry(w)
  /\ UNCHANGED <<billVars, ledger, markVars, requestVars, reapVars>>

(* Defect: that the row was not updated is not looked at. *)
WorkCompleteBlind(w) ==
  LET t == job[w][1] IN
  /\ wpc[w] = "execute" /\ GoWork(w, "cache")
  /\ SetStatus(t, {"RUNNING"}, "COMPLETED") \/ (status[t] # "RUNNING" /\ UNCHANGED status)
  /\ UNCHANGED <<billVars, ledger, markVars, queue, requestVars, reapVars, faultVars>>

WorkComplete(w) ==
  LET t == job[w][1] IN
  /\ wpc[w] = "execute"
  /\ \/ SetStatus(t, {"RUNNING"}, "COMPLETED") /\ GoWork(w, "cache")
     \/ status[t] # "RUNNING" /\ Leave(w) /\ UNCHANGED status
  /\ UNCHANGED <<billVars, ledger, markVars, queue, requestVars, reapVars, faultVars>>

(* _fail_terminal: its errors are swallowed, and what nobody has started     *)
(* nobody will end.                                                          *)
WorkFail(w) ==
  LET t == job[w][1] IN
  /\ wpc[w] = "fail"
  /\ \/ EndWithRefund(t, "FAILED") /\ GoWork(w, "refund") /\ UNCHANGED faultVars
     \/ Ended(t) /\ Leave(w) /\ UNCHANGED faultVars
     \/ FaultAt(t, status[t] = "PENDING") /\ Leave(w) /\ UNCHANGED rowVars
  /\ UNCHANGED <<billVars, markVars, queue, requestVars, reapVars>>

(* The write of the outcome to Redis (module DeductedRead): of a completed   *)
(* task before its slot is free, of a failed one at the end.                 *)
WorkCache(w) ==
  /\ \/ wpc[w] = "cache" /\ GoWork(w, "slot")
     \/ wpc[w] = "cacheFailed" /\ Leave(w)
  /\ UNCHANGED faultVars \/ Fault
  /\ UNCHANGED <<billVars, rowVars, markVars, queue, requestVars, reapVars>>

(* Each call is retried by itself, and given up with a warning. *)
WorkGive(w) ==
  LET t == job[w][1] IN
  /\ \/ /\ wpc[w] = "refund" /\ GoWork(w, "slotFailed")
        /\ \/ GiveBack(t) /\ UNCHANGED faultVars
           \/ Misled(t) /\ UNCHANGED billVars
     \/ /\ \/ wpc[w] = "slot" /\ Leave(w)
           \/ wpc[w] = "slotFailed" /\ GoWork(w, "cacheFailed")
        /\ \/ GiveSlot(t) /\ UNCHANGED faultVars
           \/ Misled(t) /\ UNCHANGED billVars
  /\ UNCHANGED <<rowVars, markVars, queue, requestVars, reapVars>>

(* The answer is lost, and the call is made again. *)
WorkGiveAgain(w) ==
  LET t == job[w][1] IN
  /\ Misled(t)
  /\ \/ wpc[w] = "refund" /\ GiveBack(t)
     \/ wpc[w] \in {"slot", "slotFailed"} /\ GiveSlot(t)
  /\ UNCHANGED <<rowVars, markVars, queue, requestVars, workVars, reapVars>>

GiveSteps == {"cache", "refund", "slot", "slotFailed"}

(* The message is lost with the process, or delivered again. *)
WorkCrash(w) ==
  LET t == job[w][1] IN
  /\ wpc[w] # "idle" /\ Leave(w)
  /\ \/ FaultAt(t, wpc[w] \in GiveSteps \/ status[t] = "PENDING") /\ UNCHANGED queue
     \/ FaultAt(t, wpc[w] \in GiveSteps) /\ queue' = queue \cup {job[w]}
  /\ UNCHANGED <<billVars, rowVars, markVars, requestVars, reapVars>>

-----------------------------------------------------------------------------
(* The reaper: one process *)

GoReap(step, t) == xpc' = step /\ xjob' = t

Resting == GoReap("idle", NoTask)

(* A marker is old when its request has ended, or stalls: then the request   *)
(* may still write the row of a task that is refunded here.                  *)
Old(t) ==
  \/ rpc[t] = "ended" /\ UNCHANGED faultVars
  \/ rpc[t] \in {"persist", "send", "clear"} /\ status[t] # "none" /\ Fault
  \/ rpc[t] \in RequestSteps /\ status[t] = "none" /\ Misled(t)

ReapMarker(t) ==
  /\ xpc = "idle" /\ t \in markers /\ Old(t)
  /\ \/ status[t] # "none" /\ ForgetMarker(t) /\ UNCHANGED reapVars
     \/ status[t] = "none" /\ GoReap("orphan", t) /\ UNCHANGED markVars
  /\ UNCHANGED <<billVars, rowVars, queue, requestVars, workVars>>

(* A task that has been RUNNING for too long, its worker dead or slow. *)
ReapStuck(t) ==
  /\ xpc = "idle" /\ status[t] = "RUNNING"
  /\ EndWithRefund(t, "FAILED") /\ GoReap("refund", t)
  /\ UNCHANGED <<billVars, markVars, queue, requestVars, workVars, faultVars>>

(* An orphan's key and marker go last. *)
ReapRefund ==
  /\ \/ /\ xpc \in {"orphan", "refund"} /\ GiveBack(xjob)
        /\ GoReap(IF xpc = "orphan" THEN "orphanSlot" ELSE "slot", xjob)
        /\ UNCHANGED markVars
     \/ xpc = "slot" /\ GiveSlot(xjob) /\ Resting /\ UNCHANGED markVars
     \/ xpc = "orphanSlot" /\ GiveSlot(xjob) /\ GoReap("unkey", xjob) /\ UNCHANGED markVars
     \/ xpc = "unkey" /\ ForgetKey(xjob) /\ GoReap("unmark", xjob) /\ UNCHANGED billVars
     \/ xpc = "unmark" /\ ForgetMarker(xjob) /\ Resting /\ UNCHANGED billVars
  /\ UNCHANGED <<rowVars, queue, requestVars, workVars, faultVars>>

(* The refund is retried as a whole, or the process ends with an error and   *)
(* is started again: an orphan it has refunded is refunded once more, a      *)
(* stuck task it has not refunded never.                                     *)
ReapAbort ==
  /\ xpc # "idle"
  /\ FaultAt(xjob, xpc # "orphan")
  /\ \/ /\ xpc \in {"orphanSlot", "slot"} /\ (GiveSlot(xjob) \/ UNCHANGED billVars)
        /\ GoReap(IF xpc = "slot" THEN "refund" ELSE "orphan", xjob)
     \/ Resting /\ UNCHANGED billVars
  /\ UNCHANGED <<rowVars, markVars, queue, requestVars, workVars>>

-----------------------------------------------------------------------------
Request(t) ==
  HydrateRead(t) \/ HydrateFill(t) \/ MarkPending(t) \/ Persist(t) \/ Undo(t) \/ Send(t)
  \/ Revert(t) \/ Clear(t)

Cancel(c) == CancelTransact(c) \/ CancelRefund(c) \/ CancelRevoke(c)

Work(w) ==
  WorkStart(w) \/ WorkRaise(w) \/ WorkComplete(w) \/ WorkFail(w) \/ WorkGive(w)
  \/ \E m \in queue : WorkTake(w, m)

Reap == ReapRefund \/ \E t \in Tasks : ReapMarker(t) \/ ReapStuck(t)

Admin ==
  \/ \E a \in Adjusts : AdminUpdate(a)
  \/ \E sync \in syncs : AdminSync(sync[1], sync[2]) \/ AdminLost(sync[1], sync[2])

Step ==
  \/ \E t \in Tasks : Gate(t) \/ GateLost(t) \/ Request(t) \/ RevertError(t) \/ RequestAbort(t)
  \/ \E c \in Cancels : CancelRead(c) \/ Cancel(c) \/ CancelAbort(c)
  \/ \E w \in Workers : Work(w) \/ WorkGiveAgain(w) \/ WorkCrash(w)
  \/ \E u \in Users : Authenticate(u)
  \/ Reap \/ ReapAbort

fixedVars == <<scene, adminVars>>

Next ==
  \/ (Step \/ \E w \in Workers : WorkCache(w)) /\ UNCHANGED fixedVars
  \/ Admin /\ UNCHANGED scene

(* Handlers go on, and workers and reaper run. *)
Fairness ==
  /\ \A t \in Tasks : WF_vars((Request(t) \/ (rpc[t] = "regate" /\ Gate(t))) /\ UNCHANGED fixedVars)
  /\ \A c \in Cancels : WF_vars(Cancel(c) /\ UNCHANGED fixedVars)
  /\ \A w \in Workers : WF_vars((Work(w) \/ WorkCache(w)) /\ UNCHANGED fixedVars)
  /\ WF_vars(Reap /\ UNCHANGED fixedVars)

Spec == Init /\ [][Next]_vars /\ Fairness

-----------------------------------------------------------------------------
(* Properties *)

(* Somebody has ended t and is still to free its slot. *)
SlotDue(t) ==
  \/ \E c \in Cancels : CancelOf[c] = t /\ cpc[c] \in {"refund", "slot"}
  \/ \E w \in Workers : job[w][1] = t /\ wpc[w] \in GiveSteps
  \/ xjob = t /\ xpc \in {"refund", "slot"}

Occupies(t) ==
  \/ rpc[t] \in {"mark"} \cup {"undo", "undoSlot"}
  \/ /\ t \in markers /\ status[t] = "none"
     /\ rpc[t] \notin UndoSteps /\ ~(xjob = t /\ xpc \in {"unkey", "unmark"})
  \/ status[t] \in Open /\ rpc[t] \notin {"revertKey", "revertRow"}
  \/ status[t] # "none" /\ SlotDue(t)

Occupying(u) == {t \in Tasks : UserOf[t] = u /\ Occupies(t)}

Sound(u) == u \notin rewritten /\ \A t \in astray : UserOf[t] # u

(* What a user is missing from the balance is the cost of the tasks that are *)
(* queued, running, completed or about to be refunded, so that a task that   *)
(* failed or was cancelled costs nothing, and is not refunded by two of      *)
(* request, cancel, worker and reaper; the slots taken are those tasks' that *)
(* have not ended, and the ledger has charged whom the balance has.          *)
BooksBalance ==
  /\ \A u \in Users :
       Sound(u) =>
         /\ \/ credits[u] \in {NoBalance, stored[u] - Cost * Cardinality(Holding(u))}
            \/ \E sync \in syncs : AdjustUser[sync[1]] = u
         /\ active[u] = Cardinality(Occupying(u))
  /\ \A t \in Tasks \ astray :
       rpc[t] # "revertLedger" =>
         ledger[t] = IF status[t] \in Open \cup {"COMPLETED"} THEN -Cost ELSE 0

(* Whatever of worker, broker and reaper fails, a task does not stay open,   *)
(* nor its pending marker.                                                   *)
TasksEnd ==
  \A t \in Tasks : <>[](t \in astray \/ (status[t] \notin Open /\ t \notin markers))

=============================================================================

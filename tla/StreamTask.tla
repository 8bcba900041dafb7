----------------------------- MODULE StreamTask -----------------------------
(***************************************************************************)
(* Solution 1: the API's submit, cancel and admin handlers, the stream     *)
(* workers and the reaper, over Redis (balances, active counters,          *)
(* idempotency keys, pending markers, the task stream and the caches) and  *)
(* Postgres (users, tasks, credit_transactions, credit_snapshots).         *)
(*                                                                         *)
(* A Lua script, a Redis command and a Postgres transaction are one step   *)
(* each; commands that follow one another and that only their order with a *)
(* crash tells apart are taken together.  Anything can happen between two  *)
(* steps.  A call fails without effect, or takes effect and its answer is  *)
(* lost (the Redis timeout is 50 ms); a process crashes, or stalls until a *)
(* timeout that was meant to outlast it.  Every behaviour has its scene:    *)
(* which requests clients make, with which keys, and how many of these      *)
(* failures it meets.                                                       *)
(*                                                                         *)
(* suspect collects the users for whom something has happened that the     *)
(* code does not account for:                                              *)
(*  - a balance was SET over a live one: by two requests that found none,  *)
(*    or by an adjustment, which writes users.credits, where no task is    *)
(*    ever debited;                                                        *)
(*  - a refund was cut short or repeated after its INCRBY;                 *)
(*  - the answer to a commit or to an increment was lost;                  *)
(*  - a request stalled for longer than the timeout for its marker;        *)
(*  - a worker that met an error acknowledged the message of a task that   *)
(*    was still to run, because no row was there yet, or its row could not *)
(*    be updated.                                                          *)
(* The properties say that nothing else leads astray.                      *)
(***************************************************************************)
EXTENDS Integers, FiniteSets

CONSTANTS
  Users,          \* rows of the users table
  Tasks,          \* submit requests, each with the task id it generates
  UserOf,         \* UserOf[t]: the authenticated user
  NoKey,
  Cost,           \* task_cost
  MaxConcurrent,  \* max_concurrent of a user
  SeedCredits,    \* SeedCredits[u]: users.credits of the seed migration
  Adjusts,        \* admin credit adjustments
  AdjustUser, AdjustBy,
  Cancels,        \* cancel requests
  CancelOf,       \* CancelOf[c]: the task c wants cancelled
  Workers,
  NoTask,
  NoBalance,      \* no credits key in Redis, no snapshot in Postgres
  Scenes          \* [cast, keys, failures]: see scene

ASSUME ConstantsOK ==
  /\ IsFiniteSet(Tasks) /\ NoTask \notin Tasks
  /\ UserOf \in [Tasks -> Users]
  /\ Cost \in Nat \ {0}
  /\ MaxConcurrent \in Nat
  /\ SeedCredits \in [Users -> Nat]
  /\ AdjustUser \in [Adjusts -> Users] /\ AdjustBy \in [Adjusts -> Int]
  /\ CancelOf \in [Cancels -> Tasks]
  /\ NoBalance \notin Int
  /\ \A s \in Scenes : /\ s.cast \subseteq Tasks \cup Cancels \cup Adjusts \cup Workers
                       /\ s.failures \in Nat

VARIABLES
  scene,    \* the requests made, the Idempotency-Key (or NoKey) of each submission,
            \* the workers running and a bound on the failures
  stored,   \* users.credits
  bal,      \* credits:{user} in Redis
  snap,     \* credit_snapshots.balance
  dirty,    \* credits:dirty
  active,   \* active:{user}
  idem,     \* the tasks whose id an idempotency key holds
  marker,   \* the tasks with a pending marker
  msg,      \* the stream message of each task: "none", "queued", "pending"
            \* (delivered and not acknowledged) or "acked"
  status,   \* tasks.status, "none" when there is no row
  ledger,   \* the sum of the task's rows in credit_transactions
  hash,     \* status in the task hash in Redis, "none" when there is none
  result,   \* status in the result cache, "none" when there is none
  rpc,      \* submit: program counter
  read,     \* submit: the balance it read from Postgres
  cpc,      \* cancel: program counter
  apc,      \* admin adjustment: program counter
  new,      \* admin adjustment: the balance its transaction returned
  wpc, job, \* worker: program counter; the task of its message
  xpc,      \* reaper: program counter
  xjob,     \* reaper: the task it refunds, or the user whose balance it audits
  xread,    \* reaper: the balance it read
  suspect, faults

balanceVars == <<stored, bal, snap, dirty>>
creditVars == <<balanceVars, active>>
admissionVars == <<idem, marker, msg>>
rowVars == <<status, ledger>>
cacheVars == <<hash, result>>
adminVars == <<apc, new>>
requestVars == <<scene, rpc, read, cpc, adminVars>>
workVars == <<wpc, job>>
reapVars == <<xpc, xjob, xread>>
faultVars == <<suspect, faults>>
vars == <<creditVars, admissionVars, rowVars, cacheVars, requestVars, workVars,
          reapVars, faultVars>>

-----------------------------------------------------------------------------
(* States *)

Terminal == {"COMPLETED", "FAILED", "CANCELLED"}
Cancellable == {"PENDING", "RUNNING"}
Statuses == {"none", "EXPIRED"} \cup Cancellable \cup Terminal

RequestEnds == {"accepted", "replayed", "refused", "failed"}
RequestSteps == {"hydrate", "fill", "again", "mark", "persist", "undo", "unadmit", "clear"}
CancelSteps == {"transact", "refund", "release", "cache"}
WorkSteps == {"start", "look", "running", "execute", "fail", "refund", "release",
              "published", "finished", "failed", "ack"}
ReapSteps == {"refund", "release", "forget", "stuckRefund", "stuckRelease",
              "snapshot", "clean", "restore", "reconcile"}

Balance == Int \cup {NoBalance}

TypeOK ==
  /\ stored \in [Users -> Nat]
  /\ bal \in [Users -> Balance] /\ snap \in [Users -> Balance]
  /\ dirty \subseteq Users
  /\ active \in [Users -> Nat]
  /\ idem \subseteq Tasks /\ marker \subseteq Tasks
  /\ msg \in [Tasks -> {"none", "queued", "pending", "acked"}]
  /\ status \in [Tasks -> Statuses]
  /\ ledger \in [Tasks -> Int]
  /\ hash \in [Tasks -> Statuses] /\ result \in [Tasks -> {"none", "COMPLETED", "FAILED"}]
  /\ scene \in Scenes
  /\ rpc \in [Tasks -> {"idle"} \cup RequestSteps \cup RequestEnds]
  /\ read \in [Tasks -> Balance]
  /\ cpc \in [Cancels -> {"idle", "ended"} \cup CancelSteps]
  /\ apc \in [Adjusts -> {"idle", "sync", "ended"}]
  /\ new \in [Adjusts -> Nat]
  /\ wpc \in [Workers -> {"idle"} \cup WorkSteps]
  /\ job \in [Workers -> Tasks \cup {NoTask}]
  /\ xpc \in {"idle"} \cup ReapSteps
  /\ xjob \in Tasks \cup Users \cup {NoTask}
  /\ xread \in Balance
  /\ suspect \subseteq Users
  /\ faults \in Nat

(* The credits key may be there or not, and a snapshot may be left from      *)
(* before Redis lost its memory.                                             *)
Init ==
  /\ stored = SeedCredits
  /\ bal \in {SeedCredits, [u \in Users |-> NoBalance]}
  /\ snap \in {SeedCredits, [u \in Users |-> NoBalance]}
  /\ dirty = {} /\ active = [u \in Users |-> 0]
  /\ idem = {} /\ marker = {}
  /\ msg = [t \in Tasks |-> "none"]
  /\ status = [t \in Tasks |-> "none"] /\ ledger = [t \in Tasks |-> 0]
  /\ hash = [t \in Tasks |-> "none"] /\ result = [t \in Tasks |-> "none"]
  /\ scene \in Scenes
  /\ rpc = [t \in Tasks |-> "idle"] /\ read = [t \in Tasks |-> NoBalance]
  /\ cpc = [c \in Cancels |-> "idle"]
  /\ apc = [a \in Adjusts |-> "idle"] /\ new = [a \in Adjusts |-> 0]
  /\ wpc = [w \in Workers |-> "idle"] /\ job = [w \in Workers |-> NoTask]
  /\ xpc = "idle" /\ xjob = NoTask /\ xread = NoBalance
  /\ suspect = {} /\ faults = 0

-----------------------------------------------------------------------------
(* Failures *)

(* A call fails, or its answer is lost and nothing depends on it, or a       *)
(* process crashes.                                                          *)
Fault == faults < scene.failures /\ faults' = faults + 1 /\ UNCHANGED suspect

(* One of the failures the code does not account for. *)
Misled(u) == faults < scene.failures /\ faults' = faults + 1 /\ suspect' = suspect \cup {u}

-----------------------------------------------------------------------------
(* What the processes do to a user's credits in Redis (billing.py) *)

(* INCRBY makes a key that is not there. *)
Credit(u) ==
  /\ bal' = [bal EXCEPT ![u] = IF @ = NoBalance THEN Cost ELSE @ + Cost]
  /\ UNCHANGED <<stored, snap, dirty, active>>

(* DECR_ACTIVE_CLAMP_LUA *)
Decrement(u) ==
  /\ active' = [active EXCEPT ![u] = IF @ > 0 THEN @ - 1 ELSE 0]
  /\ UNCHANGED <<stored, bal, snap>>

(* mark_credit_dirty, then the decrement: what follows the INCRBY of a refund. *)
GiveSlotBack(u) == Decrement(u) /\ dirty' = dirty \cup {u}

(* A SET of the balance. *)
Overwrite(u, n) ==
  /\ bal' = [bal EXCEPT ![u] = n]
  /\ suspect' = IF bal[u] = NoBalance THEN suspect ELSE suspect \cup {u}
  /\ UNCHANGED <<stored, snap, active, faults>>

SameKey(s, t) ==
  \/ s = t
  \/ scene.keys[s] # NoKey /\ scene.keys[s] = scene.keys[t] /\ UserOf[s] = UserOf[t]

ForgetKey(t) == idem' = {s \in idem : ~SameKey(s, t)}

-----------------------------------------------------------------------------
(* What the processes do to a task in Postgres (repository.py) *)

SetStatus(t, st) == status' = [status EXCEPT ![t] = st]

(* Defect: the guarded UPDATE is not looked at before the ledger row. *)
EndUnguarded(t, st) ==
  /\ SetStatus(t, IF status[t] \in Cancellable THEN st ELSE status[t])
  /\ ledger' = [ledger EXCEPT ![t] = @ + Cost]

(* update_task_failed or update_task_cancelled with the refund's ledger row. *)
EndWithRefund(t, st) ==
  /\ status[t] \in Cancellable
  /\ SetStatus(t, st)
  /\ ledger' = [ledger EXCEPT ![t] = @ + Cost]

-----------------------------------------------------------------------------
(* POST /v1/task *)

GoRequest(t, step) ==
  rpc' = [rpc EXCEPT ![t] = step] /\ UNCHANGED <<scene, cpc, adminVars>>

(* Defect: the script does not look at the active counter. *)
AdmissionUnbounded(t) ==
  LET u == UserOf[t] IN
  IF \E s \in idem : SameKey(s, t) THEN "IDEMPOTENT"
  ELSE IF bal[u] = NoBalance THEN "CACHE_MISS"
  ELSE IF bal[u] < Cost THEN "INSUFFICIENT"
  ELSE "OK"

(* ADMISSION_LUA: what the script answers ... *)
Admission(t) ==
  LET u == UserOf[t] IN
  IF \E s \in idem : SameKey(s, t) THEN "IDEMPOTENT"
  ELSE IF active[u] >= MaxConcurrent THEN "CONCURRENCY"
  ELSE IF bal[u] = NoBalance THEN "CACHE_MISS"
  ELSE IF bal[u] < Cost THEN "INSUFFICIENT"
  ELSE "OK"

(* ... and what it does. *)
Admit(t) ==
  LET u == UserOf[t] IN
  /\ Admission(t) = "OK"
  /\ bal' = [bal EXCEPT ![u] = @ - Cost] /\ dirty' = dirty \cup {u}
  /\ active' = [active EXCEPT ![u] = @ + 1]
  /\ idem' = idem \cup {t}
  /\ msg' = [msg EXCEPT ![t] = "queued"]
  /\ hash' = [hash EXCEPT ![t] = "PENDING"]
  /\ UNCHANGED <<stored, snap, marker, result>>

Gate(t) ==
  /\ rpc[t] \in {"idle", "again"} /\ t \in scene.cast
  /\ \/ Admit(t) /\ GoRequest(t, "mark")
     \/ /\ Admission(t) # "OK"
        /\ GoRequest(t, IF Admission(t) = "IDEMPOTENT" THEN "replayed"
                        ELSE IF Admission(t) # "CACHE_MISS" THEN "refused"
                        ELSE IF rpc[t] = "idle" THEN "hydrate" ELSE "failed")
        /\ UNCHANGED <<creditVars, admissionVars, cacheVars>>
  /\ UNCHANGED <<rowVars, read, workVars, reapVars, faultVars>>

(* The script's answer is lost: what it took, no one will give back. *)
GateLost(t) ==
  /\ rpc[t] \in {"idle", "again"} /\ t \in scene.cast
  /\ Fault /\ Admit(t) /\ GoRequest(t, "failed")
  /\ UNCHANGED <<rowVars, read, workVars, reapVars>>

(* hydrate_credits_from_db: a read from Postgres ... *)
HydrateRead(t) ==
  /\ rpc[t] = "hydrate"
  /\ read' = [read EXCEPT ![t] = stored[UserOf[t]]]
  /\ GoRequest(t, "fill")
  /\ UNCHANGED <<creditVars, admissionVars, rowVars, cacheVars, workVars, reapVars,
                 faultVars>>

(* ... and a SET in Redis. *)
HydrateFill(t) ==
  /\ rpc[t] = "fill"
  /\ Overwrite(UserOf[t], read[t])
  /\ read' = [read EXCEPT ![t] = NoBalance]
  /\ GoRequest(t, "again")
  /\ UNCHANGED <<dirty, admissionVars, rowVars, cacheVars, workVars, reapVars>>

MarkPending(t) ==
  /\ rpc[t] = "mark"
  /\ marker' = marker \cup {t}
  /\ GoRequest(t, "persist")
  /\ UNCHANGED <<creditVars, idem, msg, rowVars, cacheVars, read, workVars, reapVars,
                 faultVars>>

(* The unique index on (user_id, idempotency_key). *)
KeyPersisted(t) == \E s \in Tasks : s # t /\ SameKey(s, t) /\ status[s] # "none"

(* create_task_record and insert_credit_transaction in one transaction. *)
Insert(t) ==
  /\ ~KeyPersisted(t)
  /\ SetStatus(t, "PENDING")
  /\ ledger' = [ledger EXCEPT ![t] = @ - Cost]

Persist(t) ==
  /\ rpc[t] = "persist"
  /\ \/ Insert(t) /\ GoRequest(t, "clear")
     \/ KeyPersisted(t) /\ GoRequest(t, "undo") /\ UNCHANGED rowVars
  /\ UNCHANGED <<creditVars, admissionVars, cacheVars, read, workVars, reapVars,
                 faultVars>>

(* The transaction raises, perhaps after its commit. *)
PersistError(t) ==
  /\ rpc[t] = "persist"
  /\ GoRequest(t, "undo")
  /\ \/ Fault /\ UNCHANGED rowVars
     \/ Misled(UserOf[t]) /\ Insert(t)
  /\ UNCHANGED <<creditVars, admissionVars, cacheVars, read, workVars, reapVars>>

(* The compensation: refund the credits ... *)
Undo(t) ==
  /\ rpc[t] = "undo"
  /\ Credit(UserOf[t]) /\ GoRequest(t, "unadmit")
  /\ UNCHANGED <<admissionVars, rowVars, cacheVars, read, workVars, reapVars, faultVars>>

(* ... then give the slot back and delete the key, the marker and the hash.  *)
Unadmit(t) ==
  /\ rpc[t] = "unadmit"
  /\ GiveSlotBack(UserOf[t])
  /\ ForgetKey(t)
  /\ marker' = marker \ {t}
  /\ hash' = [hash EXCEPT ![t] = "none"]
  /\ GoRequest(t, "failed")
  /\ UNCHANGED <<msg, rowVars, result, read, workVars, reapVars, faultVars>>

(* It stops half-way and leaves the marker, so that the reaper refunds again. *)
UnadmitError(t) ==
  /\ rpc[t] = "unadmit"
  /\ Misled(UserOf[t]) /\ GoRequest(t, "failed")
  /\ \/ UNCHANGED creditVars
     \/ GiveSlotBack(UserOf[t])
  /\ UNCHANGED <<admissionVars, rowVars, cacheVars, read, workVars, reapVars>>

(* An error in the cleanup is only logged. *)
Accept(t) ==
  /\ rpc[t] = "clear"
  /\ GoRequest(t, "accepted")
  /\ \/ marker' = marker \ {t} /\ UNCHANGED faultVars
     \/ Fault /\ UNCHANGED marker
  /\ UNCHANGED <<creditVars, idem, msg, rowVars, cacheVars, read, workVars, reapVars>>

(* A call fails and the answer is 503, or the process crashes and there is   *)
(* no answer.  What was done before stays done.                              *)
RequestAbort(t) ==
  /\ rpc[t] \in RequestSteps \ {"unadmit"}
  /\ Fault /\ GoRequest(t, "failed")
  /\ \/ rpc[t] = "mark" /\ marker' = marker \cup {t}
     \/ UNCHANGED marker
  /\ read' = [read EXCEPT ![t] = NoBalance]
  /\ UNCHANGED <<creditVars, idem, msg, rowVars, cacheVars, workVars, reapVars>>

-----------------------------------------------------------------------------
(* POST /v1/task/{id}/cancel *)

GoCancel(c, step) ==
  cpc' = [cpc EXCEPT ![c] = step] /\ UNCHANGED <<scene, rpc, read, adminVars>>

(* A client knows a task id from an answer to a submission. *)
Known(t) == \E s \in Tasks : SameKey(s, t) /\ rpc[s] \in {"accepted", "replayed"}

CancelRead(c) ==
  LET st == status[CancelOf[c]] IN
  /\ cpc[c] = "idle" /\ c \in scene.cast /\ Known(CancelOf[c])
  /\ GoCancel(c, IF st \in Cancellable THEN "transact" ELSE "ended")
  /\ UNCHANGED <<creditVars, admissionVars, rowVars, cacheVars, workVars, reapVars,
                 faultVars>>

(* The status it read may be gone: 409. *)
CancelTransact(c) ==
  LET t == CancelOf[c] IN
  /\ cpc[c] = "transact"
  /\ \/ EndWithRefund(t, "CANCELLED") /\ GoCancel(c, "refund")
     \/ status[t] \notin Cancellable /\ UNCHANGED rowVars /\ GoCancel(c, "ended")
  /\ UNCHANGED <<creditVars, admissionVars, cacheVars, workVars, reapVars, faultVars>>

CancelRefund(c) ==
  /\ cpc[c] = "refund"
  /\ Credit(UserOf[CancelOf[c]]) /\ GoCancel(c, "release")
  /\ UNCHANGED <<admissionVars, rowVars, cacheVars, workVars, reapVars, faultVars>>

CancelRelease(c) ==
  /\ cpc[c] = "release"
  /\ GiveSlotBack(UserOf[CancelOf[c]]) /\ GoCancel(c, "cache")
  /\ UNCHANGED <<admissionVars, rowVars, cacheVars, workVars, reapVars, faultVars>>

(* The CANCELLED state in Redis, and the marker if the cleanup left it. *)
CancelCache(c) ==
  LET t == CancelOf[c] IN
  /\ cpc[c] = "cache"
  /\ hash' = [hash EXCEPT ![t] = "CANCELLED"]
  /\ marker' = marker \ {t}
  /\ GoCancel(c, "ended")
  /\ UNCHANGED <<creditVars, idem, msg, rowVars, result, workVars, reapVars, faultVars>>

(* A call fails for good, or the process crashes.  The transaction may have  *)
(* been committed: then no one refunds in Redis.                             *)
CancelAbort(c) ==
  LET t == CancelOf[c] IN
  /\ cpc[c] \in CancelSteps
  /\ Fault /\ GoCancel(c, "ended")
  /\ \/ cpc[c] = "transact" /\ EndWithRefund(t, "CANCELLED")
     \/ UNCHANGED rowVars
  /\ UNCHANGED <<creditVars, admissionVars, cacheVars, workVars, reapVars>>

(* retry_async: a call of the refund raises and the refund is made again,    *)
(* from its INCRBY on, whatever of it has taken effect.                      *)
CancelRetry(c) ==
  LET u == UserOf[CancelOf[c]] IN
  /\ cpc[c] \in {"refund", "release"}
  /\ Misled(u)
  /\ \/ cpc[c] = "refund" /\ Credit(u)
     \/ cpc[c] = "release" /\ (GiveSlotBack(u) \/ UNCHANGED creditVars)
  /\ GoCancel(c, "refund")
  /\ UNCHANGED <<admissionVars, rowVars, cacheVars, workVars, reapVars>>

-----------------------------------------------------------------------------
(* POST /v1/admin/credits *)

GoAdjust(a, step) == apc' = [apc EXCEPT ![a] = step] /\ UNCHANGED <<scene, rpc, read, cpc>>

(* A signed delta; CHECK (credits >= 0) aborts one that is not covered.  The *)
(* tasks have never debited users.credits.                                   *)
Adjust(a) ==
  LET u == AdjustUser[a]
      sum == stored[u] + AdjustBy[a] IN
  /\ apc[a] = "idle" /\ a \in scene.cast /\ sum >= 0
  /\ stored' = [stored EXCEPT ![u] = sum]
  /\ new' = [new EXCEPT ![a] = sum]
  /\ suspect' = IF AdjustBy[a] < 0 THEN suspect \cup {u} ELSE suspect
  /\ GoAdjust(a, "sync")
  /\ UNCHANGED <<bal, snap, dirty, active, admissionVars, rowVars, cacheVars, workVars,
                 reapVars, faults>>

AdjustSync(a) ==
  LET u == AdjustUser[a] IN
  /\ apc[a] = "sync"
  /\ Overwrite(u, new[a]) /\ dirty' = dirty \cup {u}
  /\ GoAdjust(a, "ended") /\ new' = [new EXCEPT ![a] = 0]
  /\ UNCHANGED <<admissionVars, rowVars, cacheVars, workVars, reapVars>>

(* The cache sync fails for good, which is only logged. *)
AdjustAbort(a) ==
  /\ apc[a] = "sync"
  /\ Fault /\ GoAdjust(a, "ended") /\ new' = [new EXCEPT ![a] = 0]
  /\ UNCHANGED <<creditVars, admissionVars, rowVars, cacheVars, workVars, reapVars>>

-----------------------------------------------------------------------------
(* Workers *)

GoWork(w, step) == wpc' = [wpc EXCEPT ![w] = step] /\ UNCHANGED job

Leave(w) == wpc' = [wpc EXCEPT ![w] = "idle"] /\ job' = [job EXCEPT ![w] = NoTask]

Take(w, t) == wpc' = [wpc EXCEPT ![w] = "start"] /\ job' = [job EXCEPT ![w] = t]

Ack(t) == msg' = [msg EXCEPT ![t] = "acked"]

Busy(t) == \E w \in Workers : job[w] = t

(* XREADGROUP *)
WorkRead(w, t) ==
  /\ w \in scene.cast /\ wpc[w] = "idle" /\ msg[t] = "queued"
  /\ msg' = [msg EXCEPT ![t] = "pending"]
  /\ Take(w, t)
  /\ UNCHANGED <<creditVars, idem, marker, rowVars, cacheVars, requestVars, reapVars,
                 faultVars>>

(* XAUTOCLAIM: a message that was not acknowledged has been idle for longer  *)
(* than any task runs; if a worker still has it, that worker has stalled.    *)
WorkClaim(w, t) ==
  /\ w \in scene.cast /\ wpc[w] = "idle" /\ msg[t] = "pending"
  /\ Take(w, t)
  /\ IF Busy(t) THEN Fault ELSE UNCHANGED faultVars
  /\ UNCHANGED <<creditVars, admissionVars, rowVars, cacheVars, requestVars, reapVars>>

(* update_task_running *)
WorkStart(w) ==
  /\ wpc[w] = "start"
  /\ \/ status[job[w]] = "PENDING" /\ SetStatus(job[w], "RUNNING") /\ GoWork(w, "running")
     \/ status[job[w]] # "PENDING" /\ UNCHANGED status /\ GoWork(w, "look")
  /\ UNCHANGED <<creditVars, admissionVars, ledger, cacheVars, requestVars, reapVars,
                 faultVars>>

(* Defect: a message without a row is dropped whatever its age. *)
WorkLookOnce(w) ==
  LET t == job[w] IN
  /\ wpc[w] = "look"
  /\ IF status[t] = "PENDING" THEN UNCHANGED msg ELSE Ack(t)
  /\ Leave(w)
  /\ UNCHANGED <<creditVars, idem, marker, rowVars, cacheVars, requestVars, reapVars,
                 faultVars>>

(* _handle_not_started_message.  A message whose task has no row is left for *)
(* the request to finish, or dropped when the message is older than any      *)
(* request and no marker is left.                                            *)
WorkLook(w) ==
  LET t == job[w] IN
  /\ wpc[w] = "look"
  /\ \/ /\ status[t] \in {"none", "PENDING"}
        /\ UNCHANGED <<msg, hash, faultVars>>
     \/ /\ status[t] = "none" /\ t \notin marker
        /\ IF rpc[t] \in RequestEnds THEN UNCHANGED faultVars ELSE Misled(UserOf[t])
        /\ hash' = [hash EXCEPT ![t] = "none"]
        /\ Ack(t)
     \/ /\ status[t] \notin {"none", "PENDING"}
        /\ Ack(t)
        /\ UNCHANGED <<hash, faultVars>>
  /\ Leave(w)
  /\ UNCHANGED <<creditVars, idem, marker, rowVars, result, requestVars, reapVars>>

(* The RUNNING state in Redis. *)
WorkMark(w) ==
  /\ wpc[w] = "running"
  /\ hash' = [hash EXCEPT ![job[w]] = "RUNNING"]
  /\ GoWork(w, "execute")
  /\ UNCHANGED <<creditVars, admissionVars, rowVars, result, requestVars, reapVars,
                 faultVars>>

(* Defect: a late result replaces whatever became of the task. *)
WorkCompleteUnguarded(w) ==
  /\ wpc[w] = "execute"
  /\ SetStatus(job[w], "COMPLETED") /\ GoWork(w, "published")
  /\ UNCHANGED <<creditVars, admissionVars, ledger, cacheVars, requestVars, reapVars,
                 faultVars>>

(* The model has answered: update_task_completed. *)
WorkComplete(w) ==
  /\ wpc[w] = "execute"
  /\ \/ status[job[w]] = "RUNNING" /\ SetStatus(job[w], "COMPLETED") /\ GoWork(w, "published")
     \/ status[job[w]] # "RUNNING" /\ UNCHANGED status /\ GoWork(w, "ack")
  /\ UNCHANGED <<creditVars, admissionVars, ledger, cacheVars, requestVars, reapVars,
                 faultVars>>

(* The model has raised. *)
WorkRaise(w) ==
  /\ wpc[w] = "execute"
  /\ GoWork(w, "fail")
  /\ UNCHANGED <<creditVars, admissionVars, rowVars, cacheVars, requestVars, reapVars,
                 faultVars>>

(* The result cache and the task hash, for either outcome. *)
Cache(t, st) ==
  /\ hash' = [hash EXCEPT ![t] = st]
  /\ result' = [result EXCEPT ![t] = st]

WorkPublish(w) ==
  /\ wpc[w] \in {"published", "failed"}
  /\ IF wpc[w] = "failed" THEN Cache(job[w], "FAILED") /\ GoWork(w, "ack")
     ELSE Cache(job[w], "COMPLETED") /\ GoWork(w, "finished")
  /\ UNCHANGED <<creditVars, admissionVars, rowVars, requestVars, reapVars, faultVars>>

(* A task that has completed gives its slot back. *)
WorkFinish(w) ==
  /\ wpc[w] = "finished"
  /\ Decrement(UserOf[job[w]]) /\ UNCHANGED dirty
  /\ GoWork(w, "ack")
  /\ UNCHANGED <<admissionVars, rowVars, cacheVars, requestVars, reapVars, faultVars>>

(* The request is still to write the row of a task it has admitted. *)
RowToCome(t) == status[t] = "none" /\ rpc[t] \in {"mark", "persist"}

(* _handle_failure: it acknowledges whatever it finds, also the message of a *)
(* task whose row is still to come.                                          *)
WorkFail(w) ==
  LET t == job[w] IN
  /\ wpc[w] = "fail"
  /\ \/ EndWithRefund(t, "FAILED") /\ GoWork(w, "refund")
     \/ status[t] \notin Cancellable /\ UNCHANGED rowVars /\ GoWork(w, "ack")
  /\ suspect' = IF RowToCome(t) THEN suspect \cup {UserOf[t]} ELSE suspect
  /\ UNCHANGED <<creditVars, admissionVars, cacheVars, requestVars, reapVars, faults>>

WorkRefund(w) ==
  /\ wpc[w] = "refund"
  /\ Credit(UserOf[job[w]]) /\ GoWork(w, "release")
  /\ UNCHANGED <<admissionVars, rowVars, cacheVars, requestVars, reapVars, faultVars>>

WorkRelease(w) ==
  /\ wpc[w] = "release"
  /\ GiveSlotBack(UserOf[job[w]]) /\ GoWork(w, "failed")
  /\ UNCHANGED <<admissionVars, rowVars, cacheVars, requestVars, reapVars, faultVars>>

WorkAck(w) ==
  /\ wpc[w] = "ack"
  /\ Ack(job[w]) /\ Leave(w)
  /\ UNCHANGED <<creditVars, idem, marker, rowVars, cacheVars, requestVars, reapVars,
                 faultVars>>

Work(w) ==
  \/ WorkStart(w) \/ WorkLook(w) \/ WorkMark(w) \/ WorkComplete(w)
  \/ WorkPublish(w) \/ WorkFinish(w)
  \/ WorkFail(w) \/ WorkRefund(w) \/ WorkRelease(w) \/ WorkAck(w)

(* A call raises before the outcome is recorded, perhaps after its commit:   *)
(* _handle_failure follows.                                                  *)
WorkError(w) ==
  LET t == job[w] IN
  /\ wpc[w] \in {"start", "look", "running", "execute"}
  /\ Fault /\ GoWork(w, "fail")
  /\ \/ UNCHANGED status
     \/ wpc[w] = "start" /\ status[t] = "PENDING" /\ SetStatus(t, "RUNNING")
     \/ wpc[w] = "execute" /\ status[t] = "RUNNING" /\ SetStatus(t, "COMPLETED")
  /\ UNCHANGED <<creditVars, admissionVars, ledger, cacheVars, requestVars, reapVars>>

(* Its transaction raises, too.  The message is acknowledged all the same,   *)
(* and only a RUNNING task has the reaper to end it.                         *)
WorkFailError(w) ==
  LET t == job[w] IN
  /\ wpc[w] = "fail"
  /\ GoWork(w, "ack")
  /\ \/ Fault /\ EndWithRefund(t, "FAILED")
     \/ /\ IF RowToCome(t) \/ status[t] = "PENDING" THEN Misled(UserOf[t]) ELSE Fault
        /\ UNCHANGED rowVars
  /\ UNCHANGED <<creditVars, admissionVars, cacheVars, requestVars, reapVars>>

(* The Redis writes after the outcome are given up after some attempts. *)
WorkGiveUp(w) ==
  /\ Fault
  /\ \/ wpc[w] = "published" /\ GoWork(w, "finished")
     \/ wpc[w] \in {"refund", "release"} /\ GoWork(w, "failed")
     \/ wpc[w] \in {"finished", "failed"} /\ GoWork(w, "ack")
  /\ UNCHANGED <<creditVars, admissionVars, rowVars, cacheVars, requestVars, reapVars>>

(* An attempt takes effect but its answer is lost, and it is made again; or  *)
(* the INCRBY has taken effect and what follows it raises.                   *)
WorkRetry(w) ==
  LET u == UserOf[job[w]] IN
  /\ wpc[w] \in {"refund", "release", "finished"}
  /\ Misled(u)
  /\ \/ wpc[w] = "refund" /\ Credit(u) /\ UNCHANGED workVars
     \/ wpc[w] = "release" /\ (GiveSlotBack(u) \/ UNCHANGED creditVars) /\ GoWork(w, "refund")
     \/ wpc[w] = "finished" /\ Decrement(u) /\ UNCHANGED <<dirty, workVars>>
  /\ UNCHANGED <<admissionVars, rowVars, cacheVars, requestVars, reapVars>>

(* A crash, or an error that ends the iteration: the message stays pending.  *)
WorkCrash(w) ==
  /\ wpc[w] # "idle"
  /\ Fault /\ Leave(w)
  /\ UNCHANGED <<creditVars, admissionVars, rowVars, cacheVars, requestVars, reapVars>>

-----------------------------------------------------------------------------
(* The reaper: one process *)

GoReap(step, j, n) == xpc' = step /\ xjob' = j /\ xread' = n

Rest == GoReap("idle", NoTask, NoBalance)

(* Defect: the reaper does not look for the task's row. *)
ReapMarkerBlind(t) ==
  /\ xpc = "idle" /\ t \in marker /\ rpc[t] \in RequestEnds
  /\ GoReap("refund", t, NoBalance)
  /\ UNCHANGED <<creditVars, admissionVars, rowVars, cacheVars, requestVars, workVars,
                 faultVars>>

(* _process_pending_markers: a marker older than any request is deleted when *)
(* the task has a row, and refunded when it has none.                        *)
ReapMarker(t) ==
  /\ xpc = "idle" /\ t \in marker
  /\ \/ /\ status[t] # "none" /\ rpc[t] \in RequestEnds
        /\ marker' = marker \ {t}
        /\ UNCHANGED <<reapVars, faultVars>>
     \/ /\ status[t] = "none"
        /\ IF rpc[t] \in RequestEnds THEN UNCHANGED faultVars ELSE Misled(UserOf[t])
        /\ GoReap("refund", t, NoBalance)
        /\ UNCHANGED marker
  /\ UNCHANGED <<creditVars, idem, msg, rowVars, cacheVars, requestVars, workVars>>

(* pending_marker_ttl passes without a cycle of the reaper: the refund is lost. *)
MarkerExpire(t) ==
  /\ t \in marker /\ rpc[t] \in RequestEnds
  /\ Fault
  /\ marker' = marker \ {t}
  /\ UNCHANGED <<creditVars, idem, msg, rowVars, cacheVars, requestVars, workVars,
                 reapVars>>

(* _process_stuck_tasks: a task that has been RUNNING for too long. *)
ReapStuck(t) ==
  /\ xpc = "idle" /\ status[t] = "RUNNING"
  /\ EndWithRefund(t, "FAILED")
  /\ GoReap("stuckRefund", t, NoBalance)
  /\ UNCHANGED <<creditVars, admissionVars, cacheVars, requestVars, workVars, faultVars>>

(* The transaction was committed, but raises: no one refunds in Redis. *)
ReapStuckLost(t) ==
  /\ xpc = "idle" /\ status[t] = "RUNNING"
  /\ Fault /\ EndWithRefund(t, "FAILED")
  /\ UNCHANGED <<creditVars, admissionVars, cacheVars, requestVars, workVars, reapVars>>

(* Defect: the refund deletes the marker without its INCRBY. *)
ReapRefundSkipped ==
  /\ xpc \in {"refund", "stuckRefund"}
  /\ GoReap(IF xpc = "refund" THEN "release" ELSE "stuckRelease", xjob, NoBalance)
  /\ UNCHANGED <<creditVars, admissionVars, rowVars, cacheVars, requestVars, workVars,
                 faultVars>>

ReapRefund ==
  /\ xpc \in {"refund", "stuckRefund"}
  /\ Credit(UserOf[xjob])
  /\ GoReap(IF xpc = "refund" THEN "release" ELSE "stuckRelease", xjob, NoBalance)
  /\ UNCHANGED <<admissionVars, rowVars, cacheVars, requestVars, workVars, faultVars>>

ReapRelease ==
  /\ xpc \in {"release", "stuckRelease"}
  /\ GiveSlotBack(UserOf[xjob])
  /\ IF xpc = "release" THEN GoReap("forget", xjob, NoBalance) ELSE Rest
  /\ UNCHANGED <<admissionVars, rowVars, cacheVars, requestVars, workVars, faultVars>>

ReapForget ==
  /\ xpc = "forget"
  /\ ForgetKey(xjob) /\ marker' = marker \ {xjob}
  /\ Rest
  /\ UNCHANGED <<creditVars, msg, rowVars, cacheVars, requestVars, workVars, faultVars>>

(* bulk_expire_old_terminal_tasks, or the poll that finds the task too old:  *)
(* task_result_ttl is a day, and no one is at work on the task any more.     *)
Expire(t) ==
  /\ status[t] \in Terminal
  /\ rpc[t] \in RequestEnds /\ ~Busy(t) /\ xjob # t
  /\ \A c \in Cancels : CancelOf[c] = t => cpc[c] \in {"idle", "ended"}
  /\ SetStatus(t, "EXPIRED")
  /\ UNCHANGED <<creditVars, admissionVars, ledger, cacheVars, requestVars, workVars,
                 reapVars, faultVars>>

(* _flush_credit_snapshots: GET, upsert, SREM. *)
FlushRead(u) ==
  /\ xpc = "idle" /\ u \in dirty
  /\ \/ bal[u] # NoBalance /\ GoReap("snapshot", u, bal[u]) /\ UNCHANGED dirty
     \/ bal[u] = NoBalance /\ dirty' = dirty \ {u} /\ UNCHANGED reapVars
  /\ UNCHANGED <<stored, bal, snap, active, admissionVars, rowVars, cacheVars,
                 requestVars, workVars, faultVars>>

(* Defect: the drift audit leaves the snapshot as it is. *)
WriteFlushed ==
  /\ xpc \in {"snapshot", "reconcile"}
  /\ snap' = IF xpc = "snapshot" THEN [snap EXCEPT ![xjob] = xread] ELSE snap
  /\ IF xpc = "snapshot" THEN GoReap("clean", xjob, NoBalance) ELSE Rest
  /\ UNCHANGED <<stored, bal, dirty, active, admissionVars, rowVars, cacheVars,
                 requestVars, workVars, faultVars>>

(* upsert_credit_snapshot, of the flush and of the drift audit. *)
WriteSnapshot ==
  /\ xpc \in {"snapshot", "reconcile"}
  /\ snap' = [snap EXCEPT ![xjob] = xread]
  /\ IF xpc = "snapshot" THEN GoReap("clean", xjob, NoBalance) ELSE Rest
  /\ UNCHANGED <<stored, bal, dirty, active, admissionVars, rowVars, cacheVars,
                 requestVars, workVars, faultVars>>

FlushClean ==
  /\ xpc = "clean"
  /\ dirty' = dirty \ {xjob}
  /\ Rest
  /\ UNCHANGED <<stored, bal, snap, active, admissionVars, rowVars, cacheVars,
                 requestVars, workVars, faultVars>>

(* _run_credit_drift_audit: a snapshot restores a balance Redis has lost,    *)
(* and is brought up to date with one that differs.                          *)
AuditRead(u) ==
  /\ xpc = "idle" /\ snap[u] # NoBalance
  /\ \/ bal[u] = NoBalance /\ GoReap("restore", u, snap[u])
     \/ bal[u] \notin {NoBalance, snap[u]} /\ GoReap("reconcile", u, bal[u])
  /\ UNCHANGED <<creditVars, admissionVars, rowVars, cacheVars, requestVars, workVars,
                 faultVars>>

AuditRestore ==
  /\ xpc = "restore"
  /\ Overwrite(xjob, xread) /\ UNCHANGED dirty
  /\ Rest
  /\ UNCHANGED <<admissionVars, rowVars, cacheVars, requestVars, workVars>>

ReapStep ==
  \/ ReapRefund \/ ReapRelease \/ ReapForget
  \/ WriteSnapshot \/ FlushClean \/ AuditRestore

(* An error or a crash ends the cycle.  An orphan's refund that was begun is *)
(* made again in the next one, because its marker is still there.            *)
ReapAbort ==
  /\ xpc # "idle"
  /\ IF xpc \in {"release", "forget"} THEN Misled(UserOf[xjob]) ELSE Fault
  /\ Rest
  /\ UNCHANGED <<creditVars, admissionVars, rowVars, cacheVars, requestVars, workVars>>

(* retry_async, as in CancelRetry. *)
ReapRetry ==
  LET u == UserOf[xjob] IN
  /\ xpc \in {"refund", "stuckRefund", "release", "stuckRelease"}
  /\ Misled(u)
  /\ IF xpc \in {"refund", "stuckRefund"} THEN Credit(u)
     ELSE GiveSlotBack(u) \/ UNCHANGED creditVars
  /\ GoReap(IF xpc \in {"refund", "release"} THEN "refund" ELSE "stuckRefund", xjob,
            NoBalance)
  /\ UNCHANGED <<admissionVars, rowVars, cacheVars, requestVars, workVars>>

-----------------------------------------------------------------------------
(* GET /v1/poll: the status it reports.  It takes an outcome from the row,   *)
(* and the hash only for what is under way.                                  *)

PollResult(t) == result[t]

PollRow(t) == status[t]

PollState(t) ==
  IF hash[t] \in Terminal /\ status[t] # "none" THEN PollRow(t) ELSE hash[t]

Polled(t) ==
  IF result[t] # "none" THEN PollResult(t)
  ELSE IF hash[t] # "none" THEN PollState(t) ELSE PollRow(t)

-----------------------------------------------------------------------------
Request(t) ==
  Gate(t) \/ HydrateRead(t) \/ HydrateFill(t) \/ MarkPending(t) \/ Persist(t)
  \/ Undo(t) \/ Unadmit(t) \/ Accept(t)

Next ==
  \/ \E t \in Tasks :
       \/ Request(t)
       \/ GateLost(t) \/ PersistError(t) \/ UnadmitError(t) \/ RequestAbort(t)
  \/ \E c \in Cancels :
       \/ CancelRead(c) \/ CancelTransact(c) \/ CancelRefund(c) \/ CancelRelease(c)
       \/ CancelCache(c) \/ CancelAbort(c) \/ CancelRetry(c)
  \/ \E a \in Adjusts : Adjust(a) \/ AdjustSync(a) \/ AdjustAbort(a)
  \/ \E w \in Workers :
       \/ \E t \in Tasks : WorkRead(w, t) \/ WorkClaim(w, t)
       \/ Work(w) \/ WorkRaise(w)
       \/ WorkError(w) \/ WorkFailError(w) \/ WorkGiveUp(w) \/ WorkRetry(w) \/ WorkCrash(w)
  \/ \E t \in Tasks :
       ReapMarker(t) \/ MarkerExpire(t) \/ ReapStuck(t) \/ ReapStuckLost(t) \/ Expire(t)
  \/ \E u \in Users : FlushRead(u) \/ AuditRead(u)
  \/ ReapStep \/ ReapAbort \/ ReapRetry

Spec == Init /\ [][Next]_vars

WorkTake(w, t) == WorkRead(w, t) \/ (WorkClaim(w, t) /\ UNCHANGED faults)

(* The processes run until they are stopped and are restarted when they      *)
(* crash, and a request that has begun goes on.  The reaper visits every     *)
(* marker, stuck task and dirty balance in its cycle, and some worker comes  *)
(* to each message, new or pending, between those of other tasks; what it    *)
(* starts, a live process finishes.                                          *)
Fairness ==
  /\ \A t \in Tasks :
       /\ WF_vars(Request(t) /\ rpc[t] # "idle")
       /\ SF_vars(\E w \in Workers : WorkTake(w, t))
       /\ SF_vars(ReapMarker(t) /\ UNCHANGED faults)
       /\ SF_vars(ReapStuck(t))
  /\ \A c \in Cancels :
       WF_vars(CancelTransact(c) \/ CancelRefund(c) \/ CancelRelease(c) \/ CancelCache(c))
  /\ \A a \in Adjusts : WF_vars(AdjustSync(a))
  /\ \A w \in Workers : WF_vars(Work(w))
  /\ \A u \in Users : SF_vars(FlushRead(u)) /\ SF_vars(AuditRead(u))
  /\ WF_vars(ReapStep)

FairSpec == Spec /\ Fairness

-----------------------------------------------------------------------------
(* Properties *)

(* The ledger charges a task that runs or has completed, and gives the       *)
(* credits of one that has failed or was cancelled back once, whoever of     *)
(* worker, second worker, cancel and reaper ends it.                         *)
LedgerMatchesStatus ==
  \A t \in Tasks :
    /\ status[t] = "none" => ledger[t] = 0
    /\ status[t] \in Cancellable \cup {"COMPLETED"} => ledger[t] = -Cost
    /\ status[t] \in {"FAILED", "CANCELLED"} => ledger[t] = 0
    /\ status[t] = "EXPIRED" => ledger[t] \in {0, -Cost}

Charged(u) == {t \in Tasks : UserOf[t] = u /\ ledger[t] = -Cost}

Open(u) == {t \in Tasks : UserOf[t] = u /\ status[t] \in Cancellable}

(* Redis never lets a user spend what the ledger says is spent: a failure    *)
(* the code accounts for can lose a refund, but none is made twice, or for a *)
(* task that has run.                                                        *)
NothingRunsFree ==
  \A u \in Users \ suspect :
    bal[u] # NoBalance => bal[u] <= stored[u] - Cost * Cardinality(Charged(u))

(* The counter covers the tasks a user has open, which max_concurrent bounds. *)
OpenTasksCounted ==
  \A u \in Users \ suspect :
    Cardinality(Open(u)) <= active[u] /\ active[u] <= MaxConcurrent

(* An outcome in the task hash, and one that a poll reports, from whichever  *)
(* store it takes it, is the task's outcome.                                 *)
CachedOutcomesTrue ==
  \A t \in Tasks :
    /\ hash[t] \in Terminal => status[t] \in {hash[t], "EXPIRED"}
    /\ Polled(t) \in Terminal => status[t] \in {Polled(t), "EXPIRED"}

(* A task with a row ends: its message is not given up before, and if its    *)
(* worker crashes the reaper ends it.                                        *)
TasksEnd ==
  \A t \in Tasks :
    status[t] \in Cancellable ~> status[t] \notin Cancellable \/ UserOf[t] \in suspect

(* A request has crashed, or got an error, between its pending marker and    *)
(* its row: its credits and its slot are taken, and nothing in Postgres says *)
(* so.                                                                       *)
Orphan(t) == t \in marker /\ status[t] = "none" /\ rpc[t] \in RequestEnds

(* Redis and the ledger agree on the user's credits and on the open tasks.   *)
BooksAgree(u) ==
  /\ bal[u] = stored[u] - Cost * Cardinality(Charged(u))
  /\ active[u] = Cardinality(Open(u))

(* The user of an orphan gets the credits and the slot back, and the key is  *)
(* free for another try, whatever worker and reaper do with the marker and   *)
(* the message meanwhile, unless something else fails too.                   *)
OrphansRefunded ==
  \A t \in Tasks :
    Orphan(t) /\ faults = 1
      ~> \/ BooksAgree(UserOf[t]) /\ t \notin idem
         \/ faults > 1 \/ UserOf[t] \in suspect

(* The snapshot, from which a lost balance is restored, catches up with the  *)
(* balance, also when the balance changes between the flush's GET and SREM.  *)
SnapshotsCatchUp ==
  \A u \in Users : <>[](NoBalance \in {bal[u], snap[u]} \/ bal[u] = snap[u])

=============================================================================

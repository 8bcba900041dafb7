---------------------------- MODULE ReservedTask ----------------------------
(***************************************************************************)
(* Solution 2, the command side: the API's submit (queued, inline and      *)
(* batch), cancel and admin handlers, the outbox relay, the workers and    *)
(* the watchdog, over the tables users, cmd.task_commands,                 *)
(* cmd.credit_reservations, cmd.outbox_events and cmd.inbox_events of      *)
(* Postgres and the lane queues of RabbitMQ.  ProjectedTask adds the query *)
(* view, the projector and the Redis cache.                                *)
(*                                                                         *)
(* Each Postgres transaction is one step.  It reads its rows without locks *)
(* or under FOR UPDATE, and every write is guarded by the state it expects *)
(* (UPDATE ... WHERE), so what it does is what it would do alone at the    *)
(* time of its commit.  A transaction can also do nothing: it is aborted,  *)
(* as a deadlock victim or by a lost connection.                           *)
(* Between two transactions anything can happen, and a worker can lose its *)
(* delivery at any step (a timeout, an error or a crash).  MaxFaults       *)
(* bounds these failures.                                                  *)
(***************************************************************************)
EXTENDS Integers, FiniteSets, Sequences

CONSTANTS
  Users,          \* rows of the users table
  Reqs,           \* submit and batch-submit requests
  UserOf,         \* UserOf[r]: the authenticated user of request r
  KeyOf,          \* KeyOf[r]: its Idempotency-Key, or NoKey
  NoKey,
  SyncReqs,       \* the requests that run their task inline
  Tasks,          \* the tasks the requests ask for
  ReqOf,          \* ReqOf[t]: the request that asks for t
  Cost,           \* task_cost
  MaxConcurrent,  \* max_concurrent of a user
  SeedCredits,    \* SeedCredits[u]: users.credits of the seed migration
  Adjusts,        \* admin credit adjustments
  AdjustUser, AdjustBy,
  Cancels,        \* cancel requests
  CancelOf,       \* CancelOf[c]: the task c wants cancelled
  Workers,
  NoTask,
  MaxFaults       \* bound on aborted transactions, lost deliveries and connections

TasksOf(r) == {t \in Tasks : ReqOf[t] = r}
OwnerOf == [t \in Tasks |-> UserOf[ReqOf[t]]]

ASSUME ConstantsOK ==
  /\ IsFiniteSet(Tasks) /\ NoTask \notin Tasks
  /\ UserOf \in [Reqs -> Users]
  /\ ReqOf \in [Tasks -> Reqs]
  /\ SyncReqs \subseteq Reqs
  /\ \A r \in Reqs : r \in SyncReqs \/ KeyOf[r] # NoKey => Cardinality(TasksOf(r)) = 1
  /\ Cost \in Nat \ {0}
  /\ MaxConcurrent \in Nat
  /\ SeedCredits \in [Users -> Nat]
  /\ AdjustUser \in [Adjusts -> Users] /\ AdjustBy \in [Adjusts -> Int]
  /\ CancelOf \in [Cancels -> Tasks]

VARIABLES
  credits,     \* users.credits
  granted,     \* what the seed and the admins gave each user in all
  status,      \* cmd.task_commands.status, "none" when there is no row
  resv,        \* cmd.credit_reservations.state, "none" when there is no row,
               \* "OVERDUE" when it is RESERVED and past expires_at
  events,      \* cmd.outbox_events of each task, in the order they were written
  published,   \* how many of them the relay has marked published
  linked,      \* whether the relay has its connection to RabbitMQ
  lane,        \* copies of the task's submission in the lane queues
  inbox,       \* cmd.inbox_events: submissions a worker has applied
  rpc,         \* submit: program counter
  cpc,         \* cancel: program counter
  apc,         \* admin adjustment: program counter
  wpc, job,    \* worker: program counter; the task of its delivery
  wdog,        \* watchdog: the task whose cache entry it is to write, or NoTask
  faults

moneyVars == <<credits, granted>>
taskVars == <<status, resv>>
relayVars == <<published, linked>>
reqVars == <<rpc, cpc, apc>>
workVars == <<wpc, job>>
vars == <<credits, granted, status, resv, events, published, linked, lane, inbox,
          rpc, cpc, apc, wpc, job, wdog, faults>>

-----------------------------------------------------------------------------
(* States *)

Terminal == {"COMPLETED", "FAILED", "CANCELLED", "TIMEOUT"}
Cancellable == {"PENDING", "RUNNING"}
Statuses == {"none"} \cup Cancellable \cup Terminal
Reserved == {"RESERVED", "OVERDUE"}
ResvStates == {"none", "CAPTURED", "RELEASED"} \cup Reserved
Events == {"submitted"} \cup Terminal

RequestSteps == {"mark", "execute", "timeout", "fail", "cache"}
RequestEnds == {"accepted", "replayed", "refused", "failed"}
CancelSteps == {"transact", "sync"}
WorkSteps == {"idle", "mark", "execute", "cache"}

TypeOK ==
  /\ credits \in [Users -> Nat] /\ granted \in [Users -> Nat]
  /\ status \in [Tasks -> Statuses]
  /\ resv \in [Tasks -> ResvStates]
  /\ events \in [Tasks -> Seq(Events)]
  /\ published \in [Tasks -> Nat]
  /\ linked \in BOOLEAN
  /\ lane \in [Tasks -> Nat]
  /\ inbox \subseteq Tasks
  /\ rpc \in [Reqs -> {"idle"} \cup RequestSteps \cup RequestEnds]
  /\ cpc \in [Cancels -> {"idle", "cancelled", "ended"} \cup CancelSteps]
  /\ apc \in [Adjusts -> {"idle", "ended"}]
  /\ wpc \in [Workers -> WorkSteps]
  /\ job \in [Workers -> Tasks \cup {NoTask}]
  /\ wdog \in Tasks \cup {NoTask}
  /\ faults \in Nat

Init ==
  /\ credits = SeedCredits /\ granted = SeedCredits
  /\ status = [t \in Tasks |-> "none"] /\ resv = [t \in Tasks |-> "none"]
  /\ inbox = {}
  /\ events = [t \in Tasks |-> <<>>]
  /\ published = [t \in Tasks |-> 0] /\ linked = TRUE
  /\ lane = [t \in Tasks |-> 0]
  /\ rpc = [r \in Reqs |-> "idle"] /\ cpc = [c \in Cancels |-> "idle"]
  /\ apc = [a \in Adjusts |-> "idle"]
  /\ wpc = [w \in Workers |-> "idle"] /\ job = [w \in Workers |-> NoTask]
  /\ wdog = NoTask
  /\ faults = 0

-----------------------------------------------------------------------------
(* What the transactions share (repository.py) *)

SetStatus(t, st) == status' = [status EXCEPT ![t] = st]

Emit(t, event) == events' = [events EXCEPT ![t] = Append(@, event)]

Capture(t) ==
  /\ resv' = [resv EXCEPT ![t] = "CAPTURED"]
  /\ UNCHANGED moneyVars

(* release_reservation with add_user_credits. *)
Refund(t) ==
  /\ resv' = [resv EXCEPT ![t] = "RELEASED"]
  /\ credits' = [credits EXCEPT ![OwnerOf[t]] = @ + Cost]
  /\ UNCHANGED granted

(* The guarded UPDATE of the command matches and the reservation is held. *)
Open(t) == status[t] \in Cancellable /\ resv[t] \in Reserved

(* An aborted transaction, or a lost connection or delivery. *)
Fault == faults < MaxFaults /\ faults' = faults + 1

-----------------------------------------------------------------------------
(* POST /v1/task and /v1/task/batch *)

GoRequest(r, step) == rpc' = [rpc EXCEPT ![r] = step] /\ UNCHANGED <<cpc, apc>>

(* The unique index on (user_id, idempotency_key). *)
KeyTaken(r) ==
  /\ KeyOf[r] # NoKey
  /\ \E t \in Tasks : /\ status[t] # "none"
                      /\ UserOf[ReqOf[t]] = UserOf[r] /\ KeyOf[ReqOf[t]] = KeyOf[r]

(* RESERVED and not yet past expires_at. *)
Active(u) == {t \in Tasks : OwnerOf[t] = u /\ resv[t] = "RESERVED"}

(* Defect: a batch needs the credits of one task. *)
RefusedByOneCost(r) ==
  \/ Cardinality(Active(UserOf[r])) + Cardinality(TasksOf(r)) > MaxConcurrent
  \/ credits[UserOf[r]] < Cost

(* Defect: a batch counts as one task. *)
RefusedAsOne(r) ==
  \/ Cardinality(Active(UserOf[r])) >= MaxConcurrent
  \/ credits[UserOf[r]] < Cost * Cardinality(TasksOf(r))

Refused(r) ==
  LET n == Cardinality(TasksOf(r)) IN
  \/ Cardinality(Active(UserOf[r])) + n > MaxConcurrent
  \/ credits[UserOf[r]] < Cost * n

(* A command and a reservation for each task, with or without an outbox event. *)
AdmitRows(r, announced) ==
  LET admitted(f, v) == [t \in Tasks |-> IF t \in TasksOf(r) THEN v ELSE f[t]] IN
  /\ status' = admitted(status, "PENDING")
  /\ resv' = admitted(resv, "RESERVED")
  /\ events' = IF announced THEN admitted(events, <<"submitted">>) ELSE events
  /\ UNCHANGED granted

(* Defect: a batch is debited the cost of one task. *)
AdmitForOneCost(r) ==
  /\ ~KeyTaken(r) /\ ~Refused(r)
  /\ credits' = [credits EXCEPT ![UserOf[r]] = @ - Cost]
  /\ AdmitRows(r, r \notin SyncReqs)

(* Defect: an inline task has a submission event, too. *)
AdmitAnnounced(r) ==
  /\ ~KeyTaken(r) /\ ~Refused(r)
  /\ credits' = [credits EXCEPT ![UserOf[r]] = @ - Cost * Cardinality(TasksOf(r))]
  /\ AdmitRows(r, TRUE)

(* Under the lock of the user's row: the debit and the rows.  A task run     *)
(* inline has no event.                                                      *)
AdmitTasks(r) ==
  /\ ~KeyTaken(r) /\ ~Refused(r)
  /\ credits' = [credits EXCEPT ![UserOf[r]] = @ - Cost * Cardinality(TasksOf(r))]
  /\ AdmitRows(r, r \notin SyncReqs)

Admit(r) ==
  /\ rpc[r] = "idle"
  /\ \/ AdmitTasks(r) /\ GoRequest(r, IF r \in SyncReqs THEN "mark" ELSE "cache")
     \/ /\ KeyTaken(r) \/ Refused(r)
        /\ GoRequest(r, IF KeyTaken(r) THEN "replayed" ELSE "refused")
        /\ UNCHANGED <<moneyVars, taskVars, events>>
  /\ UNCHANGED <<relayVars, lane, inbox, workVars, wdog, faults>>

(* The transaction raises; it may have committed before. *)
AdmitError(r) ==
  /\ rpc[r] = "idle"
  /\ Fault
  /\ GoRequest(r, "failed")
  /\ \/ AdmitTasks(r)
     \/ UNCHANGED <<moneyVars, taskVars, events>>
  /\ UNCHANGED <<relayVars, lane, inbox, workVars, wdog>>

(* The write of the PENDING or final state to Redis, then the answer. *)
SubmitCache(r) ==
  /\ rpc[r] = "cache"
  /\ GoRequest(r, "accepted")
  /\ UNCHANGED <<moneyVars, taskVars, events, relayVars, lane, inbox, workVars,
                 wdog, faults>>

(* An error after the admission answers 503; a crash does not answer. *)
RequestAbort(r) ==
  /\ rpc[r] \in RequestSteps
  /\ Fault
  /\ GoRequest(r, "failed")
  /\ UNCHANGED <<moneyVars, taskVars, events, relayVars, lane, inbox, workVars,
                 wdog>>

(* The task of an inline request: run_sync_submission. *)

SyncMark(t) ==
  /\ rpc[ReqOf[t]] = "mark"
  /\ \/ /\ status[t] = "PENDING"
        /\ SetStatus(t, "RUNNING")
        /\ GoRequest(ReqOf[t], "execute")
     \/ /\ status[t] # "PENDING"
        /\ GoRequest(ReqOf[t], "failed")
        /\ UNCHANGED status
  /\ UNCHANGED <<moneyVars, resv, events, relayVars, lane, inbox, workVars,
                 wdog, faults>>

(* The task ends with the request, unless a cancel or the watchdog was first: *)
(* the model answers in time ...                                             *)
FinishInline(t) == Open(t) /\ SetStatus(t, "COMPLETED") /\ Capture(t)

SyncFinish(t) ==
  /\ rpc[ReqOf[t]] = "execute"
  /\ \/ FinishInline(t) /\ GoRequest(ReqOf[t], "cache")
     \/ /\ status[t] \notin Cancellable
        /\ GoRequest(ReqOf[t], "failed")
        /\ UNCHANGED <<moneyVars, taskVars>>
  /\ UNCHANGED <<events, relayVars, lane, inbox, workVars, wdog, faults>>

(* The transaction raises, perhaps after its commit: the request goes on to  *)
(* fail the task, or to time it out when what it raised is a TimeoutError.   *)
SyncFinishError(t) ==
  /\ rpc[ReqOf[t]] = "execute"
  /\ Fault
  /\ FinishInline(t) \/ UNCHANGED <<moneyVars, taskVars>>
  /\ \E step \in {"fail", "timeout"} : GoRequest(ReqOf[t], step)
  /\ UNCHANGED <<events, relayVars, lane, inbox, workVars, wdog>>

(* Defect: the refund does not depend on the guarded update of the command. *)
SyncFailUnguarded(t) ==
  /\ rpc[ReqOf[t]] \in {"execute", "timeout", "fail"}
  /\ SetStatus(t, IF ~Open(t) THEN status[t]
                  ELSE IF rpc[ReqOf[t]] = "fail" THEN "FAILED" ELSE "TIMEOUT")
  /\ Refund(t)
  /\ GoRequest(ReqOf[t], "cache")
  /\ UNCHANGED <<events, relayVars, lane, inbox, workVars, wdog, faults>>

(* ... or wait_for gives up on it, or the success could not be recorded.     *)
SyncFail(t) ==
  /\ rpc[ReqOf[t]] \in {"execute", "timeout", "fail"}
  /\ \/ /\ Open(t) /\ Refund(t)
        /\ SetStatus(t, IF rpc[ReqOf[t]] = "fail" THEN "FAILED" ELSE "TIMEOUT")
        /\ GoRequest(ReqOf[t], "cache")
     \/ /\ status[t] \notin Cancellable
        /\ GoRequest(ReqOf[t], "failed")
        /\ UNCHANGED <<moneyVars, taskVars>>
  /\ UNCHANGED <<events, relayVars, lane, inbox, workVars, wdog, faults>>

Inline(t) == SyncMark(t) \/ SyncFinish(t) \/ SyncFail(t)

-----------------------------------------------------------------------------
(* POST /v1/task/{id}/cancel *)

GoCancel(c, step) == cpc' = [cpc EXCEPT ![c] = step] /\ UNCHANGED <<rpc, apc>>

(* A client knows a task id from the answer to its submission, or to the     *)
(* same submission under the same key.                                       *)
Known(t) ==
  \/ rpc[ReqOf[t]] = "accepted"
  \/ /\ status[t] # "none" /\ KeyOf[ReqOf[t]] # NoKey
     /\ \E r \in Reqs : /\ rpc[r] = "replayed"
                        /\ UserOf[r] = OwnerOf[t] /\ KeyOf[r] = KeyOf[ReqOf[t]]
                        /\ r \in SyncReqs <=> ReqOf[t] \in SyncReqs

CancelRead(c) ==
  LET st == status[CancelOf[c]] IN
  /\ cpc[c] = "idle" /\ Known(CancelOf[c])
  /\ GoCancel(c, IF st = "CANCELLED" THEN "sync"
                 ELSE IF st \in Cancellable THEN "transact" ELSE "ended")
  /\ UNCHANGED <<moneyVars, taskVars, events, relayVars, lane, inbox, workVars,
                 wdog, faults>>

(* Defect: a cancel that came too late is announced all the same. *)
CancelAnnounced(c) ==
  LET t == CancelOf[c] IN
  /\ cpc[c] = "transact"
  /\ Emit(t, "CANCELLED")
  /\ \/ /\ Open(t) /\ SetStatus(t, "CANCELLED") /\ Refund(t)
        /\ GoCancel(c, "sync")
     \/ /\ ~Open(t)
        /\ GoCancel(c, IF status[t] = "CANCELLED" THEN "sync" ELSE "ended")
        /\ UNCHANGED <<moneyVars, taskVars>>
  /\ UNCHANGED <<relayVars, lane, inbox, workVars, wdog, faults>>

(* The status it read may be gone: a task no longer open is a 409, unless    *)
(* another request has cancelled it.                                         *)
CancelTransact(c) ==
  LET t == CancelOf[c] IN
  /\ cpc[c] = "transact"
  /\ \/ /\ Open(t) /\ SetStatus(t, "CANCELLED") /\ Refund(t) /\ Emit(t, "CANCELLED")
        /\ GoCancel(c, "sync")
     \/ /\ ~Open(t)
        /\ GoCancel(c, IF status[t] = "CANCELLED" THEN "sync" ELSE "ended")
        /\ UNCHANGED <<moneyVars, taskVars, events>>
  /\ UNCHANGED <<relayVars, lane, inbox, workVars, wdog, faults>>

(* The write of the CANCELLED state to Redis, then the answer. *)
CancelSync(c) ==
  /\ cpc[c] = "sync"
  /\ GoCancel(c, "cancelled")
  /\ UNCHANGED <<moneyVars, taskVars, events, relayVars, lane, inbox, workVars,
                 wdog, faults>>

CancelAbort(c) ==
  /\ cpc[c] \in CancelSteps
  /\ Fault
  /\ GoCancel(c, "ended")
  /\ UNCHANGED <<moneyVars, taskVars, events, relayVars, lane, inbox, workVars,
                 wdog>>

-----------------------------------------------------------------------------
(* CHECK (credits >= 0) aborts a withdrawal the user cannot cover, which     *)
(* changes nothing.                                                          *)
AdjustCredits(u, delta) ==
  LET adjusted(f) == [f EXCEPT ![u] = @ + delta] IN
  /\ credits[u] + delta >= 0
  /\ credits' = adjusted(credits) /\ granted' = adjusted(granted)

(* POST /v1/admin/credits: a signed delta. *)
Adjust(a) ==
  /\ apc[a] = "idle"
  /\ AdjustCredits(AdjustUser[a], AdjustBy[a])
  /\ apc' = [apc EXCEPT ![a] = "ended"]
  /\ UNCHANGED <<taskVars, events, relayVars, lane, inbox, rpc, cpc, workVars,
                 wdog, faults>>

-----------------------------------------------------------------------------
(* The outbox relay: one process *)

(* The events of a task are published in order: the batch ends at the first  *)
(* error.  A published event whose mark fails is published again.  Only a    *)
(* submission concerns a worker; it skips the other events in its lanes.     *)
Publish(t) ==
  /\ linked
  /\ published[t] < Len(events[t])
  /\ lane' = IF events[t][published[t] + 1] = "submitted"
             THEN [lane EXCEPT ![t] = @ + 1] ELSE lane
  /\ \/ published' = [published EXCEPT ![t] = @ + 1] /\ UNCHANGED faults
     \/ Fault /\ UNCHANGED published
  /\ UNCHANGED <<moneyVars, taskVars, events, linked, inbox, reqVars, workVars,
                 wdog>>

(* The broker closes the connection.  The process runs on and retries, but   *)
(* connects only at its start: connect() returns when _connection is set.    *)
Unlink ==
  /\ linked /\ Fault
  /\ linked' = FALSE
  /\ UNCHANGED <<moneyVars, taskVars, events, published, lane, inbox, reqVars,
                 workVars, wdog>>

-----------------------------------------------------------------------------
(* Workers *)

GoWork(w, step) == wpc' = [wpc EXCEPT ![w] = step] /\ UNCHANGED job

Release(w) == wpc' = [wpc EXCEPT ![w] = "idle"] /\ job' = [job EXCEPT ![w] = NoTask]

Take(w, t) == lane[t] > 0 /\ lane' = [lane EXCEPT ![t] = @ - 1]

(* get_one and the read of _set_running_state: a task that has ended is      *)
(* acknowledged at once.                                                     *)
WorkTake(w, t) ==
  /\ wpc[w] = "idle" /\ Take(w, t)
  /\ \/ status[t] \in Terminal /\ UNCHANGED workVars
     \/ /\ status[t] \in Cancellable
        /\ wpc' = [wpc EXCEPT ![w] = IF status[t] = "PENDING" THEN "mark" ELSE "execute"]
        /\ job' = [job EXCEPT ![w] = t]
  /\ UNCHANGED <<moneyVars, taskVars, events, relayVars, inbox, reqVars, wdog, faults>>

(* A task that is PENDING no longer is left to whoever changed it. *)
WorkMark(w) ==
  /\ wpc[w] = "mark"
  /\ \/ status[job[w]] = "PENDING" /\ SetStatus(job[w], "RUNNING") /\ GoWork(w, "execute")
     \/ status[job[w]] # "PENDING" /\ UNCHANGED status /\ Release(w)
  /\ UNCHANGED <<moneyVars, resv, events, relayVars, lane, inbox, reqVars, wdog, faults>>

(* The model has answered: _persist_success, or it has failed:               *)
(* _persist_failure.  The inbox row of the submission is written with the    *)
(* outcome, and also when the task had ended before.                         *)
Persist(w, st, settled) ==
  LET t == job[w] IN
  /\ wpc[w] = "execute"
  /\ inbox' = inbox \cup {t}
  /\ \/ /\ t \notin inbox /\ Open(t)
        /\ SetStatus(t, st) /\ settled /\ Emit(t, st)
        /\ GoWork(w, "cache")
     \/ /\ t \in inbox \/ status[t] \notin Cancellable
        /\ Release(w)
        /\ UNCHANGED <<moneyVars, taskVars, events>>
  /\ UNCHANGED <<relayVars, lane, reqVars, wdog, faults>>

(* Defect: whether the UPDATE matched is not looked at. *)
WorkSucceedUnguarded(w) ==
  /\ wpc[w] = "execute"
  /\ Emit(job[w], "COMPLETED")
  /\ GoWork(w, "cache")
  /\ UNCHANGED <<moneyVars, taskVars, relayVars, lane, inbox, reqVars, wdog, faults>>

WorkSucceed(w) == Persist(w, "COMPLETED", Capture(job[w]))

WorkFail(w) == Persist(w, "FAILED", Refund(job[w]))

(* The write of the final state to Redis, then the acknowledgement. *)
WorkCache(w) ==
  /\ wpc[w] = "cache"
  /\ Release(w)
  /\ UNCHANGED <<moneyVars, taskVars, events, relayVars, lane, inbox, reqVars,
                 wdog, faults>>

(* Defect: deliveries are acknowledged when they are taken. *)
WorkDropAcked(w) ==
  /\ wpc[w] # "idle"
  /\ Fault
  /\ Release(w)
  /\ UNCHANGED <<moneyVars, taskVars, events, relayVars, lane, inbox, reqVars, wdog>>

(* A timeout or an error nacks the delivery, a crash leaves it unanswered:   *)
(* either way it is back in its lane.                                        *)
WorkDrop(w) ==
  /\ wpc[w] # "idle"
  /\ Fault
  /\ lane' = [lane EXCEPT ![job[w]] = @ + 1]
  /\ Release(w)
  /\ UNCHANGED <<moneyVars, taskVars, events, relayVars, inbox, reqVars, wdog>>

Work(w) ==
  \/ \E t \in Tasks : WorkTake(w, t)
  \/ WorkMark(w) \/ WorkSucceed(w) \/ WorkFail(w) \/ WorkCache(w)

-----------------------------------------------------------------------------
(* The watchdog: one process *)

(* expires_at passes. *)
Overdue(t) ==
  /\ resv[t] = "RESERVED"
  /\ resv' = [resv EXCEPT ![t] = "OVERDUE"]
  /\ UNCHANGED <<moneyVars, status, events, relayVars, lane, inbox, reqVars, workVars,
                 wdog, faults>>

(* Defect: only running tasks time out. *)
WatchRunning(t) ==
  /\ wdog = NoTask
  /\ resv[t] = "OVERDUE" /\ status[t] = "RUNNING"
  /\ SetStatus(t, "TIMEOUT") /\ Refund(t) /\ Emit(t, "TIMEOUT")
  /\ wdog' = t
  /\ UNCHANGED <<relayVars, lane, inbox, reqVars, workVars, faults>>

(* Defect: a timeout has no outbox event. *)
WatchQuietly(t) ==
  /\ wdog = NoTask
  /\ resv[t] = "OVERDUE" /\ Open(t)
  /\ SetStatus(t, "TIMEOUT") /\ Refund(t)
  /\ wdog' = t
  /\ UNCHANGED <<events, relayVars, lane, inbox, reqVars, workVars, faults>>

WatchExpire(t) ==
  /\ wdog = NoTask
  /\ resv[t] = "OVERDUE" /\ Open(t)
  /\ SetStatus(t, "TIMEOUT") /\ Refund(t) /\ Emit(t, "TIMEOUT")
  /\ wdog' = t
  /\ UNCHANGED <<relayVars, lane, inbox, reqVars, workVars, faults>>

(* The write of the TIMEOUT state to Redis. *)
WatchCache ==
  /\ wdog # NoTask
  /\ wdog' = NoTask
  /\ UNCHANGED <<moneyVars, taskVars, events, relayVars, lane, inbox, reqVars,
                 workVars, faults>>

(* An error ends the cycle; the next one begins anew. *)
WatchAbort ==
  /\ wdog # NoTask
  /\ Fault
  /\ wdog' = NoTask
  /\ UNCHANGED <<moneyVars, taskVars, events, relayVars, lane, inbox, reqVars,
                 workVars>>

-----------------------------------------------------------------------------
Next ==
  \/ \E r \in Reqs : Admit(r) \/ AdmitError(r) \/ SubmitCache(r) \/ RequestAbort(r)
  \/ \E t \in Tasks : Inline(t) \/ SyncFinishError(t)
  \/ \E c \in Cancels : CancelRead(c) \/ CancelTransact(c) \/ CancelSync(c) \/ CancelAbort(c)
  \/ \E a \in Adjusts : Adjust(a)
  \/ \E t \in Tasks : Publish(t) \/ Overdue(t) \/ WatchExpire(t)
  \/ \E w \in Workers : Work(w) \/ WorkDrop(w)
  \/ Unlink \/ WatchCache \/ WatchAbort

Spec == Init /\ [][Next]_vars

-----------------------------------------------------------------------------
(* Properties *)

(* The reservations carry the holds of CreditHold. *)
HoldOf(x) == IF x \in Reserved THEN "held" ELSE IF x = "CAPTURED" THEN "captured"
             ELSE IF x = "RELEASED" THEN "returned" ELSE "none"
Billing == INSTANCE CreditHold WITH Subs <- Tasks,
                                    hold <- [t \in Tasks |-> HoldOf(resv[t])]
BillingSpec == Billing!Spec

(* A completed task is paid for, any other task that has ended is not, and   *)
(* the credits of one that has not ended are reserved: no race of worker,    *)
(* cancel, watchdog and inline request leaves status and charge at odds.     *)
HoldMatchesStatus ==
  \A t \in Tasks :
    /\ status[t] = "none" <=> resv[t] = "none"
    /\ status[t] \in Cancellable <=> resv[t] \in Reserved
    /\ status[t] = "COMPLETED" <=> resv[t] = "CAPTURED"

(* users.credits is what was granted less what is reserved or captured: each *)
(* debit is refunded at most once, and only when its reservation is released. *)
CreditsConserved == \A u \in Users : credits[u] = Billing!Available(u)

(* The outbox tells the story of each task once: its submission, unless it   *)
(* ran inline, then one event with the status it ended in.                   *)
EventsMatchStatus ==
  \A t \in Tasks :
    LET ended == IF status[t] \in Terminal THEN <<status[t]>> ELSE <<>> IN
    \/ /\ ReqOf[t] \notin SyncReqs /\ status[t] # "none"
       /\ events[t] = <<"submitted">> \o ended
    \/ /\ ReqOf[t] \in SyncReqs \/ status[t] = "none"
       /\ events[t] \in {<<>>, ended}

(* At-least-once delivery: a queued task that was published and has not      *)
(* ended is in a lane or with a worker, whatever workers time out or crash.  *)
NotStranded ==
  \A t \in Tasks :
    /\ ReqOf[t] \notin SyncReqs /\ status[t] \in Cancellable /\ published[t] > 0
    => lane[t] > 0 \/ \E w \in Workers : job[w] = t

(* max_concurrent bounds the unexpired reservations of a user, for batches   *)
(* and inline requests too.                                                  *)
ActiveBounded == \A u \in Users : Cardinality(Active(u)) <= MaxConcurrent

(* Retries under one key create one task, so at most one is charged.         *)
OneTaskPerKey ==
  \A s, t \in Tasks :
    /\ s # t /\ status[s] # "none" /\ status[t] # "none"
    /\ OwnerOf[s] = OwnerOf[t] /\ KeyOf[ReqOf[s]] # NoKey
    => KeyOf[ReqOf[s]] # KeyOf[ReqOf[t]]

=============================================================================

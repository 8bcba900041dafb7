----------------------------- MODULE LedgerTask -----------------------------
(***************************************************************************)
(* Solution 3, the command side: the API's submit, cancel and top-up       *)
(* handlers, the outbox relay, the dispatcher, the workers and the         *)
(* reconciler, over Postgres (cmd.task_commands, cmd.outbox_events),       *)
(* TigerBeetle (a pending transfer per task), Redis (active counters and   *)
(* the task hash), the Redpanda log and RabbitMQ.                          *)
(*                                                                         *)
(* A Postgres transaction, a TigerBeetle or Redis call is one step, and    *)
(* anything can happen between two steps.  Fault is a call that fails or a *)
(* process that crashes; an answer that is lost is the step with a crash   *)
(* behind it, except where the code goes on.                               *)
(*                                                                         *)
(* TigerBeetle settles a pending transfer once, by posting it, voiding it  *)
(* or letting it time out, and keeps every transfer: to a query, one that  *)
(* has timed out looks like one that is pending.  The hot and cold lanes   *)
(* of RabbitMQ are one queue here, of which no message need ever be taken. *)
(*                                                                         *)
(* Every behaviour has its scene: which of the requests clients make, how  *)
(* many failures it meets and, for LedgerRead, what else is running.  One  *)
(* run so covers several small instances.                                  *)
(*                                                                         *)
(* astray collects the tasks to whom a failure has happened that the code  *)
(* does not account for: a commit whose answer is lost and whose credits   *)
(* are then voided, a step that was to change the active counter and is    *)
(* skipped by a crash, an event a consumer has skipped; and those whose    *)
(* slot the reconciler gives back when the counter is at zero.             *)
(***************************************************************************)
EXTENDS Integers, FiniteSets

CONSTANTS
  Users,          \* rows of cmd.users
  Tasks,          \* submit requests, each with the task id it generates
  UserOf,         \* UserOf[t]: the authenticated user
  NoKey,
  KeyOf,          \* KeyOf[t]: the Idempotency-Key of the request, or NoKey
  Cost,           \* task_cost
  MaxConcurrent,  \* max_concurrent of a user
  InitialCredits, \* cmd.users.initial_credits, granted when the API starts
  Topups,         \* transfer ids of admin top-ups
  TopupUser, TopupAmount,
  Cancels,        \* cancel requests
  CancelOf,       \* CancelOf[c]: the task c wants cancelled
  Workers,
  NoTask,
  Scenes          \* [cast, failures, readers, rebuilds]: see scene

ASSUME ConstantsOK ==
  /\ IsFiniteSet(Tasks) /\ NoTask \notin Tasks
  /\ IsFiniteSet(Cancels) /\ IsFiniteSet(Workers) /\ IsFiniteSet(Topups)
  /\ UserOf \in [Tasks -> Users]
  /\ Cost \in Nat \ {0}
  /\ MaxConcurrent \in Nat
  /\ InitialCredits \in [Users -> Nat]
  /\ TopupUser \in [Topups -> Users] /\ TopupAmount \in Nat
  /\ CancelOf \in [Cancels -> Tasks]
  /\ \A s \in Scenes : /\ s.cast \subseteq Tasks \cup Cancels \cup Topups \cup Workers
                       /\ s.failures \in Nat /\ s.rebuilds \in Nat

VARIABLES
  scene,    \* the requests made, the workers running and the bounds
  granted,  \* the top-ups TigerBeetle has posted
  transfer, \* the pending transfer of each request, "none" before it is made
  active,   \* active:{user} in Redis
  status,   \* cmd.task_commands.status, "none" when there is no row
  outbox,   \* the unpublished rows of cmd.outbox_events: <<task, topic>>
  log,      \* how often Redpanda has each event
  queue,    \* messages about each task in RabbitMQ
  cache,    \* the status in task:{id}, "none" when there is no hash
  view,     \* query.task_query_view.status, "none" when there is no row
  rpc,      \* submit: program counter
  seen,     \* submit: the task and the status its transaction returned
  cpc,      \* cancel: program counter
  sent,     \* dispatcher: how much of the log it has committed
  wpc, job, \* worker: program counter; the task of its delivery
  xpc,      \* reconciler: program counter
  xjob,     \* reconciler: the task at hand and the status it is to end in
  astray, faults

billVars == <<granted, transfer>>
rowVars == <<status, outbox>>
busVars == <<log, queue, sent>>
readVars == <<cache, view>>
requestVars == <<rpc, seen, cpc>>
workVars == <<wpc, job>>
reconVars == <<xpc, xjob>>
faultVars == <<astray, faults>>
vars == <<scene, billVars, active, rowVars, busVars, readVars, requestVars, workVars,
          reconVars, faultVars>>

-----------------------------------------------------------------------------
(* States *)

Terminal == {"COMPLETED", "FAILED", "CANCELLED"}
Cancellable == {"PENDING", "RUNNING"}
Statuses == {"none"} \cup Cancellable \cup Terminal

(* tasks.completed, tasks.failed and tasks.cancelled are one topic here. *)
Topics == {"requested", "started", "ended"}
Events == Tasks \X Topics

RequestEnds == {"accepted", "replayed", "refused"}
RequestSteps == {"reserve", "recheck", "commit", "giveUp", "replay", "count", "cache",
                 "recache"}
CancelSteps == {"transact", "void", "release", "cache"}
WorkSteps == {"start", "mark", "execute", "post", "void", "complete", "fail", "release",
              "cache"}

NoneSeen == <<NoTask, "none">>

TypeOK ==
  /\ scene \in Scenes
  /\ granted \subseteq Topups
  /\ transfer \in [Tasks -> {"none", "pending", "posted", "voided", "expired"}]
  /\ active \in [Users -> Int]
  /\ status \in [Tasks -> Statuses]
  /\ outbox \subseteq Events
  /\ log \in [Events -> Nat]
  /\ queue \in [Tasks -> Nat]
  /\ sent \in [Tasks -> Nat]
  /\ cache \in [Tasks -> Statuses] /\ view \in [Tasks -> Statuses]
  /\ rpc \in [Tasks -> {"idle"} \cup RequestSteps \cup RequestEnds]
  /\ seen \in [Tasks -> (Tasks \cup {NoTask}) \X Statuses]
  /\ cpc \in [Cancels -> {"idle", "ended"} \cup CancelSteps]
  /\ wpc \in [Workers -> {"idle"} \cup WorkSteps]
  /\ job \in [Workers -> Tasks \cup {NoTask}]
  /\ xpc \in {"idle", "align", "release", "cache"}
  /\ xjob \in (Tasks \cup {NoTask}) \X Statuses
  /\ astray \subseteq Tasks
  /\ faults \in Nat

(* The start of the API has granted every user the initial credits: with a   *)
(* transfer whose id is the user's, so that another start does not repeat it. *)
Init ==
  /\ scene \in Scenes
  /\ granted = {}
  /\ transfer = [t \in Tasks |-> "none"]
  /\ active = [u \in Users |-> 0]
  /\ status = [t \in Tasks |-> "none"]
  /\ outbox = {} /\ log = [e \in Events |-> 0]
  /\ queue = [t \in Tasks |-> 0] /\ sent = [t \in Tasks |-> 0]
  /\ cache = [t \in Tasks |-> "none"] /\ view = [t \in Tasks |-> "none"]
  /\ rpc = [t \in Tasks |-> "idle"] /\ seen = [t \in Tasks |-> NoneSeen]
  /\ cpc = [c \in Cancels |-> "idle"]
  /\ wpc = [w \in Workers |-> "idle"] /\ job = [w \in Workers |-> NoTask]
  /\ xpc = "idle" /\ xjob = NoneSeen
  /\ astray = {} /\ faults = 0

Fault == faults < scene.failures /\ faults' = faults + 1 /\ UNCHANGED astray

Misled(t) == faults < scene.failures /\ faults' = faults + 1 /\ astray' = astray \cup {t}

(* A failure that skips the change of the active counter t's user is due. *)
FaultAt(t, skips) == IF skips THEN Misled(t) ELSE Fault

-----------------------------------------------------------------------------
(* TigerBeetle (billing.py) *)

Held(u) == {t \in Tasks : UserOf[t] = u /\ transfer[t] \in {"pending", "posted"}}

ToppedUp(u) == {i \in granted : TopupUser[i] = u}

Balance(u) ==
  InitialCredits[u] + TopupAmount * Cardinality(ToppedUp(u)) - Cost * Cardinality(Held(u))

(* post_pending_transfer and void_pending_transfer: TigerBeetle refuses one  *)
(* that is settled or has timed out.                                         *)
Settle(t, outcome) ==
  /\ transfer[t] = "pending"
  /\ transfer' = [transfer EXCEPT ![t] = outcome]
  /\ UNCHANGED granted

Unsettled(t) == transfer[t] # "pending" /\ UNCHANGED billVars

(* pending_transfer_timeout_seconds have passed. *)
TimeOut(t) ==
  /\ Settle(t, "expired")
  /\ UNCHANGED <<active, rowVars, busVars, readVars, requestVars, workVars, reconVars,
                 faultVars>>

(* POST /v1/admin/credits: the id is derived from the Idempotency-Key, and   *)
(* TigerBeetle refuses to make a transfer twice.                             *)
Topup(i) ==
  /\ i \in scene.cast \ granted
  /\ granted' = granted \cup {i}
  /\ UNCHANGED <<transfer, active, rowVars, busVars, readVars, requestVars, workVars,
                 reconVars, faultVars>>

-----------------------------------------------------------------------------
(* Rows, counters and hashes *)

AddActive(u, n) == active' = [active EXCEPT ![u] = @ + n]

CacheStatus(t, st) == cache' = [cache EXCEPT ![t] = st] /\ UNCHANGED view

(* The guarded UPDATE with its outbox event. *)
Advance(t, from, st, topic) ==
  /\ status[t] \in from
  /\ status' = [status EXCEPT ![t] = st]
  /\ outbox' = outbox \cup {<<t, topic>>}

(* Defect: the guard of the UPDATE is forgotten. *)
FinishAgain(t, st) == Advance(t, Cancellable \cup Terminal, st, "ended")

Finish(t, st) == Advance(t, Cancellable, st, "ended")

SameKey(s, t) == s = t \/ (KeyOf[s] # NoKey /\ KeyOf[s] = KeyOf[t] /\ UserOf[s] = UserOf[t])

-----------------------------------------------------------------------------
(* POST /v1/task *)

GoRequest(t, step) == rpc' = [rpc EXCEPT ![t] = step] /\ UNCHANGED cpc

(* The counter is read, and read again after the reservation; it counts the  *)
(* task only after the commit.                                               *)
Gate(t) ==
  /\ rpc[t] = "idle" /\ t \in scene.cast
  /\ GoRequest(t, IF active[UserOf[t]] < MaxConcurrent THEN "reserve" ELSE "refused")
  /\ UNCHANGED <<billVars, active, rowVars, busVars, readVars, seen, workVars, reconVars,
                 faultVars>>

Reserve(t) ==
  /\ rpc[t] = "reserve"
  /\ \/ /\ Balance(UserOf[t]) >= Cost
        /\ transfer' = [transfer EXCEPT ![t] = "pending"] /\ UNCHANGED granted
        /\ GoRequest(t, "recheck")
     \/ /\ Balance(UserOf[t]) < Cost
        /\ UNCHANGED billVars
        /\ GoRequest(t, "refused")
  /\ UNCHANGED <<active, rowVars, busVars, readVars, seen, workVars, reconVars, faultVars>>

Recheck(t) ==
  /\ rpc[t] = "recheck"
  /\ GoRequest(t, IF active[UserOf[t]] < MaxConcurrent THEN "commit" ELSE "giveUp")
  /\ UNCHANGED <<billVars, active, rowVars, busVars, readVars, seen, workVars, reconVars,
                 faultVars>>

KeyTaken(t) == \E s \in Tasks : SameKey(s, t) /\ status[s] # "none"

Insert(t) ==
  /\ ~KeyTaken(t)
  /\ Advance(t, {"none"}, "PENDING", "requested")

(* submit_task_command.  When the other request's INSERT comes between this  *)
(* one's SELECT and INSERT, the unique index makes it fail.                  *)
Commit(t) ==
  /\ rpc[t] = "commit"
  /\ \/ /\ Insert(t)
        /\ seen' = [seen EXCEPT ![t] = <<t, "PENDING">>]
        /\ GoRequest(t, "count")
     \/ /\ KeyTaken(t)
        /\ \E s \in Tasks : /\ SameKey(s, t) /\ status[s] # "none"
                            /\ seen' = [seen EXCEPT ![t] = <<s, status[s]>>]
        /\ GoRequest(t, "replay")
        /\ UNCHANGED rowVars
     \/ KeyTaken(t) /\ GoRequest(t, "giveUp") /\ UNCHANGED <<rowVars, seen>>
  /\ UNCHANGED <<billVars, active, busVars, readVars, workVars, reconVars, faultVars>>

(* The transaction raises, perhaps after its commit. *)
CommitError(t) ==
  /\ rpc[t] = "commit"
  /\ GoRequest(t, "giveUp")
  /\ \/ Fault /\ UNCHANGED rowVars
     \/ Misled(t) /\ Insert(t)
  /\ UNCHANGED <<billVars, active, busVars, readVars, seen, workVars, reconVars>>

(* The transfer is voided; whether that worked matters to a replay only. *)
VoidOwn(t) ==
  /\ rpc[t] \in {"giveUp", "replay"}
  /\ \/ Settle(t, "voided") /\ GoRequest(t, IF rpc[t] = "giveUp" THEN "refused" ELSE "recache")
     \/ Unsettled(t) /\ GoRequest(t, "refused")
  /\ UNCHANGED <<active, rowVars, busVars, readVars, seen, workVars, reconVars, faultVars>>

Count(t) ==
  /\ rpc[t] = "count"
  /\ AddActive(UserOf[t], 1)
  /\ GoRequest(t, "cache")
  /\ UNCHANGED <<billVars, rowVars, busVars, readVars, seen, workVars, reconVars, faultVars>>

(* _cache_task_state: the status its transaction returned, old by now or not. *)
CacheSeen(t) ==
  /\ rpc[t] \in {"cache", "recache"}
  /\ CacheStatus(seen[t][1], seen[t][2])
  /\ GoRequest(t, IF rpc[t] = "cache" THEN "accepted" ELSE "replayed")
  /\ seen' = [seen EXCEPT ![t] = NoneSeen]
  /\ UNCHANGED <<billVars, active, rowVars, busVars, workVars, reconVars, faultVars>>

RequestAbort(t) ==
  /\ rpc[t] \in RequestSteps
  /\ FaultAt(t, rpc[t] = "count")
  /\ GoRequest(t, "refused")
  /\ seen' = [seen EXCEPT ![t] = NoneSeen]
  /\ UNCHANGED <<billVars, active, rowVars, busVars, readVars, workVars, reconVars>>

-----------------------------------------------------------------------------
(* POST /v1/task/{id}/cancel *)

GoCancel(c, step) == cpc' = [cpc EXCEPT ![c] = step] /\ UNCHANGED <<rpc, seen>>

(* A client knows a task id from an answer to a submission. *)
Known(t) == \E s \in Tasks : SameKey(s, t) /\ rpc[s] \in {"accepted", "replayed"}

CancelRead(c) ==
  /\ cpc[c] = "idle" /\ c \in scene.cast /\ Known(CancelOf[c])
  /\ GoCancel(c, IF status[CancelOf[c]] \in Cancellable THEN "transact" ELSE "ended")
  /\ UNCHANGED <<billVars, active, rowVars, busVars, readVars, workVars, reconVars,
                 faultVars>>

(* Defect: that the row was not updated is not looked at. *)
CancelTransactBlind(c) ==
  LET t == CancelOf[c] IN
  /\ cpc[c] = "transact"
  /\ \/ Finish(t, "CANCELLED") /\ GoCancel(c, "void")
     \/ status[t] \notin Cancellable /\ UNCHANGED rowVars /\ GoCancel(c, "void")
  /\ UNCHANGED <<billVars, active, busVars, readVars, workVars, reconVars, faultVars>>

CancelTransact(c) ==
  LET t == CancelOf[c] IN
  /\ cpc[c] = "transact"
  /\ \/ Finish(t, "CANCELLED") /\ GoCancel(c, "void")
     \/ status[t] \notin Cancellable /\ UNCHANGED rowVars /\ GoCancel(c, "ended")
  /\ UNCHANGED <<billVars, active, busVars, readVars, workVars, reconVars, faultVars>>

(* A transfer that cannot be voided, because a worker has posted it or it    *)
(* has timed out, is only logged.                                            *)
CancelVoid(c) ==
  /\ cpc[c] = "void"
  /\ Settle(CancelOf[c], "voided") \/ Unsettled(CancelOf[c])
  /\ GoCancel(c, "release")
  /\ UNCHANGED <<active, rowVars, busVars, readVars, workVars, reconVars, faultVars>>

(* An error of the call is only logged, too. *)
CancelVoidError(c) ==
  /\ cpc[c] = "void"
  /\ Fault
  /\ GoCancel(c, "release")
  /\ UNCHANGED <<billVars, active, rowVars, busVars, readVars, workVars, reconVars>>

CancelRelease(c) ==
  /\ cpc[c] = "release"
  /\ AddActive(UserOf[CancelOf[c]], -1)
  /\ GoCancel(c, "cache")
  /\ UNCHANGED <<billVars, rowVars, busVars, readVars, workVars, reconVars, faultVars>>

CancelCache(c) ==
  /\ cpc[c] = "cache"
  /\ CacheStatus(CancelOf[c], "CANCELLED")
  /\ GoCancel(c, "ended")
  /\ UNCHANGED <<billVars, active, rowVars, busVars, workVars, reconVars, faultVars>>

CancelAbort(c) ==
  /\ cpc[c] \in CancelSteps
  /\ FaultAt(CancelOf[c], cpc[c] \in {"void", "release"})
  /\ GoCancel(c, "ended")
  /\ UNCHANGED <<billVars, active, rowVars, busVars, readVars, workVars, reconVars>>

-----------------------------------------------------------------------------
(* Outbox relay and dispatcher *)

(* relay_once: the unpublished events are produced and flushed, then marked. *)
Relay ==
  /\ outbox # {}
  /\ log' = [e \in Events |-> IF e \in outbox THEN log[e] + 1 ELSE log[e]]
  /\ \/ outbox' = {} /\ UNCHANGED faultVars
     \/ Fault /\ UNCHANGED outbox
  /\ UNCHANGED <<billVars, active, status, queue, sent, readVars, requestVars, workVars,
                 reconVars>>

(* dispatch_polled_messages: to RabbitMQ, then the commit.  The publication  *)
(* is not confirmed, and after an error the batch is read again.             *)
Dispatch(t) ==
  /\ sent[t] < log[<<t, "requested">>]
  /\ \/ /\ queue' = [queue EXCEPT ![t] = @ + 1]
        /\ sent' = [sent EXCEPT ![t] = @ + 1] /\ UNCHANGED faultVars
     \/ Fault /\ queue' = [queue EXCEPT ![t] = @ + 1] /\ UNCHANGED sent
     \/ Fault /\ sent' = [sent EXCEPT ![t] = @ + 1] /\ UNCHANGED queue
  /\ UNCHANGED <<billVars, active, rowVars, log, readVars, requestVars, workVars, reconVars>>

-----------------------------------------------------------------------------
(* Workers *)

GoWork(w, step) == wpc' = [wpc EXCEPT ![w] = step] /\ UNCHANGED <<job, busVars>>

Leave(w) == wpc' = [wpc EXCEPT ![w] = "idle"] /\ job' = [job EXCEPT ![w] = NoTask]

Ack(w) == Leave(w) /\ UNCHANGED busVars

(* A nack, or a lost connection: the message is delivered again. *)
Requeue(w) ==
  /\ Leave(w)
  /\ queue' = [queue EXCEPT ![job[w]] = @ + 1]
  /\ UNCHANGED <<log, sent>>

WorkTake(w, t) ==
  /\ w \in scene.cast /\ wpc[w] = "idle" /\ queue[t] > 0
  /\ wpc' = [wpc EXCEPT ![w] = "start"] /\ job' = [job EXCEPT ![w] = t]
  /\ queue' = [queue EXCEPT ![t] = @ - 1]
  /\ UNCHANGED <<billVars, active, rowVars, log, sent, readVars, requestVars, reconVars,
                 faultVars>>

(* A message of a task that is not PENDING any more is acknowledged. *)
WorkStart(w) ==
  LET t == job[w] IN
  /\ wpc[w] = "start"
  /\ \/ Advance(t, {"PENDING"}, "RUNNING", "started") /\ GoWork(w, "mark")
     \/ status[t] # "PENDING" /\ UNCHANGED rowVars /\ Ack(w)
  /\ UNCHANGED <<billVars, active, readVars, requestVars, reconVars, faultVars>>

WorkMark(w) ==
  /\ wpc[w] = "mark"
  /\ CacheStatus(job[w], "RUNNING")
  /\ GoWork(w, "execute")
  /\ UNCHANGED <<billVars, active, rowVars, requestVars, reconVars, faultVars>>

(* The model answers or raises. *)
WorkExecute(w) ==
  /\ wpc[w] = "execute"
  /\ GoWork(w, "post") \/ GoWork(w, "void")
  /\ UNCHANGED <<billVars, active, rowVars, readVars, requestVars, reconVars, faultVars>>

(* Defect: whether the transfer could be settled is not looked at. *)
WorkSettleBlindly(w) ==
  LET t == job[w] IN
  /\ wpc[w] \in {"post", "void"}
  /\ \/ wpc[w] = "post" /\ (Settle(t, "posted") \/ Unsettled(t)) /\ GoWork(w, "complete")
     \/ wpc[w] = "void" /\ (Settle(t, "voided") \/ Unsettled(t)) /\ GoWork(w, "fail")
  /\ UNCHANGED <<active, rowVars, readVars, requestVars, reconVars, faultVars>>

(* handle_task_completion: first the transfer ... *)
WorkSettle(w) ==
  LET t == job[w] IN
  /\ wpc[w] \in {"post", "void"}
  /\ \/ wpc[w] = "post" /\ Settle(t, "posted") /\ GoWork(w, "complete")
     \/ wpc[w] = "void" /\ Settle(t, "voided") /\ GoWork(w, "fail")
     \/ Unsettled(t) /\ Requeue(w)
  /\ UNCHANGED <<active, rowVars, readVars, requestVars, reconVars, faultVars>>

(* ... then the row, unless a cancel has ended it ... *)
WorkFinalize(w) ==
  LET t == job[w] IN
  /\ wpc[w] \in {"complete", "fail"}
  /\ \/ /\ Finish(t, IF wpc[w] = "complete" THEN "COMPLETED" ELSE "FAILED")
        /\ GoWork(w, "release")
     \/ status[t] \notin Cancellable /\ UNCHANGED rowVars /\ Requeue(w)
  /\ UNCHANGED <<billVars, active, readVars, requestVars, reconVars, faultVars>>

(* ... then the counter and the hash. *)
WorkRelease(w) ==
  /\ wpc[w] = "release"
  /\ AddActive(UserOf[job[w]], -1)
  /\ GoWork(w, "cache")
  /\ UNCHANGED <<billVars, rowVars, readVars, requestVars, reconVars, faultVars>>

WorkCache(w) ==
  /\ wpc[w] = "cache"
  /\ CacheStatus(job[w], status[job[w]])
  /\ Ack(w)
  /\ UNCHANGED <<billVars, active, rowVars, requestVars, reconVars, faultVars>>

WorkAbort(w) ==
  /\ wpc[w] # "idle"
  /\ FaultAt(job[w], wpc[w] = "release")
  /\ Requeue(w)
  /\ UNCHANGED <<billVars, active, rowVars, readVars, requestVars, reconVars>>

-----------------------------------------------------------------------------
(* The reconciler: one process *)

Resting == xpc' = "idle" /\ xjob' = NoneSeen

(* _terminal_alignment_target *)
Target(t) ==
  IF transfer[t] = "posted" THEN "COMPLETED"
  ELSE IF status[t] = "PENDING" THEN "CANCELLED" ELSE "FAILED"

(* Defect: a transfer that was voided is not looked into. *)
ReconcilePosted(t) ==
  /\ xpc = "idle"
  /\ status[t] \in Cancellable /\ rpc[t] \in RequestEnds
  /\ transfer[t] = "posted"
  /\ xpc' = "align" /\ xjob' = <<t, Target(t)>>
  /\ UNCHANGED <<billVars, active, rowVars, busVars, readVars, requestVars, workVars,
                 faultVars>>

(* A row that is RESERVED for longer than a request and its transfer last,   *)
(* and TigerBeetle's answer: one that has timed out is taken for pending and *)
(* left alone.                                                               *)
Reconcile(t) ==
  /\ xpc = "idle"
  /\ status[t] \in Cancellable /\ rpc[t] \in RequestEnds
  /\ transfer[t] \in {"posted", "voided"}
  /\ xpc' = "align" /\ xjob' = <<t, Target(t)>>
  /\ UNCHANGED <<billVars, active, rowVars, busVars, readVars, requestVars, workVars,
                 faultVars>>

(* align_stale_reserved_task_terminal_state *)
Align ==
  LET t == xjob[1] IN
  /\ xpc = "align"
  /\ \/ /\ Finish(t, xjob[2])
        /\ view' = IF view[t] = "none" THEN view ELSE [view EXCEPT ![t] = xjob[2]]
        /\ xpc' = "release" /\ UNCHANGED xjob
     \/ status[t] \notin Cancellable /\ Resting /\ UNCHANGED <<rowVars, view>>
  /\ UNCHANGED <<billVars, active, busVars, cache, requestVars, workVars, faultVars>>

(* _decrement_active_counter: unlike the others it does not go below zero,   *)
(* where the counter is while a task that has ended is still to be counted.  *)
AlignRelease ==
  LET u == UserOf[xjob[1]] IN
  /\ xpc = "release"
  /\ \/ active[u] > 0 /\ AddActive(u, -1) /\ UNCHANGED astray
     \/ active[u] <= 0 /\ active' = [active EXCEPT ![u] = 0] /\ astray' = astray \cup {xjob[1]}
  /\ xpc' = "cache" /\ UNCHANGED xjob
  /\ UNCHANGED <<billVars, rowVars, busVars, readVars, requestVars, workVars, faults>>

AlignCache ==
  /\ xpc = "cache"
  /\ CacheStatus(xjob[1], xjob[2])
  /\ Resting
  /\ UNCHANGED <<billVars, active, rowVars, busVars, requestVars, workVars, faultVars>>

(* An error ends the process, which is started again. *)
AlignAbort ==
  /\ xpc # "idle"
  /\ FaultAt(xjob[1], xpc = "release")
  /\ Resting
  /\ UNCHANGED <<billVars, active, rowVars, busVars, readVars, requestVars, workVars>>

-----------------------------------------------------------------------------
Request(t) ==
  Gate(t) \/ Reserve(t) \/ Recheck(t) \/ Commit(t) \/ VoidOwn(t) \/ Count(t) \/ CacheSeen(t)

Cancel(c) ==
  CancelTransact(c) \/ CancelVoid(c) \/ CancelRelease(c) \/ CancelCache(c)

Work(w) ==
  WorkStart(w) \/ WorkMark(w) \/ WorkExecute(w) \/ WorkSettle(w) \/ WorkFinalize(w)
  \/ WorkRelease(w) \/ WorkCache(w)

Step ==
  \/ \E t \in Tasks :
       \/ Request(t) \/ CommitError(t) \/ RequestAbort(t)
       \/ TimeOut(t) \/ Dispatch(t) \/ Reconcile(t)
  \/ \E i \in Topups : Topup(i)
  \/ \E c \in Cancels :
       CancelRead(c) \/ Cancel(c) \/ CancelVoidError(c) \/ CancelAbort(c)
  \/ Relay
  \/ \E w \in Workers :
       \/ \E t \in Tasks : WorkTake(w, t)
       \/ Work(w) \/ WorkAbort(w)
  \/ Align \/ AlignRelease \/ AlignCache \/ AlignAbort

Next == Step /\ UNCHANGED scene

Spec == Init /\ [][Next]_vars

-----------------------------------------------------------------------------
(* Properties *)

(* A task that is reported COMPLETED has been paid for, one that FAILED has  *)
(* not, and nothing is paid for before its worker is done or for a request   *)
(* that ended without a task, whatever of worker, cancel, reconciler and the *)
(* transfer's timeout comes first.                                           *)
OutcomesArePaid ==
  \A t \in Tasks :
    /\ status[t] = "COMPLETED" => transfer[t] = "posted"
    /\ status[t] = "FAILED" => transfer[t] = "voided"
    /\ status[t] \in {"none", "PENDING"} => transfer[t] # "posted"

Open(u) == {t \in Tasks : UserOf[t] = u /\ status[t] \in Cancellable}

(* The tasks of u still to be counted, and those still to be released. *)
Counting(u) == {t \in Tasks : UserOf[t] = u /\ rpc[t] = "count"}

Releasing(u) ==
  {t \in Tasks :
     /\ UserOf[t] = u
     /\ \/ \E c \in Cancels : CancelOf[c] = t /\ cpc[c] \in {"void", "release"}
        \/ \E w \in Workers : job[w] = t /\ wpc[w] = "release"
        \/ xjob[1] = t /\ xpc = "release"}

(* Nobody counts a task twice or gives its slot back twice: worker, cancel   *)
(* and reconciler, whoever ends it, release it once.                         *)
SlotsAccounted ==
  \A u \in Users :
    \/ \E t \in astray : UserOf[t] = u
    \/ active[u] + Cardinality(Counting(u)) = Cardinality(Open(u)) + Cardinality(Releasing(u))

=============================================================================

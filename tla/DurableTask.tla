----------------------------- MODULE DurableTask -----------------------------
(***************************************************************************)
(* Solution 4: the API process (submit, cancel, poll, admin top-up,        *)
(* start-up), the durable workflow that Restate drives, TigerBeetle's      *)
(* pending transfers, the tasks and users tables of Postgres and the Redis *)
(* task cache.                                                             *)
(*                                                                         *)
(* Every await of a handler is a step of its own, so requests and the      *)
(* workflow interleave at each of them.  A submission attempt s stands for *)
(* the ids generated for it: its task id and its transfer id.              *)
(*                                                                         *)
(* Restate runs a step at least once: a step takes effect and is journaled,*)
(* or takes effect and is run again because its journal entry was lost     *)
(* (a crash, or a store error after the commit).  Requests are not durable:*)
(* one can end at any await by a store error it does not catch or by a     *)
(* crash of the process.  MaxLost, MaxAborts and MaxRestarts bound these.  *)
(***************************************************************************)
EXTENDS Integers, FiniteSets

CONSTANTS
  Users,        \* rows of the users table
  Subs,         \* submission attempts
  OwnerOf,      \* OwnerOf[s]: the authenticated user of attempt s
  KeyOf,        \* KeyOf[s]: its idempotency key, or NoKey
  NoKey,
  Cost,         \* default_task_cost
  SeedCredits,  \* SeedCredits[u]: users.credits of the seed migration
  Cancels,      \* cancel requests
  Polls,        \* poll requests, each by the owner of the task it asks for
  Topups,       \* admin top-up requests
  TopupKey,     \* TopupKey[a]: the transfer id derived for a
  TopupUser,    \* TopupUser[a]: the user a tops up
  TopupAmount,
  MaxLost, MaxAborts, MaxRestarts

ASSUME ConstantsOK ==
  /\ IsFiniteSet(Subs)
  /\ OwnerOf \in [Subs -> Users]
  /\ Cost \in Nat \ {0}
  /\ SeedCredits \in [Users -> Nat]
  /\ TopupUser \in [Topups -> Users]
  /\ TopupAmount \in Nat \ {0}

VARIABLES
  granted,   \* TigerBeetle: credits_posted of each user account
  xfer,      \* TigerBeetle: the pending transfer of each attempt
  topped,    \* TigerBeetle: <<transfer id, user>> of the top-ups made
  mirror,    \* Postgres: users.credits
  status,    \* Postgres: tasks.status, "none" when there is no row
  cache,     \* Redis: the hash task:{id}
  spc,              \* submit: program counter
  cpc, ctgt,        \* cancel: program counter; its task
  ppc, ptgt, pview, \* poll: program counter; its task; the row it read, then its answer
  tpc, tbal,        \* top-up: program counter; the balance it read
  wpc, site,        \* workflow: program counter; the caller of the cancel check
  lost, aborts, restarts

tbVars == <<granted, xfer, topped>>
canVars == <<cpc, ctgt>>
pollVars == <<ppc, ptgt, pview>>
topVars == <<tpc, tbal>>
wfVars == <<wpc, site, lost>>
faultVars == <<aborts, restarts>>
apiVars == <<spc, canVars, pollVars, topVars>>
vars == <<granted, xfer, topped, mirror, status, cache, spc, cpc, ctgt,
          ppc, ptgt, pview, tpc, tbal, wpc, site, lost, aborts, restarts>>

-----------------------------------------------------------------------------
(* States *)

Terminal == {"COMPLETED", "FAILED", "CANCELLED"}
Statuses == {"none", "PENDING", "RUNNING", "CANCEL_REQUESTED"} \cup Terminal
XferStates == {"none", "pending", "posted", "voided", "expired"}
CacheEntries == [st : Statuses, owner : BOOLEAN]
NoEntry == [st |-> "none", owner |-> FALSE]

SubmitSteps == {"idle", "create", "undo", "replay", "cacheRow", "send", "handoff",
                "handoffRelease", "handoffRollback", "handoffEvict"}
SubmitEnds == {"accepted", "refused", "replayed", "failed", "aborted"}
CancelSteps == {"idle", "pending", "reread", "running", "release", "rollback",
                "evict", "cancelled", "ended", "aborted"}
PollSteps == {"idle", "miss", "fill", "answered", "denied", "ended"}
TopupSteps == {"idle", "balance", "mirror", "ended"}
WorkSteps == {"absent", "start", "compute", "readStatus", "release", "markCancelled",
              "evict", "markFailed", "failRelease", "failEvict", "capture",
              "markUncaptured", "uncapturedRelease", "complete", "lateRead",
              "lateComplete", "cacheResult", "ended"}
CheckSites == {"none", "failed", "computed", "uncaptured"}

TypeOK ==
  /\ granted \in [Users -> Nat]
  /\ xfer \in [Subs -> XferStates]
  /\ topped \subseteq {TopupKey[a] : a \in Topups} \X Users
  /\ mirror \in [Users -> Int]
  /\ status \in [Subs -> Statuses]
  /\ cache \in [Subs -> CacheEntries]
  /\ spc \in [Subs -> SubmitSteps \cup SubmitEnds]
  /\ cpc \in [Cancels -> CancelSteps]
  /\ ctgt \in [Cancels -> Subs]
  /\ ppc \in [Polls -> PollSteps]
  /\ ptgt \in [Polls -> Subs]
  /\ pview \in [Polls -> Statuses]
  /\ tpc \in [Topups -> TopupSteps]
  /\ tbal \in [Topups -> Int]
  /\ wpc \in [Subs -> WorkSteps]
  /\ site \in [Subs -> CheckSites]
  /\ lost \in Nat /\ aborts \in Nat /\ restarts \in Nat

(* The first start has seeded the accounts from the users table. *)
Init ==
  /\ granted = SeedCredits /\ mirror = SeedCredits
  /\ xfer = [s \in Subs |-> "none"] /\ topped = {}
  /\ status = [s \in Subs |-> "none"]
  /\ cache = [s \in Subs |-> NoEntry]
  /\ spc = [s \in Subs |-> "idle"]
  /\ cpc = [c \in Cancels |-> "idle"] /\ ctgt \in [Cancels -> Subs]
  /\ ppc = [p \in Polls |-> "idle"] /\ ptgt \in [Polls -> Subs]
  /\ pview = [p \in Polls |-> "none"]
  /\ tpc = [a \in Topups |-> "idle"] /\ tbal = [a \in Topups |-> 0]
  /\ wpc = [s \in Subs |-> "absent"] /\ site = [s \in Subs |-> "none"]
  /\ lost = 0 /\ aborts = 0 /\ restarts = 0

-----------------------------------------------------------------------------
(* TigerBeetle (billing.py) *)

(* The attempts whose amount is not available: debits_posted + debits_pending. *)
Debited(u, x) == {s \in Subs : OwnerOf[s] = u /\ x[s] \in {"pending", "posted"}}

Balance(u) == granted[u] - Cost * Cardinality(Debited(u, xfer))

(* create_transfers with PENDING; debits_must_not_exceed_credits refuses it. *)
ReserveOk(s) == xfer[s] = "none" /\ Balance(OwnerOf[s]) >= Cost

Reserve(s) == xfer' = [xfer EXCEPT ![s] = "pending"]

(* POST_ or VOID_PENDING_TRANSFER: refused unless the transfer is pending. *)
SettleOk(s) == xfer[s] = "pending"

(* Defect: a capture succeeds on a transfer that has expired. *)
CaptureExpired(s) == xfer' = [xfer EXCEPT ![s] = "posted"]

Capture(s) == xfer' = IF SettleOk(s) THEN [xfer EXCEPT ![s] = "posted"] ELSE xfer

Release(s) == xfer' = IF SettleOk(s) THEN [xfer EXCEPT ![s] = "voided"] ELSE xfer

(* A pending transfer older than its timeout is voided by TigerBeetle. *)
Expire(s) ==
  /\ xfer[s] = "pending"
  /\ xfer' = [xfer EXCEPT ![s] = "expired"]
  /\ UNCHANGED <<granted, topped, mirror, status, cache, apiVars, wfVars, faultVars>>

-----------------------------------------------------------------------------
(* Postgres (repository.py) and Redis (cache.py) *)

(* update_task_status_if_match: its UPDATE matches the row or changes nothing. *)
Cas(s, from, to) ==
  status' = IF status[s] = from THEN [status EXCEPT ![s] = to] ELSE status

(* Defect: no unique index on (user_id, idempotency_key). *)
KeyNeverTaken(s) == FALSE

(* The unique index on (user_id, idempotency_key) where the key is not null. *)
KeyTaken(s) ==
  /\ KeyOf[s] # NoKey
  /\ \E r \in Subs : /\ status[r] # "none"
                     /\ OwnerOf[r] = OwnerOf[s] /\ KeyOf[r] = KeyOf[s]

(* HSET of a whole row. *)
CacheRow(s, st) == cache' = [cache EXCEPT ![s] = [st |-> st, owner |-> TRUE]]

(* HSET of {task_id, status, result}: a user_id already in the hash stays. *)
CacheResult(s) ==
  cache' = [cache EXCEPT ![s] = [st |-> "COMPLETED", owner |-> cache[s].owner]]

Evict(s) == cache' = [cache EXCEPT ![s] = NoEntry]

(* TASK_TTL, or a Redis that restarts empty. *)
CacheExpire(s) ==
  /\ cache[s] # NoEntry
  /\ Evict(s)
  /\ UNCHANGED <<tbVars, mirror, status, apiVars, wfVars, faultVars>>

-----------------------------------------------------------------------------
(* POST /v1/task *)

GoSubmit(s, step) == spc' = [spc EXCEPT ![s] = step]

SubmitReserve(s) ==
  /\ spc[s] = "idle"
  /\ \/ ReserveOk(s) /\ Reserve(s) /\ GoSubmit(s, "create")
     \/ ~ReserveOk(s) /\ GoSubmit(s, "refused") /\ UNCHANGED xfer
  /\ UNCHANGED <<granted, topped, mirror, status, cache, canVars, pollVars, topVars,
                 wfVars, faultVars>>

(* INSERT INTO tasks; a violated unique index answers with the existing row. *)
SubmitCreate(s) ==
  /\ spc[s] = "create"
  /\ \/ KeyTaken(s) /\ GoSubmit(s, "replay") /\ UNCHANGED status
     \/ /\ ~KeyTaken(s)
        /\ status' = [status EXCEPT ![s] = "PENDING"]
        /\ GoSubmit(s, "cacheRow")
  /\ UNCHANGED <<tbVars, mirror, cache, canVars, pollVars, topVars, wfVars, faultVars>>

(* The INSERT raises; it may have committed before the connection was lost. *)
SubmitCreateError(s) ==
  /\ spc[s] = "create"
  /\ aborts < MaxAborts /\ aborts' = aborts + 1
  /\ \/ UNCHANGED status
     \/ ~KeyTaken(s) /\ status' = [status EXCEPT ![s] = "PENDING"]
  /\ GoSubmit(s, "undo")
  /\ UNCHANGED <<tbVars, mirror, cache, canVars, pollVars, topVars, wfVars, restarts>>

(* Defect: a replayed submission answers without releasing its reservation. *)
ReplayKeepsHold(s) ==
  /\ spc[s] \in {"undo", "replay"}
  /\ IF spc[s] = "undo" THEN Release(s) ELSE UNCHANGED xfer
  /\ GoSubmit(s, IF spc[s] = "undo" THEN "failed" ELSE "replayed")
  /\ UNCHANGED <<granted, topped, mirror, status, cache, canVars, pollVars, topVars,
                 wfVars, faultVars>>

(* The reservation of a refused or replayed creation is released. *)
SubmitUndo(s) ==
  /\ spc[s] \in {"undo", "replay"}
  /\ Release(s)
  /\ GoSubmit(s, IF spc[s] = "undo" THEN "failed" ELSE "replayed")
  /\ UNCHANGED <<granted, topped, mirror, status, cache, canVars, pollVars, topVars,
                 wfVars, faultVars>>

SubmitCacheRow(s) ==
  /\ spc[s] = "cacheRow"
  /\ CacheRow(s, "PENDING")
  /\ GoSubmit(s, "send")
  /\ UNCHANGED <<tbVars, mirror, status, canVars, pollVars, topVars, wfVars, faultVars>>

(* The one-way call to Restate, keyed by the task id: one invocation. *)
SubmitSend(s) ==
  /\ spc[s] = "send"
  /\ wpc' = [wpc EXCEPT ![s] = "start"]
  /\ GoSubmit(s, "accepted")
  /\ UNCHANGED <<tbVars, mirror, status, cache, canVars, pollVars, topVars, site, lost,
                 faultVars>>

(* The call fails: Restate never got it, or only the answer was lost. *)
SubmitSendError(s) ==
  /\ spc[s] = "send"
  /\ \/ UNCHANGED wpc
     \/ wpc' = [wpc EXCEPT ![s] = "start"]
  /\ GoSubmit(s, "handoff")
  /\ UNCHANGED <<tbVars, mirror, status, cache, canVars, pollVars, topVars, site, lost,
                 faultVars>>

(* Defect: the failed handoff overwrites whatever status the task has. *)
HandoffOverwrites(s) ==
  /\ spc[s] = "handoff"
  /\ status' = [status EXCEPT ![s] = "FAILED"]
  /\ GoSubmit(s, "handoffRelease")
  /\ UNCHANGED <<tbVars, mirror, cache, canVars, pollVars, topVars, wfVars, faultVars>>

(* _handle_restate_handoff_failure: compensate only a task still PENDING. *)
HandoffFail(s) ==
  /\ spc[s] = "handoff"
  /\ Cas(s, "PENDING", "FAILED")
  /\ GoSubmit(s, IF status[s] = "PENDING" THEN "handoffRelease" ELSE "accepted")
  /\ UNCHANGED <<tbVars, mirror, cache, canVars, pollVars, topVars, wfVars, faultVars>>

HandoffRelease(s) ==
  /\ spc[s] = "handoffRelease"
  /\ Release(s)
  /\ GoSubmit(s, IF SettleOk(s) THEN "handoffEvict" ELSE "handoffRollback")
  /\ UNCHANGED <<granted, topped, mirror, status, cache, canVars, pollVars, topVars,
                 wfVars, faultVars>>

HandoffRollback(s) ==
  /\ spc[s] = "handoffRollback"
  /\ Cas(s, "FAILED", "PENDING")
  /\ GoSubmit(s, "failed")
  /\ UNCHANGED <<tbVars, mirror, cache, canVars, pollVars, topVars, wfVars, faultVars>>

HandoffEvict(s) ==
  /\ spc[s] = "handoffEvict"
  /\ Evict(s)
  /\ GoSubmit(s, "failed")
  /\ UNCHANGED <<tbVars, mirror, status, canVars, pollVars, topVars, wfVars, faultVars>>

SubmitInFlight(s) == spc[s] \in SubmitSteps \ {"idle"}

(* A store error the handler does not catch ends the request where it is;   *)
(* errors of the INSERT and of the call to Restate are caught.              *)
SubmitAbort(s) ==
  /\ SubmitInFlight(s) /\ spc[s] \notin {"create", "send"}
  /\ aborts < MaxAborts /\ aborts' = aborts + 1
  /\ GoSubmit(s, "aborted")
  /\ UNCHANGED <<tbVars, mirror, status, cache, canVars, pollVars, topVars, wfVars, restarts>>

Submit(s) ==
  \/ SubmitReserve(s) \/ SubmitCreate(s) \/ SubmitCreateError(s) \/ SubmitUndo(s)
  \/ SubmitCacheRow(s) \/ SubmitSend(s) \/ SubmitSendError(s)
  \/ HandoffFail(s) \/ HandoffRelease(s) \/ HandoffRollback(s) \/ HandoffEvict(s)

-----------------------------------------------------------------------------
(* POST /v1/task/{id}/cancel *)

GoCancel(c, step) == cpc' = [cpc EXCEPT ![c] = step] /\ UNCHANGED ctgt

(* A client knows a task id from the answer to its submission, or to a      *)
(* retry under the same key.                                                *)
Known(s) ==
  \/ spc[s] = "accepted"
  \/ /\ status[s] # "none" /\ KeyOf[s] # NoKey
     /\ \E r \in Subs : /\ spc[r] = "replayed"
                        /\ OwnerOf[r] = OwnerOf[s] /\ KeyOf[r] = KeyOf[s]

CancelRead(c) ==
  LET st == status[ctgt[c]] IN
  /\ cpc[c] = "idle" /\ Known(ctgt[c])
  /\ \/ st = "PENDING" /\ GoCancel(c, "pending")
     \/ st = "RUNNING" /\ GoCancel(c, "running")
     \/ st \notin {"PENDING", "RUNNING"} /\ GoCancel(c, "ended")
  /\ UNCHANGED <<tbVars, mirror, status, cache, spc, pollVars, topVars, wfVars, faultVars>>

CancelPending(c) ==
  /\ cpc[c] = "pending"
  /\ Cas(ctgt[c], "PENDING", "CANCELLED")
  /\ GoCancel(c, IF status[ctgt[c]] = "PENDING" THEN "release" ELSE "reread")
  /\ UNCHANGED <<tbVars, mirror, cache, spc, pollVars, topVars, wfVars, faultVars>>

(* Raced with the workflow: look again; any status but RUNNING is a 409. *)
CancelReread(c) ==
  /\ cpc[c] = "reread"
  /\ GoCancel(c, IF status[ctgt[c]] = "RUNNING" THEN "running" ELSE "ended")
  /\ UNCHANGED <<tbVars, mirror, status, cache, spc, pollVars, topVars, wfVars, faultVars>>

CancelRelease(c) ==
  /\ cpc[c] = "release"
  /\ Release(ctgt[c])
  /\ GoCancel(c, IF SettleOk(ctgt[c]) THEN "evict" ELSE "rollback")
  /\ UNCHANGED <<granted, topped, mirror, status, cache, spc, pollVars, topVars, wfVars,
                 faultVars>>

CancelRollback(c) ==
  /\ cpc[c] = "rollback"
  /\ Cas(ctgt[c], "CANCELLED", "PENDING")
  /\ GoCancel(c, "ended")
  /\ UNCHANGED <<tbVars, mirror, cache, spc, pollVars, topVars, wfVars, faultVars>>

(* "cancelled": the request answers 200 CANCELLED. *)
CancelEvict(c) ==
  /\ cpc[c] = "evict"
  /\ Evict(ctgt[c])
  /\ GoCancel(c, "cancelled")
  /\ UNCHANGED <<tbVars, mirror, status, spc, pollVars, topVars, wfVars, faultVars>>

(* Defect: a running task is marked CANCELLED before its hold is released. *)
CancelAtOnce(c) ==
  /\ cpc[c] = "running"
  /\ Cas(ctgt[c], "RUNNING", "CANCELLED")
  /\ GoCancel(c, "ended")
  /\ UNCHANGED <<tbVars, mirror, cache, spc, pollVars, topVars, wfVars, faultVars>>

(* A running task is only asked to stop; its workflow completes the cancel. *)
CancelRunning(c) ==
  /\ cpc[c] = "running"
  /\ Cas(ctgt[c], "RUNNING", "CANCEL_REQUESTED")
  /\ GoCancel(c, "ended")
  /\ UNCHANGED <<tbVars, mirror, cache, spc, pollVars, topVars, wfVars, faultVars>>

CancelInFlight(c) == cpc[c] \notin {"idle", "cancelled", "ended", "aborted"}

CancelAbort(c) ==
  /\ CancelInFlight(c)
  /\ aborts < MaxAborts /\ aborts' = aborts + 1
  /\ GoCancel(c, "aborted")
  /\ UNCHANGED <<tbVars, mirror, status, cache, spc, pollVars, topVars, wfVars, restarts>>

Cancel(c) ==
  \/ CancelRead(c) \/ CancelPending(c) \/ CancelReread(c) \/ CancelRelease(c)
  \/ CancelRollback(c) \/ CancelEvict(c) \/ CancelRunning(c)

-----------------------------------------------------------------------------
(* GET /v1/poll, by the owner of the task *)

PollCache(p) ==
  LET e == cache[ptgt[p]] IN
  /\ ppc[p] = "idle" /\ Known(ptgt[p])
  /\ ppc' = [ppc EXCEPT ![p] = IF e = NoEntry THEN "miss"
                               ELSE IF e.owner THEN "answered" ELSE "denied"]
  /\ pview' = [pview EXCEPT ![p] = e.st]
  /\ UNCHANGED <<tbVars, mirror, status, cache, spc, canVars, ptgt, topVars, wfVars, faultVars>>

PollRead(p) ==
  /\ ppc[p] = "miss"
  /\ ppc' = [ppc EXCEPT ![p] = "fill"]
  /\ pview' = [pview EXCEPT ![p] = status[ptgt[p]]]
  /\ UNCHANGED <<tbVars, mirror, status, cache, spc, canVars, ptgt, topVars, wfVars, faultVars>>

PollFill(p) ==
  /\ ppc[p] = "fill"
  /\ CacheRow(ptgt[p], pview[p])
  /\ ppc' = [ppc EXCEPT ![p] = "answered"]
  /\ UNCHANGED <<tbVars, mirror, status, spc, canVars, ptgt, pview, topVars, wfVars, faultVars>>

PollInFlight(p) == ppc[p] \in {"miss", "fill"}

Poll(p) == PollCache(p) \/ PollRead(p) \/ PollFill(p)

-----------------------------------------------------------------------------
(* POST /v1/admin/credits *)

GoTopup(a, step) == tpc' = [tpc EXCEPT ![a] = step]

(* Defect: each request transfers under an id of its own. *)
TopupAgain(a) ==
  /\ tpc[a] = "idle" /\ GoTopup(a, "balance")
  /\ topped' = topped \cup {<<TopupKey[a], TopupUser[a]>>}
  /\ granted' = [granted EXCEPT ![TopupUser[a]] = @ + TopupAmount]
  /\ UNCHANGED <<xfer, tbal, mirror, status, cache, spc, canVars, pollVars, wfVars, faultVars>>

(* EXISTS (same id, same user) counts as success; another user's id does not. *)
TopupTransfer(a) ==
  LET made == <<TopupKey[a], TopupUser[a]>>
      used == \E u \in Users : <<TopupKey[a], u>> \in topped IN
  /\ tpc[a] = "idle"
  /\ \/ made \in topped /\ GoTopup(a, "balance") /\ UNCHANGED <<granted, topped>>
     \/ ~used /\ GoTopup(a, "balance")
        /\ topped' = topped \cup {made}
        /\ granted' = [granted EXCEPT ![TopupUser[a]] = @ + TopupAmount]
     \/ used /\ made \notin topped /\ GoTopup(a, "ended") /\ UNCHANGED <<granted, topped>>
  /\ UNCHANGED <<xfer, tbal, mirror, status, cache, spc, canVars, pollVars, wfVars, faultVars>>

TopupBalance(a) ==
  /\ tpc[a] = "balance"
  /\ tbal' = [tbal EXCEPT ![a] = Balance(TopupUser[a])]
  /\ GoTopup(a, "mirror")
  /\ UNCHANGED <<tbVars, mirror, status, cache, spc, canVars, pollVars, wfVars, faultVars>>

TopupMirror(a) ==
  /\ tpc[a] = "mirror"
  /\ mirror' = [mirror EXCEPT ![TopupUser[a]] = tbal[a]]
  /\ GoTopup(a, "ended")
  /\ UNCHANGED <<tbVars, tbal, status, cache, spc, canVars, pollVars, wfVars, faultVars>>

TopupInFlight(a) == tpc[a] \in {"balance", "mirror"}

Topup(a) == TopupTransfer(a) \/ TopupBalance(a) \/ TopupMirror(a)

-----------------------------------------------------------------------------
(* A crash of the API process and its next start (lifespan) *)

(* An account whose balance is 0 while users.credits is not is topped up. *)
Reseeded(u) == IF Balance(u) = 0 /\ mirror[u] > 0 THEN mirror[u] ELSE 0

Restart ==
  /\ restarts < MaxRestarts /\ restarts' = restarts + 1
  /\ granted' = [u \in Users |-> granted[u] + Reseeded(u)]
  /\ spc' = [s \in Subs |-> IF SubmitInFlight(s) THEN "aborted" ELSE spc[s]]
  /\ cpc' = [c \in Cancels |-> IF CancelInFlight(c) THEN "aborted" ELSE cpc[c]]
  /\ ppc' = [p \in Polls |-> IF PollInFlight(p) THEN "ended" ELSE ppc[p]]
  /\ tpc' = [a \in Topups |-> IF TopupInFlight(a) THEN "ended" ELSE tpc[a]]
  /\ UNCHANGED <<xfer, topped, mirror, status, cache, ctgt, ptgt, pview, tbal, wfVars, aborts>>

-----------------------------------------------------------------------------
(* execute_task: the durable workflow *)

(* The step is journaled and the workflow goes on, or it will be run again. *)
Journal(s, next, caller) ==
  \/ /\ wpc' = [wpc EXCEPT ![s] = next]
     /\ site' = [site EXCEPT ![s] = caller]
     /\ UNCHANGED lost
  \/ /\ lost < MaxLost /\ lost' = lost + 1
     /\ UNCHANGED <<wpc, site>>

Step(s, next) == Journal(s, next, "none")

(* Inside _maybe_complete_cancellation the caller is remembered ...          *)
StepIn(s, next) == Journal(s, next, site[s])

(* ... and when it returns False the workflow goes on where it was called.   *)
Return(s) ==
  \/ site[s] = "failed" /\ Step(s, "markFailed")
  \/ site[s] = "computed" /\ Step(s, "capture")
  \/ site[s] = "uncaptured" /\ Step(s, "markUncaptured")

WorkStart(s) ==
  /\ wpc[s] = "start"
  /\ Cas(s, "PENDING", "RUNNING")
  /\ Step(s, IF status[s] = "PENDING" THEN "compute" ELSE "ended")
  /\ UNCHANGED <<tbVars, mirror, cache, apiVars, faultVars>>

(* A call is tried again while the worker cannot be reached or has an error  *)
(* of its own: it ends with an answer, with the last error or by timeout.    *)
ComputeOutcomes == {"computed", "failed"}

(* Both are journaled. *)
WorkCompute(s) ==
  /\ wpc[s] = "compute"
  /\ \E outcome \in ComputeOutcomes : Journal(s, "readStatus", outcome)
  /\ UNCHANGED <<tbVars, mirror, status, cache, apiVars, faultVars>>

WorkReadStatus(s) ==
  /\ wpc[s] = "readStatus"
  /\ IF status[s] = "CANCEL_REQUESTED" THEN StepIn(s, "release") ELSE Return(s)
  /\ UNCHANGED <<tbVars, mirror, status, cache, apiVars, faultVars>>

WorkRelease(s) ==
  /\ wpc[s] = "release"
  /\ Release(s)
  /\ IF SettleOk(s) THEN StepIn(s, "markCancelled") ELSE Return(s)
  /\ UNCHANGED <<granted, topped, mirror, status, cache, apiVars, faultVars>>

(* Defect: the cancel check ends without writing the status. *)
CancelUnmarked(s) ==
  /\ wpc[s] = "markCancelled"
  /\ StepIn(s, "evict")
  /\ UNCHANGED <<tbVars, mirror, status, cache, apiVars, faultVars>>

WorkMarkCancelled(s) ==
  /\ wpc[s] = "markCancelled"
  /\ Cas(s, "CANCEL_REQUESTED", "CANCELLED")
  /\ IF status[s] = "CANCEL_REQUESTED" THEN StepIn(s, "evict") ELSE Return(s)
  /\ UNCHANGED <<tbVars, mirror, cache, apiVars, faultVars>>

WorkEvict(s) ==
  /\ wpc[s] = "evict"
  /\ Evict(s)
  /\ Step(s, "ended")
  /\ UNCHANGED <<tbVars, mirror, status, apiVars, faultVars>>

(* Defect: a compute failure ends the workflow without writing the status. *)
FailUnmarked(s) ==
  /\ wpc[s] = "markFailed"
  /\ Step(s, "failRelease")
  /\ UNCHANGED <<tbVars, mirror, status, cache, apiVars, faultVars>>

WorkMarkFailed(s) ==
  /\ wpc[s] = "markFailed"
  /\ Cas(s, "RUNNING", "FAILED")
  /\ Step(s, IF status[s] = "RUNNING" THEN "failRelease" ELSE "ended")
  /\ UNCHANGED <<tbVars, mirror, cache, apiVars, faultVars>>

WorkFailRelease(s) ==
  /\ wpc[s] = "failRelease"
  /\ Release(s)
  /\ Step(s, "failEvict")
  /\ UNCHANGED <<granted, topped, mirror, status, cache, apiVars, faultVars>>

WorkFailEvict(s) ==
  /\ wpc[s] = "failEvict"
  /\ Evict(s)
  /\ Step(s, "ended")
  /\ UNCHANGED <<tbVars, mirror, status, apiVars, faultVars>>

(* Defect: the result of capture_credits is not looked at. *)
CaptureUnchecked(s) ==
  /\ wpc[s] = "capture"
  /\ Capture(s)
  /\ Step(s, "complete")
  /\ UNCHANGED <<granted, topped, mirror, status, cache, apiVars, faultVars>>

WorkCapture(s) ==
  /\ wpc[s] = "capture"
  /\ Capture(s)
  /\ IF SettleOk(s) THEN Step(s, "complete") ELSE Journal(s, "readStatus", "uncaptured")
  /\ UNCHANGED <<granted, topped, mirror, status, cache, apiVars, faultVars>>

WorkMarkUncaptured(s) ==
  /\ wpc[s] = "markUncaptured"
  /\ Cas(s, "RUNNING", "FAILED")
  /\ Step(s, "uncapturedRelease")
  /\ UNCHANGED <<tbVars, mirror, cache, apiVars, faultVars>>

(* Called outside ctx.run; the cache is invalidated only if it succeeds. *)
WorkUncapturedRelease(s) ==
  /\ wpc[s] = "uncapturedRelease"
  /\ Release(s)
  /\ cache' = IF SettleOk(s) THEN [cache EXCEPT ![s] = NoEntry] ELSE cache
  /\ Step(s, "ended")
  /\ UNCHANGED <<granted, topped, mirror, status, apiVars, faultVars>>

(* Defect: the result is cached although the row was not updated. *)
CompleteUnchecked(s) ==
  /\ wpc[s] = "complete"
  /\ Cas(s, "RUNNING", "COMPLETED")
  /\ Step(s, "cacheResult")
  /\ UNCHANGED <<tbVars, mirror, cache, apiVars, faultVars>>

WorkComplete(s) ==
  /\ wpc[s] = "complete"
  /\ Cas(s, "RUNNING", "COMPLETED")
  /\ Step(s, IF status[s] = "RUNNING" THEN "cacheResult" ELSE "lateRead")
  /\ UNCHANGED <<tbVars, mirror, cache, apiVars, faultVars>>

WorkLateRead(s) ==
  /\ wpc[s] = "lateRead"
  /\ Step(s, IF status[s] = "CANCEL_REQUESTED" THEN "lateComplete" ELSE "ended")
  /\ UNCHANGED <<tbVars, mirror, status, cache, apiVars, faultVars>>

(* A cancel request that came after the capture loses: the task completes. *)
WorkLateComplete(s) ==
  /\ wpc[s] = "lateComplete"
  /\ Cas(s, "CANCEL_REQUESTED", "COMPLETED")
  /\ Step(s, IF status[s] = "CANCEL_REQUESTED" THEN "cacheResult" ELSE "ended")
  /\ UNCHANGED <<tbVars, mirror, cache, apiVars, faultVars>>

WorkCacheResult(s) ==
  /\ wpc[s] = "cacheResult"
  /\ CacheResult(s)
  /\ Step(s, "ended")
  /\ UNCHANGED <<tbVars, mirror, status, apiVars, faultVars>>

Work(s) ==
  \/ WorkStart(s) \/ WorkCompute(s) \/ WorkReadStatus(s) \/ WorkRelease(s)
  \/ WorkMarkCancelled(s) \/ WorkEvict(s) \/ WorkMarkFailed(s) \/ WorkFailRelease(s)
  \/ WorkFailEvict(s) \/ WorkCapture(s) \/ WorkMarkUncaptured(s)
  \/ WorkUncapturedRelease(s) \/ WorkComplete(s) \/ WorkLateRead(s)
  \/ WorkLateComplete(s) \/ WorkCacheResult(s)

-----------------------------------------------------------------------------
Next ==
  \/ \E s \in Subs : Submit(s) \/ SubmitAbort(s) \/ Work(s) \/ Expire(s) \/ CacheExpire(s)
  \/ \E c \in Cancels : Cancel(c) \/ CancelAbort(c)
  \/ \E p \in Polls : Poll(p)
  \/ \E a \in Topups : Topup(a)
  \/ Restart

Spec == Init /\ [][Next]_vars

(* A request that has started runs on, and Restate retries a workflow until  *)
(* it ends.  Nothing makes clients call.                                     *)
Fairness ==
  /\ \A s \in Subs : WF_vars(spc[s] # "idle" /\ Submit(s)) /\ WF_vars(Work(s))
  /\ \A c \in Cancels : WF_vars(cpc[c] # "idle" /\ Cancel(c))

FairSpec == Spec /\ Fairness

-----------------------------------------------------------------------------
(* Properties *)

(* A task shown COMPLETED has been paid for: mark_completed runs only after  *)
(* capture_credits succeeded, whatever is replayed, cancelled or expired.    *)
CompletedIsCharged == \A s \in Subs : status[s] = "COMPLETED" => xfer[s] = "posted"

(* A cancelled task costs nothing: neither the API's cancel of a queued task *)
(* nor the workflow's cancel of a running one meets a captured transfer.     *)
CancelledIsFree == \A s \in Subs : status[s] = "CANCELLED" => xfer[s] # "posted"

(* A failed task costs nothing, as long as no journal entry is lost.         *)
FailedIsFree ==
  lost = 0 => \A s \in Subs : status[s] = "FAILED" => xfer[s] # "posted"

(* Retried submissions under one idempotency key are charged at most once:   *)
(* the reservations of the losers are never captured.                        *)
OneChargePerKey ==
  \A r, s \in Subs :
    /\ r # s /\ KeyOf[r] = KeyOf[s] /\ KeyOf[r] # NoKey /\ OwnerOf[r] = OwnerOf[s]
    => ~(xfer[r] = "posted" /\ xfer[s] = "posted")

(* A poll is told COMPLETED only of a task the tasks table shows COMPLETED:  *)
(* cached rows may be old, never ahead.                                      *)
CacheNeverAhead == \A s \in Subs : cache[s].st = "COMPLETED" => status[s] = "COMPLETED"

(* COMPLETED is never left, and FAILED or CANCELLED only by the request that *)
(* wrote it, back to PENDING, when the transfer was no longer pending and    *)
(* could not be released.                                                    *)
TerminalIsFinal ==
  [][\A s \in Subs :
       status[s] \in Terminal /\ status'[s] # status[s] =>
         /\ status[s] # "COMPLETED" /\ status'[s] = "PENDING"
         /\ xfer[s] \in {"voided", "expired"}]_vars

(* Credits a user was given by top-ups: one amount per transfer id, until a  *)
(* restart seeds an account whose balance is 0 again.                        *)
TopupsGrantOnce ==
  restarts = 0 => \A u \in Users :
    granted[u] = SeedCredits[u] + TopupAmount * Cardinality({t \in topped : t[2] = u})

(* No account is overdrawn, however top-ups and reservations interleave.     *)
NoOverdraft == \A u \in Users : Balance(u) >= 0

(* The pending transfers carry the holds of CreditHold. *)
HoldOf(x) == IF x = "none" THEN "none" ELSE IF x = "pending" THEN "held"
             ELSE IF x = "posted" THEN "captured" ELSE "returned"
Billing == INSTANCE CreditHold WITH hold <- [s \in Subs |-> HoldOf(xfer[s])]
BillingSpec == Billing!Spec

(* Who is still to capture or release the transfer of attempt s: its request *)
(* until the task is handed over or undone, a cancel request that has marked *)
(* it CANCELLED, or its workflow.                                            *)
Owed(s) ==
  \/ spc[s] \in {"create", "undo", "replay", "handoffRelease"}
  \/ /\ status[s] = "PENDING"
     /\ spc[s] \in {"cacheRow", "send", "handoff"} \/ wpc[s] = "start"
  \/ wpc[s] \in {"compute", "readStatus", "release", "markFailed", "failRelease",
                "capture", "markUncaptured", "uncapturedRelease"}
  \/ \E c \in Cancels : ctgt[c] = s /\ cpc[c] = "release"

(* The one who owed it was cut off: the request, or the cancel request, by   *)
(* an uncaught error or a crash; the workflow, when the replay of a step     *)
(* whose journal entry was lost no longer finds the status it wrote over, or *)
(* when a cancel requested after its last look stays requested for ever.     *)
CutOff(s) ==
  \/ spc[s] = "aborted" /\ status[s] \in {"none", "PENDING", "FAILED"}
  \/ status[s] = "CANCELLED" /\ \E c \in Cancels : ctgt[c] = s /\ cpc[c] = "aborted"
  \/ lost > 0 /\ wpc[s] \in {"start", "ended"}
  \/ status[s] = "CANCEL_REQUESTED" /\ wpc[s] = "ended"

(* Credits are held only while someone is still to settle the hold.  A hold  *)
(* is never left to the timeout of its transfer by a rejected or replayed    *)
(* submission, a failed handoff, a lost race with the workflow or a failed   *)
(* task, only by one who was cut off.                                        *)
NoHoldForgotten == \A s \in Subs : xfer[s] = "pending" => Owed(s) \/ CutOff(s)

(* An accepted task ends, unless a journal entry is lost or its owner asks   *)
(* to cancel it (CancelDuringComputeEnds is about these).                    *)
CancelAsked(s) == \E c \in Cancels : ctgt[c] = s /\ cpc[c] # "idle"
AcceptedEnds ==
  \A s \in Subs : spc[s] = "accepted"
                  ~> status[s] \in Terminal \/ lost > 0 \/ CancelAsked(s)

(* A cancel request that arrives while the task computes is carried out, or  *)
(* the task ends some other way, unless its transfer expires first.          *)
CancelDuringComputeEnds ==
  \A s \in Subs : status[s] = "CANCEL_REQUESTED" /\ wpc[s] = "compute"
                  ~> status[s] \in Terminal \/ lost > 0 \/ xfer[s] = "expired"

-----------------------------------------------------------------------------
(* Claims of the repository that the code does not keep *)

(* workflows.py:5: each step is journaled or idempotent, so a replay charges *)
(* no failed task.                                                           *)
ReplayChargesNoFailure == \A s \in Subs : status[s] = "FAILED" => xfer[s] # "posted"

(* README.md:15: a task can be cancelled at any point, so a requested cancel *)
(* does not stay requested.                                                  *)
CancelRequestEnds ==
  \A s \in Subs : status[s] = "CANCEL_REQUESTED" ~> status[s] # "CANCEL_REQUESTED"

=============================================================================

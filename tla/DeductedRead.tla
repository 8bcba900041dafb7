---------------------------- MODULE DeductedRead ----------------------------
(***************************************************************************)
(* Solution 0, what clients see of DeductedTask: the hash result:{id},     *)
(* which a worker writes after it has ended a task, the poll, which looks  *)
(* at the hash and then at the row, and the end of an outcome's life, a    *)
(* day after the task: the hash expires by itself, and poll and reaper set *)
(* the row to EXPIRED.                                                     *)
(*                                                                         *)
(* The row of a task in expired is EXPIRED; status keeps what it was.      *)
(***************************************************************************)
EXTENDS DeductedTask

VARIABLES
  shown,    \* the status in result:{id}, "none" when there is no hash
  aged,     \* the tasks that ended longer than task_result_ttl_seconds ago
  expired,
  poll,     \* the poll in progress for each task: where it looks next
  told      \* the status the last poll of each task answered

ageVars == <<aged, expired>>
pollVars == <<poll, told>>
readVars == <<shown, ageVars, pollVars>>

Outcomes == {"COMPLETED", "FAILED", "CANCELLED"}

ReadInit ==
  /\ Init
  /\ shown = [t \in Tasks |-> "none"]
  /\ aged = {} /\ expired = {}
  /\ poll = [t \in Tasks |-> "idle"] /\ told = [t \in Tasks |-> "none"]

-----------------------------------------------------------------------------
(* What the worker shows *)

(* It shows what it has ended the task with, unless the write is given up.   *)
CacheOutcome(w) ==
  /\ WorkCache(w) /\ UNCHANGED fixedVars
  /\ shown' = IF faults' # faults THEN shown
              ELSE [shown EXCEPT ![job[w][1]] =
                      IF wpc[w] = "cache" THEN "COMPLETED" ELSE "FAILED"]
  /\ UNCHANGED <<ageVars, pollVars>>

-----------------------------------------------------------------------------
(* The end of an outcome's life *)

Busy(t) ==
  \/ rpc[t] \notin {"idle", "ended"} \/ poll[t] # "idle" \/ xjob = t
  \/ \E c \in Cancels : CancelOf[c] = t /\ cpc[c] \notin {"idle", "ended"}
  \/ \E w \in Workers : job[w][1] = t

(* A day passes, which no handler lasts. *)
Age(t) ==
  /\ scene.readers
  /\ status[t] \in Outcomes /\ ~Busy(t)
  /\ aged' = aged \cup {t}
  /\ UNCHANGED <<vars, shown, expired, pollVars>>

Expire(t) == expired' = expired \cup {t} /\ UNCHANGED aged

(* bulk_expire_old_terminal_tasks *)
ReapAged(t) ==
  /\ t \in aged
  /\ Expire(t)
  /\ UNCHANGED <<vars, shown, pollVars>>

ShownExpires(t) ==
  /\ t \in aged
  /\ shown' = [shown EXCEPT ![t] = "none"]
  /\ UNCHANGED <<vars, ageVars, pollVars>>

-----------------------------------------------------------------------------
(* GET /v1/poll *)

RowStatus(t) == IF t \in expired THEN "EXPIRED" ELSE status[t]

Tell(t, st) == told' = [told EXCEPT ![t] = st] /\ poll' = [poll EXCEPT ![t] = "idle"]

LookAt(t, where) == poll' = [poll EXCEPT ![t] = where] /\ UNCHANGED told

PollShown(t) ==
  /\ scene.readers
  /\ poll[t] = "idle" /\ status[t] # "none"
  /\ IF shown[t] # "none" THEN Tell(t, shown[t]) ELSE LookAt(t, "row")
  /\ UNCHANGED <<vars, shown, ageVars>>

PollRow(t) ==
  /\ poll[t] = "row"
  /\ IF t \in aged \ expired THEN LookAt(t, "expire") ELSE Tell(t, RowStatus(t))
  /\ UNCHANGED <<vars, shown, ageVars>>

(* update_task_expired *)
PollExpire(t) ==
  /\ poll[t] = "expire"
  /\ Expire(t) /\ Tell(t, "EXPIRED")
  /\ UNCHANGED <<vars, shown>>

-----------------------------------------------------------------------------
ReadNext ==
  \/ Step /\ UNCHANGED <<fixedVars, readVars>>
  \/ Admin /\ UNCHANGED <<scene, readVars>>
  \/ \E w \in Workers : CacheOutcome(w)
  \/ \E t \in Tasks :
       \/ Age(t) \/ ReapAged(t) \/ ShownExpires(t)
       \/ PollShown(t) \/ PollRow(t) \/ PollExpire(t)

allVars == <<vars, readVars>>

ReadSpec == ReadInit /\ [][ReadNext]_allVars /\ Fairness

-----------------------------------------------------------------------------
(* Properties *)

(* A poll tells an outcome only of a task that has it, and once it has told  *)
(* one, later polls tell the same or that it has expired: the hash, written  *)
(* after the row by the one who ended the task, is never ahead of the row    *)
(* nor left over from an attempt that came too late.                         *)
PollsKeepOutcome ==
  [][\A t \in Tasks :
       /\ told'[t] \in Outcomes => told'[t] = status[t]
       /\ told[t] \in Outcomes \cup {"EXPIRED"} => told'[t] \in {told[t], "EXPIRED"}]_allVars

=============================================================================

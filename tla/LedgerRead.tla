----------------------------- MODULE LedgerRead -----------------------------
(***************************************************************************)
(* Solution 3 as a whole: the command side (LedgerTask) with the projector, *)
(* the webhook worker, the rebuild tool and the poll route, which learn of *)
(* a task from the log, from its row and from each other's writes.         *)
(*                                                                         *)
(* Topics are partitions of their own, so that events of one task can be   *)
(* read in any order.  A consumer takes a batch of events at a time and    *)
(* commits its position afterwards; here it commits after each event, as   *)
(* reading one again is a step that changes nothing (inbox) or a callback  *)
(* that is sent again.  A batch that raises is not committed, but the      *)
(* consumer has moved past it and commits the next one.                    *)
(***************************************************************************)
EXTENDS LedgerTask

VARIABLES
  inbox,      \* the projector's rows of cmd.inbox_events
  read,       \* projector: how much of each event's log it has read
  ppc, pjob,  \* projector: program counter; event at hand and the row's status
  heard,      \* webhook worker: how much of the log it has read
  told,       \* the tasks whose callback was answered or is a dead letter
  bpc,        \* rebuild tool: program counter
  rebuilds

sideVars == <<inbox, read, ppc, pjob, heard, told, bpc, rebuilds>>
allVars == <<vars, sideVars>>
commandVars == <<scene, billVars, active, rowVars, busVars, requestVars, workVars, reconVars>>
projectVars == <<inbox, read, ppc, pjob>>
hookVars == <<heard, told>>
rebuildVars == <<bpc, rebuilds>>

NoEvent == NoneSeen

ReadTypeOK ==
  /\ TypeOK
  /\ inbox \subseteq Events
  /\ read \in [Events -> Nat]
  /\ ppc \in {"idle", "apply", "cache"}
  /\ pjob \in (Events \cup {NoEvent}) \X Statuses
  /\ heard \in [Tasks -> Nat]
  /\ told \subseteq Tasks
  /\ bpc \in {"idle", "reset", "fill"}
  /\ rebuilds \in Nat

ReadInit ==
  /\ Init
  /\ inbox = {} /\ read = [e \in Events |-> 0]
  /\ ppc = "idle" /\ pjob = <<NoEvent, "none">>
  /\ heard = [t \in Tasks |-> 0] /\ told = {}
  /\ bpc = "idle" /\ rebuilds = 0

-----------------------------------------------------------------------------
(* Projector *)

ToRead == {e \in Events : scene.readers /\ read[e] < log[e]}

Pass(e) == read' = [read EXCEPT ![e] = @ + 1]

(* An event that is in the inbox is not projected again. *)
ProjectKnown(e) ==
  /\ ppc = "idle" /\ e \in ToRead \cap inbox
  /\ Pass(e)
  /\ UNCHANGED <<commandVars, readVars, faultVars, inbox, ppc, pjob, hookVars, rebuildVars>>

(* What is projected is not the event's status, but the row's. *)
ProjectRead(e) ==
  /\ ppc = "idle" /\ e \in ToRead \ inbox
  /\ ppc' = "apply" /\ pjob' = <<e, status[e[1]]>>
  /\ UNCHANGED <<commandVars, readVars, faultVars, inbox, read, hookVars, rebuildVars>>

(* apply_task_projection: one transaction. *)
ProjectApply ==
  LET e == pjob[1] IN
  /\ ppc = "apply"
  /\ view' = [view EXCEPT ![e[1]] = pjob[2]] /\ UNCHANGED cache
  /\ inbox' = inbox \cup {e}
  /\ ppc' = "cache" /\ UNCHANGED pjob
  /\ UNCHANGED <<commandVars, faultVars, read, hookVars, rebuildVars>>

ProjectorRests == ppc' = "idle" /\ pjob' = <<NoEvent, "none">>

(* _cache_projected_view *)
ProjectCache ==
  /\ ppc = "cache"
  /\ CacheStatus(pjob[1][1], pjob[2])
  /\ Pass(pjob[1]) /\ ProjectorRests
  /\ UNCHANGED <<commandVars, faultVars, inbox, hookVars, rebuildVars>>

(* A crash: what is not committed is read again. *)
ProjectAbort ==
  /\ ppc # "idle"
  /\ Fault /\ ProjectorRests
  /\ UNCHANGED <<commandVars, readVars, inbox, read, hookVars, rebuildVars>>

(* An error: the events of the batch that are still to be projected are      *)
(* skipped.                                                                  *)
ProjectMiss(S) ==
  /\ ppc # "idle" /\ pjob[1] \in S
  /\ faults < scene.failures /\ faults' = faults + 1
  /\ astray' = astray \cup {e[1] : e \in S}
  /\ read' = [e \in Events |-> IF e \in S THEN read[e] + 1 ELSE read[e]]
  /\ ProjectorRests
  /\ UNCHANGED <<commandVars, readVars, inbox, hookVars, rebuildVars>>

-----------------------------------------------------------------------------
(* Webhook worker *)

ToTell == {t \in Tasks : scene.readers /\ heard[t] < log[<<t, "ended">>]}

(* The callback is answered or, its attempts used up, becomes a dead letter. *)
Tell(t) ==
  /\ t \in ToTell
  /\ told' = told \cup {t}
  /\ heard' = [heard EXCEPT ![t] = @ + 1]
  /\ UNCHANGED <<commandVars, readVars, faultVars, projectVars, rebuildVars>>

(* An error skips the events of the batch that are left, and a crash those   *)
(* that the commit after the batch's first event has covered.                *)
TellMiss(S) ==
  /\ faults < scene.failures /\ faults' = faults + 1
  /\ astray' = astray \cup S
  /\ heard' = [t \in Tasks |-> IF t \in S THEN heard[t] + 1 ELSE heard[t]]
  /\ UNCHANGED <<commandVars, readVars, projectVars, told, rebuildVars>>

-----------------------------------------------------------------------------
(* The rebuild tool, from SQL *)

(* clear_task_cache *)
RebuildClear ==
  /\ bpc = "idle" /\ rebuilds < scene.rebuilds
  /\ cache' = [t \in Tasks |-> "none"] /\ UNCHANGED view
  /\ bpc' = "reset" /\ rebuilds' = rebuilds + 1
  /\ UNCHANGED <<commandVars, faultVars, projectVars, hookVars>>

(* reset_projection_state: the projector keeps its place in the log. *)
RebuildReset ==
  /\ bpc = "reset"
  /\ view' = [t \in Tasks |-> "none"] /\ UNCHANGED cache
  /\ inbox' = {}
  /\ bpc' = "fill"
  /\ UNCHANGED <<commandVars, faultVars, read, ppc, pjob, hookVars, rebuilds>>

(* rebuild_task_query_view_from_commands raises when the projector has been  *)
(* faster with one of the rows.                                              *)
RebuildFill ==
  /\ bpc = "fill"
  /\ view' = IF \E t \in Tasks : view[t] # "none" THEN view ELSE status
  /\ UNCHANGED cache
  /\ bpc' = "idle"
  /\ UNCHANGED <<commandVars, faultVars, projectVars, hookVars, rebuilds>>

RebuildAbort ==
  /\ bpc # "idle"
  /\ Fault
  /\ bpc' = "idle"
  /\ UNCHANGED <<commandVars, readVars, projectVars, hookVars, rebuilds>>

-----------------------------------------------------------------------------
(* Polls *)

Quiet ==
  /\ \A t \in Tasks : rpc[t] \notin RequestSteps
  /\ \A c \in Cancels : cpc[c] \notin CancelSteps
  /\ \A w \in Workers : wpc[w] = "idle"
  /\ xpc = "idle" /\ ppc = "idle" /\ bpc = "idle"

(* The task hash lives for a day, which no handler lasts. *)
CacheExpire(t) ==
  /\ cache[t] # "none" /\ Quiet
  /\ CacheStatus(t, "none")
  /\ UNCHANGED <<commandVars, faultVars, sideVars>>

(* poll_task: the hash, else the view, else the row. *)
Polled(t) ==
  IF cache[t] # "none" THEN cache[t] ELSE IF view[t] # "none" THEN view[t] ELSE status[t]

-----------------------------------------------------------------------------
Project == ProjectApply \/ ProjectCache \/ \E e \in Events : ProjectKnown(e) \/ ProjectRead(e)

Rebuild == RebuildClear \/ RebuildReset \/ RebuildFill

ReadNext ==
  \/ Next /\ UNCHANGED sideVars
  \/ Project \/ ProjectAbort \/ \E S \in SUBSET ToRead : ProjectMiss(S)
  \/ \E t \in Tasks : Tell(t) \/ CacheExpire(t)
  \/ \E S \in SUBSET ToTell \ {{}} : TellMiss(S)
  \/ Rebuild \/ RebuildAbort

(* A handler that has begun goes on, and the processes keep running.  That a *)
(* RabbitMQ message is taken is not assumed.                                 *)
ReadFairness ==
  /\ \A t \in Tasks :
       /\ WF_allVars(rpc[t] # "idle" /\ Request(t) /\ UNCHANGED <<scene, sideVars>>)
       /\ WF_allVars(Reconcile(t) /\ UNCHANGED <<scene, sideVars>>)
       /\ WF_allVars(Tell(t)) /\ WF_allVars(CacheExpire(t))
  /\ \A c \in Cancels : WF_allVars(Cancel(c) /\ UNCHANGED <<scene, sideVars>>)
  /\ \A w \in Workers : WF_allVars(Work(w) /\ UNCHANGED <<scene, sideVars>>)
  /\ WF_allVars((Align \/ AlignRelease \/ AlignCache) /\ UNCHANGED <<scene, sideVars>>)
  /\ WF_allVars(Relay /\ UNCHANGED <<scene, sideVars>>)
  /\ WF_allVars(Project)
  /\ WF_allVars(RebuildReset \/ RebuildFill)

ReadSpec == ReadInit /\ [][ReadNext]_allVars

ReadFairSpec == ReadSpec /\ ReadFairness

-----------------------------------------------------------------------------
(* Properties *)

(* A poll that reports an outcome reports the one the row has, whatever of   *)
(* the writers of hash and view was late.                                    *)
PollsTellOutcomes ==
  \A t \in Tasks : Polled(t) \in Terminal => Polled(t) = status[t]

(* Once its transfer is settled every task ends, its callback is sent or     *)
(* kept as a dead letter, and in the end polls report its outcome and do not *)
(* go back, though hash and view may have been overwritten by older states.  *)
OutcomesReported ==
  \A t \in Tasks :
    <>[](\/ t \in astray \/ status[t] = "none"
         \/ /\ transfer[t] \in {"posted", "voided"} => status[t] \in Terminal
            /\ status[t] \in Terminal /\ scene.readers => t \in told
            /\ Polled(t) = status[t])

=============================================================================

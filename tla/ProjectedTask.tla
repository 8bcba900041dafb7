---------------------------- MODULE ProjectedTask ----------------------------
(***************************************************************************)
(* Solution 2, the read side on top of ReservedTask: the projector queue,  *)
(* the projector, query.task_query_view, the Redis hash task:{id} and the  *)
(* poll of GET /v1/poll.  Each step of the command side that writes the    *)
(* cache, the view or the projector's queue is joined with what it writes; *)
(* the others leave the read side alone.                                   *)
(*                                                                         *)
(* A cached hash is modelled by its status.  Of the hashes with an ended   *)
(* status only CANCELLED ones carry neither a result nor an error, and a   *)
(* poll passes over these.  HSET keeps the fields it does not name, which  *)
(* matters to no poll: every writer names the status and the error.        *)
(***************************************************************************)
EXTENDS ReservedTask

VARIABLES
  view,     \* query.task_query_view.status, "none" when there is no row
  cache,    \* the status in task:{id}, "none" when there is no hash
  feed,     \* the messages about each task in queue.projector
  applied,  \* cmd.inbox_events of the projector: <<task, event>>
  pjob,     \* projector: the task whose cache entry it is to write, or NoTask
  poll,     \* the poll in progress for each task: where it looks next
  told      \* the status the last poll of each task answered

projVars == <<feed, applied, pjob>>
pollVars == <<poll, told>>
readVars == <<view, cache, projVars, pollVars>>
allVars == <<vars, view, cache, feed, applied, pjob, poll, told>>

ReadTypeOK ==
  /\ view \in [Tasks -> Statuses] /\ cache \in [Tasks -> Statuses]
  /\ feed \in [Tasks -> Seq(Events)]
  /\ applied \subseteq Tasks \X Events
  /\ pjob \in Tasks \cup {NoTask}
  /\ poll \in [Tasks -> {"idle", "view", "command"}]
  /\ told \in [Tasks -> Statuses]

ReadInit ==
  /\ Init
  /\ view = [t \in Tasks |-> "none"] /\ cache = [t \in Tasks |-> "none"]
  /\ feed = [t \in Tasks |-> <<>>] /\ applied = {} /\ pjob = NoTask
  /\ poll = [t \in Tasks |-> "idle"] /\ told = [t \in Tasks |-> "none"]

-----------------------------------------------------------------------------
(* Steps of the command side that reach the read side *)

CacheStatus(t, st) == cache' = [cache EXCEPT ![t] = st]

(* The status the request ended with: an inline task has ended by now. *)
SubmitCached(r) ==
  /\ SubmitCache(r)
  /\ cache' = [t \in Tasks |-> IF t \notin TasksOf(r) THEN cache[t]
                               ELSE IF r \in SyncReqs THEN status[t] ELSE "PENDING"]
  /\ UNCHANGED <<view, projVars, pollVars>>

(* The finalization of an inline task upserts the view in its transaction. *)
InlineViewed(t) ==
  /\ SyncFinish(t) \/ SyncFail(t) \/ SyncFinishError(t)
  /\ view' = IF status' = status THEN view ELSE [view EXCEPT ![t] = status'[t]]
  /\ UNCHANGED <<cache, projVars, pollVars>>

CancelCached(c) ==
  /\ CancelSync(c)
  /\ CacheStatus(CancelOf[c], "CANCELLED")
  /\ UNCHANGED <<view, projVars, pollVars>>

WorkCached(w) ==
  /\ WorkCache(w)
  /\ CacheStatus(job[w], status[job[w]])
  /\ UNCHANGED <<view, projVars, pollVars>>

WatchCached ==
  /\ WatchCache
  /\ CacheStatus(wdog, "TIMEOUT")
  /\ UNCHANGED <<view, projVars, pollVars>>

(* Every task event is routed to queue.projector. *)
PublishFed(t) ==
  /\ Publish(t)
  /\ feed' = [feed EXCEPT ![t] = Append(@, events[t][published[t] + 1])]
  /\ UNCHANGED <<view, cache, applied, pjob, pollVars>>

CommandOnly ==
  /\ \/ \E r \in Reqs : Admit(r) \/ AdmitError(r) \/ RequestAbort(r)
     \/ \E t \in Tasks : SyncMark(t) \/ Overdue(t) \/ WatchExpire(t)
     \/ \E c \in Cancels : CancelRead(c) \/ CancelTransact(c) \/ CancelAbort(c)
     \/ \E a \in Adjusts : Adjust(a)
     \/ \E w \in Workers : \/ \E t \in Tasks : WorkTake(w, t)
                           \/ WorkMark(w) \/ WorkSucceed(w) \/ WorkFail(w)
                           \/ WorkDrop(w)
     \/ Unlink \/ WatchAbort
  /\ UNCHANGED readVars

-----------------------------------------------------------------------------
(* The projector: one process, one message at a time *)

StatusOf(event) == IF event = "submitted" THEN "PENDING" ELSE event

(* The inbox row and the unconditional upsert of the view are one transaction. *)
Project(t) ==
  LET event == Head(feed[t]) IN
  /\ pjob = NoTask /\ feed[t] # <<>>
  /\ \/ /\ <<t, event>> \notin applied
        /\ applied' = applied \cup {<<t, event>>}
        /\ view' = [view EXCEPT ![t] = StatusOf(event)]
        /\ pjob' = t
        /\ UNCHANGED feed
     \/ /\ <<t, event>> \in applied
        /\ feed' = [feed EXCEPT ![t] = Tail(@)]
        /\ UNCHANGED <<applied, view, pjob>>
  /\ UNCHANGED <<vars, cache, pollVars>>

(* The write of the event's status to Redis, then the acknowledgement. *)
ProjectCached ==
  /\ pjob # NoTask
  /\ CacheStatus(pjob, StatusOf(Head(feed[pjob])))
  /\ feed' = [feed EXCEPT ![pjob] = Tail(@)]
  /\ pjob' = NoTask
  /\ UNCHANGED <<vars, view, applied, pollVars>>

(* An error or a crash after the commit: the message goes back to the head   *)
(* of the queue, and the inbox will skip it.                                 *)
ProjectAbort ==
  /\ pjob # NoTask
  /\ pjob' = NoTask
  /\ UNCHANGED <<vars, view, cache, feed, applied, pollVars>>

(* redis_task_state_ttl_seconds, or the watchdog's clean-up of ended tasks. *)
CacheExpire(t) ==
  /\ cache[t] # "none"
  /\ CacheStatus(t, "none")
  /\ UNCHANGED <<vars, view, projVars, pollVars>>

-----------------------------------------------------------------------------
(* GET /v1/poll: the cache, else the view, else the command *)

Answer(t, st) ==
  /\ poll' = [poll EXCEPT ![t] = "idle"]
  /\ told' = [told EXCEPT ![t] = st]

PassOn(t, next) == poll' = [poll EXCEPT ![t] = next] /\ UNCHANGED told

PollCache(t) ==
  /\ poll[t] = "idle" /\ Known(t)
  /\ IF cache[t] \in {"none", "CANCELLED"} THEN PassOn(t, "view") ELSE Answer(t, cache[t])
  /\ UNCHANGED <<vars, view, cache, projVars>>

PollView(t) ==
  /\ poll[t] = "view"
  /\ IF view[t] = "none" THEN PassOn(t, "command") ELSE Answer(t, view[t])
  /\ UNCHANGED <<vars, view, cache, projVars>>

PollCommand(t) ==
  /\ poll[t] = "command"
  /\ Answer(t, status[t])
  /\ UNCHANGED <<vars, view, cache, projVars>>

-----------------------------------------------------------------------------
ReadNext ==
  \/ CommandOnly
  \/ \E r \in Reqs : SubmitCached(r)
  \/ \E t \in Tasks : InlineViewed(t) \/ PublishFed(t)
  \/ \E c \in Cancels : CancelCached(c)
  \/ \E w \in Workers : WorkCached(w)
  \/ WatchCached \/ ProjectCached \/ ProjectAbort
  \/ \E t \in Tasks : Project(t) \/ CacheExpire(t)
  \/ \E t \in Tasks : PollCache(t) \/ PollView(t) \/ PollCommand(t)

ReadSpec == ReadInit /\ [][ReadNext]_allVars

(* Time passes, and the watchdog, the relay and the projector loop for ever. *)
(* Nothing is assumed of workers and requests, which can end at any step.    *)
Fairness ==
  /\ \A t \in Tasks : /\ WF_allVars(Overdue(t) /\ UNCHANGED readVars)
                      /\ WF_allVars(WatchExpire(t) /\ UNCHANGED readVars)
                      /\ WF_allVars(PublishFed(t))
                      /\ WF_allVars(Project(t))
  /\ WF_allVars(WatchCached) /\ WF_allVars(ProjectCached)

FairSpec == ReadSpec /\ Fairness

-----------------------------------------------------------------------------
(* Properties *)

(* A poll reports an outcome only of a task that has it: neither the cache   *)
(* nor the view is ahead of the command table.                               *)
OutcomesAreTrue == \A t \in Tasks : told[t] \in Terminal => told[t] = status[t]

(* The view of an ended task stays: although the projector upserts whatever  *)
(* event it gets, no republished or redelivered event takes it back.         *)
ViewKeepsOutcome == [][\A t \in Tasks : view[t] \in Terminal => view'[t] = view[t]]_allVars

(* The view learns every outcome, as long as the relay has its connection.   *)
ViewCatchesUp ==
  \A t \in Tasks : status[t] \in Terminal ~> view[t] = status[t] \/ ~linked

(* Credits are never locked for ever, whatever the relay and the workers do. *)
HoldsSettle == Billing!HoldsSettle

(* "Every outbox row is published to RabbitMQ at least once (relay retries   *)
(* unpublished)".                                                            *)
EventsArePublished ==
  \A t \in Tasks : published[t] < Len(events[t]) ~> published[t] = Len(events[t])

(* "status only moves forward": once a poll has answered an outcome, no      *)
(* later poll answers anything else.                                         *)
PollsMoveForward ==
  [][\A t \in Tasks : told[t] \in Terminal => told'[t] = told[t]]_allVars

=============================================================================

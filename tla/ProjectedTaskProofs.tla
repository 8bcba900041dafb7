------------------------- MODULE ProjectedTaskProofs --------------------------
(***************************************************************************)
(* Proofs about ProjectedTask: it implements ReservedTask, so what is      *)
(* proved of the command side holds with the read side beside it, and no   *)
(* poll, cache entry or view row reports an outcome but the task's.        *)
(*                                                                         *)
(* The view keeps an outcome because the projector hears of the submission *)
(* of a queued task before anything else, and applies it once (Ordered).   *)
(***************************************************************************)
EXTENDS ProjectedTask, ReservedTaskProofs

-----------------------------------------------------------------------------
(* The read side only watches *)

LEMMA ReadStep ==
  ASSUME [ReadNext]_allVars
  PROVE  [Next]_vars
<1>1. CASE CommandOnly
  BY <1>1 DEF CommandOnly, Next, Inline, Work
<1>2. CASE \/ \E r \in Reqs : SubmitCached(r)
           \/ \E t \in Tasks : InlineViewed(t) \/ PublishFed(t)
           \/ \E c \in Cancels : CancelCached(c)
           \/ \E w \in Workers : WorkCached(w)
           \/ WatchCached
  BY <1>2 DEF SubmitCached, InlineViewed, PublishFed, CancelCached, WorkCached, WatchCached,
    Next, Inline, Work
<1>3. CASE \/ ProjectCached \/ ProjectAbort
           \/ \E t \in Tasks : Project(t) \/ CacheExpire(t)
           \/ \E t \in Tasks : PollCache(t) \/ PollView(t) \/ PollCommand(t)
           \/ UNCHANGED allVars
  BY <1>3 DEF ProjectCached, ProjectAbort, Project, CacheExpire, PollCache, PollView, PollCommand, allVars
<1> QED  BY <1>1, <1>2, <1>3 DEF ReadNext

(* What is proved of Spec is a fact about ReadSpec.                          *)
THEOREM ReadImplementsCommand == ReadSpec => Spec
<1>1. ReadInit => Init
  BY DEF ReadInit
<1> QED  BY <1>1, ReadStep, PTL DEF ReadSpec, Spec

-----------------------------------------------------------------------------
(* Writers of the cache know what they write *)

Knows ==
  /\ wdog \in Tasks => status[wdog] = "TIMEOUT"
  /\ \A c \in Cancels : cpc[c] = "sync" => status[CancelOf[c]] = "CANCELLED"

LEMMA KnowsNext ==
  ASSUME Safe, Knows, [Next]_vars
  PROVE  Knows'
<1> USE DEF Knows
<1>1. \A t \in Tasks : status[t] \in Terminal => status'[t] = status[t]
  BY NextEffect, StatusSteps DEF Safe, RestTypes
<1>2. CancelOf \in [Cancels -> Tasks] /\ NoTask \notin Tasks
  BY ConstantsOK DEF ConstantsOK
<1>3. status \in [Tasks -> Statuses]
  BY DEF Safe, RowsAndMoney
<1>4. cpc \in [Cancels -> {"idle", "cancelled", "ended"} \cup CancelSteps]
  BY DEF Safe, RestTypes
<1>5. ASSUME UNCHANGED <<cpc, wdog>> PROVE Knows'
  BY <1>1, <1>2, <1>5 DEF Terminal
<1>6. ASSUME NEW r \in Reqs, Admit(r) \/ AdmitError(r) \/ SubmitCache(r) \/ RequestAbort(r)
      PROVE  UNCHANGED <<cpc, wdog>>
  BY <1>6 DEF Admit, AdmitError, SubmitCache, RequestAbort, GoRequest
<1>7. ASSUME NEW t \in Tasks, Inline(t) \/ SyncFinishError(t)
      PROVE  UNCHANGED <<cpc, wdog>>
  BY <1>7 DEF Inline, SyncMark, SyncFinish, SyncFail, SyncFinishError, GoRequest
<1>8. ASSUME NEW a \in Adjusts, Adjust(a) PROVE UNCHANGED <<cpc, wdog>>
  BY <1>8 DEF Adjust
<1>9. ASSUME NEW w \in Workers, Work(w) \/ WorkDrop(w) PROVE UNCHANGED <<cpc, wdog>>
  BY <1>9 DEF Work, WorkTake, WorkMark, WorkSucceed, WorkFail, Persist, WorkCache, WorkDrop,
    reqVars
<1>10. ASSUME NEW t \in Tasks, Publish(t) \/ Overdue(t) PROVE UNCHANGED <<cpc, wdog>>
  BY <1>10 DEF Publish, Overdue, reqVars
<1>11. CASE Unlink \/ UNCHANGED vars
  BY <1>5, <1>11 DEF Unlink, vars, reqVars
<1>12. ASSUME NEW t \in Tasks, WatchExpire(t) PROVE Knows'
  <2>1. wdog' = t /\ status'[t] = "TIMEOUT" /\ UNCHANGED cpc
    BY <1>3, <1>12 DEF WatchExpire, SetStatus, reqVars
  <2> QED  BY <1>1, <1>2, <2>1 DEF Terminal
<1>13. CASE WatchCache \/ WatchAbort
  BY <1>1, <1>2, <1>13 DEF WatchCache, WatchAbort, reqVars, Terminal
<1>14. ASSUME NEW c \in Cancels,
              CancelRead(c) \/ CancelTransact(c) \/ CancelSync(c) \/ CancelAbort(c)
       PROVE  Knows'
  <2>1. UNCHANGED wdog
    BY <1>14 DEF CancelRead, CancelTransact, CancelSync, CancelAbort
  <2>2. \A d \in Cancels : d # c => cpc'[d] = cpc[d]
    BY <1>4, <1>14 DEF CancelRead, CancelTransact, CancelSync, CancelAbort, GoCancel
  <2>3. cpc'[c] = "sync" => status'[CancelOf[c]] = "CANCELLED"
    <3>1. CASE CancelRead(c)
      BY <1>4, <3>1 DEF CancelRead, GoCancel, taskVars
    <3>2. CASE CancelTransact(c)
      BY <1>2, <1>3, <1>4, <3>2 DEF CancelTransact, GoCancel, SetStatus, taskVars
    <3>3. CASE CancelSync(c) \/ CancelAbort(c)
      BY <1>4, <3>3 DEF CancelSync, CancelAbort, GoCancel
    <3> QED  BY <1>14, <3>1, <3>2, <3>3
  <2> QED  BY <1>1, <1>2, <2>1, <2>2, <2>3 DEF Terminal
<1> QED  BY <1>5, <1>6, <1>7, <1>8, <1>9, <1>10, <1>11, <1>12, <1>13, <1>14 DEF Next

-----------------------------------------------------------------------------
(* No copy of a status is ahead of the command table *)

Fits(t, st) == st \in Terminal => st = status[t]

Copies(t) ==
  /\ Fits(t, view[t]) /\ Fits(t, cache[t]) /\ Fits(t, told[t])
  /\ \A i \in 1 .. Len(feed[t]) : Fits(t, feed[t][i])

ReadSafe ==
  /\ ReadTypeOK
  /\ pjob \in Tasks => feed[pjob] # <<>>
  /\ \A t \in Tasks : Copies(t)

(* Terminal statuses are final, so what fits a task still fits it later.     *)
LEMMA FitsStays ==
  ASSUME Safe, [Next]_vars, NEW t \in Tasks, NEW st, Fits(t, st)
  PROVE  Fits(t, st)'
BY NextEffect, StatusSteps DEF Safe, RestTypes, Fits

(* An event reports what its task has ended in. *)
LEMMA EventFits ==
  ASSUME Safe, Story, NEW t \in Tasks, published[t] < Len(events[t])
  PROVE  /\ Fits(t, events[t][published[t] + 1])
         /\ events[t][published[t] + 1] \in Events
<1> DEFINE i == published[t] + 1
           e == events[t]
<1>1. published[t] \in Nat /\ e \in Seq(Events) /\ status[t] \in Statuses
  BY DEF Safe, RowsAndMoney, RestTypes
<1>2. i \in 1 .. Len(e) /\ e[i] \in Events
  BY <1>1
<1>3. CASE status[t] \notin Terminal
  <2>1. e = <<>> \/ e = <<"submitted">>
    BY <1>1, <1>3 DEF Story, EventsOf, Statuses
  <2>2. e[i] = "submitted"
    BY <1>2, <2>1
  <2> QED  BY <1>2, <2>2 DEF Fits, Terminal
<1>4. CASE status[t] \in Terminal
  <2> DEFINE st == status[t]
  <2>1. e = <<>> \/ e = Append(<<>>, st) \/ e = Append(<<"submitted">>, st)
    BY <1>4 DEF Story, EventsOf
  <2>2. \A j \in 1 .. Len(Append(<<>>, st)) : Append(<<>>, st)[j] = st
    OBVIOUS
  <2>3. \A j \in 1 .. Len(Append(<<"submitted">>, st)) :
          Append(<<"submitted">>, st)[j] \in {st, "submitted"}
    OBVIOUS
  <2>4. e[i] \in {st, "submitted"}
    <3>1. CASE e = <<>>
      BY <1>2, <3>1
    <3>2. CASE e = Append(<<>>, st)
      BY <1>2, <2>2, <3>2
    <3>3. CASE e = Append(<<"submitted">>, st)
      BY <1>2, <2>3, <3>3
    <3> QED  BY <2>1, <3>1, <3>2, <3>3
  <2> HIDE DEF e, i
  <2> QED  BY <1>2, <2>4 DEF Fits, Terminal, e, i
<1> QED  BY <1>3, <1>4

(* A write of a fitting status to the view, the cache or the answer. *)
LEMMA CopyWritten ==
  ASSUME Safe, [Next]_vars, ReadSafe, NEW t \in Tasks, NEW st \in Statuses, Fits(t, st)',
         \/ view' = [view EXCEPT ![t] = st] /\ UNCHANGED <<cache, told>>
         \/ cache' = [cache EXCEPT ![t] = st] /\ UNCHANGED <<view, told>>
         \/ told' = [told EXCEPT ![t] = st] /\ UNCHANGED <<view, cache>>
  PROVE  /\ view' \in [Tasks -> Statuses] /\ cache' \in [Tasks -> Statuses]
         /\ told' \in [Tasks -> Statuses]
         /\ \A s \in Tasks : Fits(s, view[s])' /\ Fits(s, cache[s])' /\ Fits(s, told[s])'
<1> USE DEF ReadSafe, ReadTypeOK
<1>1. view' \in [Tasks -> Statuses] /\ cache' \in [Tasks -> Statuses] /\ told' \in [Tasks -> Statuses]
  OBVIOUS
<1>2. ASSUME NEW s \in Tasks PROVE Fits(s, view[s])' /\ Fits(s, cache[s])' /\ Fits(s, told[s])'
  <2>1. Fits(s, view[s]) /\ Fits(s, cache[s]) /\ Fits(s, told[s])
    BY DEF Copies
  <2>2. /\ view[s] \in Terminal => view[s] = status'[s]
        /\ cache[s] \in Terminal => cache[s] = status'[s]
        /\ told[s] \in Terminal => told[s] = status'[s]
    BY <2>1, FitsStays DEF Fits
  <2> QED  BY <2>2 DEF Fits
<1> QED  BY <1>1, <1>2

FeedFits(t) == \A i \in 1 .. Len(feed[t]) : Fits(t, feed[t][i])

LEMMA FeedKept ==
  ASSUME Safe, [Next]_vars, ReadSafe, NEW t \in Tasks, feed'[t] = feed[t]
  PROVE  FeedFits(t)'
<1> SUFFICES ASSUME NEW i \in 1 .. Len(feed[t]) PROVE Fits(t, feed[t][i])'
  BY DEF FeedFits
<1>1. Fits(t, feed[t][i])
  BY DEF ReadSafe, Copies
<1>2. feed[t][i] \in Terminal => feed[t][i] = status'[t]
  BY <1>1, FitsStays DEF Fits
<1> QED  BY <1>2 DEF Fits

LEMMA FeedShortened ==
  ASSUME Safe, [Next]_vars, ReadSafe, NEW t \in Tasks, feed[t] # <<>>,
         feed' = [feed EXCEPT ![t] = Tail(@)]
  PROVE  feed' \in [Tasks -> Seq(Events)] /\ \A s \in Tasks : FeedFits(s)'
<1>1. feed \in [Tasks -> Seq(Events)]
  BY DEF ReadSafe, ReadTypeOK
<1>2. /\ Tail(feed[t]) \in Seq(Events) /\ Len(Tail(feed[t])) = Len(feed[t]) - 1
      /\ Len(feed[t]) \in Nat
      /\ \A i \in 1 .. Len(feed[t]) - 1 : Tail(feed[t])[i] = feed[t][i + 1]
  BY <1>1
<1>3. ASSUME NEW i \in 1 .. Len(feed'[t]) PROVE Fits(t, feed[t][i])'
  <2>1. i + 1 \in 1 .. Len(feed[t]) /\ feed'[t][i] = feed[t][i + 1]
    BY <1>1, <1>2
  <2>2. Fits(t, feed[t][i + 1])
    BY <2>1 DEF ReadSafe, Copies
  <2>3. feed[t][i + 1] \in Terminal => feed[t][i + 1] = status'[t]
    BY <2>2, FitsStays DEF Fits
  <2> QED  BY <2>1, <2>3 DEF Fits
<1>4. \A s \in Tasks : s # t => feed'[s] = feed[s]
  BY <1>1
<1> QED  BY <1>1, <1>2, <1>3, <1>4, FeedKept DEF FeedFits

LEMMA FeedExtended ==
  ASSUME Safe, [Next]_vars, ReadSafe, NEW t \in Tasks, NEW e \in Events, Fits(t, e),
         feed' = [feed EXCEPT ![t] = Append(@, e)]
  PROVE  feed' \in [Tasks -> Seq(Events)] /\ \A s \in Tasks : FeedFits(s)'
<1>1. feed \in [Tasks -> Seq(Events)]
  BY DEF ReadSafe, ReadTypeOK
<1>2. /\ Append(feed[t], e) \in Seq(Events) /\ Len(Append(feed[t], e)) = Len(feed[t]) + 1
      /\ Len(feed[t]) \in Nat
      /\ \A i \in 1 .. Len(feed[t]) : Append(feed[t], e)[i] = feed[t][i]
      /\ Append(feed[t], e)[Len(feed[t]) + 1] = e
  BY <1>1
<1>3. feed'[t] = Append(feed[t], e)
  BY <1>1
<1>4. ASSUME NEW i \in 1 .. Len(feed'[t]) PROVE Fits(t, feed[t][i])'
  <2>1. CASE i \in 1 .. Len(feed[t])
    <3>1. Fits(t, feed[t][i]) /\ feed'[t][i] = feed[t][i]
      BY <1>2, <1>3, <2>1 DEF ReadSafe, Copies
    <3>2. feed[t][i] \in Terminal => feed[t][i] = status'[t]
      BY <3>1, FitsStays DEF Fits
    <3> QED  BY <3>1, <3>2 DEF Fits
  <2>2. CASE i = Len(feed[t]) + 1
    <3>1. feed'[t][i] = e
      BY <1>2, <1>3, <2>2
    <3>2. e \in Terminal => e = status'[t]
      BY FitsStays DEF Fits
    <3> QED  BY <3>1, <3>2 DEF Fits
  <2> QED  BY <1>2, <1>3, <2>1, <2>2
<1>5. \A s \in Tasks : s # t => feed'[s] = feed[s]
  BY <1>1
<1> QED  BY <1>1, <1>2, <1>4, <1>5, FeedKept DEF FeedFits

(* The step leaves the projector's queue alone.                              *)
LEMMA AllFeedsKept ==
  ASSUME Safe, [Next]_vars, ReadSafe, feed' = feed
  PROVE  feed' \in [Tasks -> Seq(Events)] /\ \A s \in Tasks : FeedFits(s)'
BY FeedKept DEF ReadSafe, ReadTypeOK

(* The step leaves the view, the cache and the answers alone. *)
LEMMA CopiesKept ==
  ASSUME Safe, [Next]_vars, ReadSafe, UNCHANGED <<view, cache, told>>
  PROVE  /\ view' \in [Tasks -> Statuses] /\ cache' \in [Tasks -> Statuses]
         /\ told' \in [Tasks -> Statuses]
         /\ \A s \in Tasks : Fits(s, view[s])' /\ Fits(s, cache[s])' /\ Fits(s, told[s])'
<1>1. ASSUME NEW s \in Tasks PROVE Fits(s, view[s])' /\ Fits(s, cache[s])' /\ Fits(s, told[s])'
  <2>1. Fits(s, view[s]) /\ Fits(s, cache[s]) /\ Fits(s, told[s])
    BY DEF ReadSafe, Copies
  <2>2. /\ view[s] \in Terminal => view[s] = status'[s]
        /\ cache[s] \in Terminal => cache[s] = status'[s]
        /\ told[s] \in Terminal => told[s] = status'[s]
    BY <2>1, FitsStays DEF Fits
  <2> QED  BY <2>2 DEF Fits
<1> QED  BY <1>1 DEF ReadSafe, ReadTypeOK

CopiesOK ==
  /\ view \in [Tasks -> Statuses] /\ cache \in [Tasks -> Statuses]
  /\ told \in [Tasks -> Statuses]
  /\ \A s \in Tasks : Fits(s, view[s]) /\ Fits(s, cache[s]) /\ Fits(s, told[s])

FeedsOK == feed \in [Tasks -> Seq(Events)] /\ \A s \in Tasks : FeedFits(s)

JobOK ==
  /\ applied \subseteq Tasks \X Events
  /\ pjob \in Tasks \cup {NoTask}
  /\ poll \in [Tasks -> {"idle", "view", "command"}]
  /\ pjob \in Tasks => feed[pjob] # <<>>

(* One step of the command side that writes the cache or the view. *)
LEMMA WritersFit ==
  ASSUME Safe, Knows, ReadSafe, [Next]_vars,
         \/ \E t \in Tasks : InlineViewed(t)
         \/ \E c \in Cancels : CancelCached(c)
         \/ \E w \in Workers : WorkCached(w)
         \/ WatchCached
  PROVE  CopiesOK'
<1> USE DEF CopiesOK
<1>0. status \in [Tasks -> Statuses] /\ status' \in [Tasks -> Statuses]
  BY NextSafe DEF Safe, RowsAndMoney
<1>1. ASSUME NEW t \in Tasks, NEW st \in Statuses, Fits(t, st), CacheStatus(t, st),
             UNCHANGED <<view, told>>
      PROVE  CopiesOK'
  <2>1. Fits(t, st)'
    BY <1>1, FitsStays
  <2> QED  BY <1>1, <2>1, CopyWritten DEF CacheStatus
<1>2. ASSUME NEW t \in Tasks, InlineViewed(t) PROVE CopiesOK'
  <2>1. CASE status' = status
    BY <1>2, <2>1, CopiesKept DEF InlineViewed, pollVars
  <2>2. CASE status' # status
    <3>1. view' = [view EXCEPT ![t] = status'[t]] /\ UNCHANGED <<cache, told>>
      BY <1>2, <2>2 DEF InlineViewed, pollVars
    <3>2. PICK st \in Statuses : st = status'[t]
      BY <1>0
    <3>3. Fits(t, st)'
      BY <3>2 DEF Fits
    <3> QED  BY <3>1, <3>2, <3>3, CopyWritten
  <2> QED  BY <2>1, <2>2
<1>3. ASSUME NEW c \in Cancels, CancelCached(c) PROVE CopiesOK'
  <2>1. CancelOf[c] \in Tasks /\ status[CancelOf[c]] = "CANCELLED"
    BY <1>3, ConstantsOK DEF ConstantsOK, CancelCached, CancelSync, Knows
  <2> QED  BY <1>1, <1>3, <2>1 DEF CancelCached, pollVars, Fits, Statuses, Terminal
<1>4. ASSUME NEW w \in Workers, WorkCached(w) PROVE CopiesOK'
  <2>1. job[w] \in Tasks /\ status[job[w]] \in Statuses
    BY <1>0, <1>4 DEF WorkCached, WorkCache, Safe, Busy
  <2> QED  BY <1>1, <1>4, <2>1 DEF WorkCached, pollVars, Fits
<1>5. CASE WatchCached
  <2>1. wdog \in Tasks /\ status[wdog] = "TIMEOUT"
    BY <1>5 DEF WatchCached, WatchCache, Knows, Safe, RestTypes
  <2> QED  BY <1>1, <1>5, <2>1 DEF WatchCached, pollVars, Fits, Statuses, Terminal
<1> QED  BY <1>2, <1>3, <1>4, <1>5

(* The answer to a submission caches PENDING, or how the inline task ended. *)
LEMMA SubmitFits ==
  ASSUME Safe, ReadSafe, [Next]_vars, NEW r \in Reqs, SubmitCached(r)
  PROVE  CopiesOK'
<1>1. UNCHANGED status /\ status \in [Tasks -> Statuses]
  BY DEF SubmitCached, SubmitCache, taskVars, Safe, RowsAndMoney
<1>2. /\ cache' \in [Tasks -> Statuses]
      /\ \A t \in Tasks : Fits(t, cache[t])'
  BY <1>1 DEF SubmitCached, Fits, ReadSafe, ReadTypeOK, Copies, Statuses, Cancellable, Terminal
<1> QED  BY <1>1, <1>2 DEF SubmitCached, pollVars, CopiesOK, ReadSafe, ReadTypeOK, Copies, Fits

(* The projector and the polls only hand on what they have read. *)
LEMMA ReadersFit ==
  ASSUME Safe, ReadSafe, [Next]_vars,
         \/ ProjectCached
         \/ \E t \in Tasks : \/ Project(t) \/ CacheExpire(t)
                             \/ PollCache(t) \/ PollView(t) \/ PollCommand(t)
  PROVE  CopiesOK'
<1> USE DEF CopiesOK
<1>1. ASSUME NEW t \in Tasks, feed[t] # <<>>
      PROVE  \E st \in Statuses : st = StatusOf(Head(feed[t])) /\ Fits(t, st)
  <2>1. feed[t] \in Seq(Events)
    BY DEF ReadSafe, ReadTypeOK
  <2>2. 1 \in 1 .. Len(feed[t]) /\ Head(feed[t]) = feed[t][1] /\ Head(feed[t]) \in Events
    BY <1>1, <2>1
  <2>3. Fits(t, Head(feed[t]))
    BY <2>2 DEF ReadSafe, Copies
  <2>4. Fits(t, StatusOf(Head(feed[t]))) /\ StatusOf(Head(feed[t])) \in Statuses
    BY <2>2, <2>3 DEF Fits, StatusOf, Events, Statuses, Cancellable, Terminal
  <2> QED  BY <2>4
<1>2. ASSUME NEW t \in Tasks, NEW st \in Statuses, Fits(t, st),
             \/ view' = [view EXCEPT ![t] = st] /\ UNCHANGED <<cache, told>>
             \/ cache' = [cache EXCEPT ![t] = st] /\ UNCHANGED <<view, told>>
             \/ told' = [told EXCEPT ![t] = st] /\ UNCHANGED <<view, cache>>
      PROVE  CopiesOK'
  <2>1. Fits(t, st)'
    BY <1>2, FitsStays
  <2> QED  BY <1>2, <2>1, CopyWritten
<1>3. CASE ProjectCached
  <2>1. pjob \in Tasks /\ feed[pjob] # <<>>
    BY <1>3 DEF ProjectCached, ReadSafe, ReadTypeOK
  <2> QED  BY <1>1, <1>2, <1>3, <2>1 DEF ProjectCached, CacheStatus, pollVars
<1>4. ASSUME NEW t \in Tasks, Project(t) PROVE CopiesOK'
  <2>1. CASE UNCHANGED view
    BY <1>4, <2>1, CopiesKept DEF Project, pollVars
  <2>2. CASE view' = [view EXCEPT ![t] = StatusOf(Head(feed[t]))]
    BY <1>1, <1>2, <1>4, <2>2 DEF Project, pollVars
  <2> QED  BY <1>4, <2>1, <2>2 DEF Project
<1>5. ASSUME NEW t \in Tasks, CacheExpire(t) PROVE CopiesOK'
  <2>1. "none" \in Statuses /\ Fits(t, "none")
    BY DEF Statuses, Fits, Terminal
  <2> QED  BY <1>2, <1>5, <2>1 DEF CacheExpire, CacheStatus, pollVars
<1>6. ASSUME NEW t \in Tasks, NEW st \in Statuses, Fits(t, st), Answer(t, st),
             UNCHANGED <<view, cache>>
      PROVE  CopiesOK'
  BY <1>2, <1>6 DEF Answer
<1>7. ASSUME NEW t \in Tasks, PollCache(t) \/ PollView(t) \/ PollCommand(t) PROVE CopiesOK'
  <2>1. /\ cache[t] \in Statuses /\ Fits(t, cache[t])
        /\ view[t] \in Statuses /\ Fits(t, view[t])
        /\ status[t] \in Statuses /\ Fits(t, status[t])
    BY DEF ReadSafe, ReadTypeOK, Copies, Safe, RowsAndMoney, Fits
  <2>2. UNCHANGED <<view, cache>>
    BY <1>7 DEF PollCache, PollView, PollCommand
  <2>3. CASE UNCHANGED told
    BY <2>2, <2>3, CopiesKept
  <2>4. CASE Answer(t, cache[t]) \/ Answer(t, view[t]) \/ Answer(t, status[t])
    BY <1>6, <2>1, <2>2, <2>4
  <2> QED  BY <1>7, <2>3, <2>4 DEF PollCache, PollView, PollCommand, PassOn
<1> QED  BY <1>3, <1>4, <1>5, <1>7

LEMMA FeedsNext ==
  ASSUME Safe, Story, ReadSafe, [ReadNext]_allVars
  PROVE  FeedsOK'
<1> USE DEF FeedsOK
<1>1. [Next]_vars
  BY ReadStep
<1>2. CASE feed' = feed
  BY <1>1, <1>2, AllFeedsKept
<1>3. ASSUME NEW t \in Tasks, PublishFed(t) PROVE FeedsOK'
  <2>1. PICK e \in Events : e = events[t][published[t] + 1] /\ Fits(t, e)
    BY <1>3, EventFits DEF PublishFed, Publish
  <2> QED  BY <1>1, <1>3, <2>1, FeedExtended DEF PublishFed
<1>4. ASSUME NEW t \in Tasks, Project(t), feed' # feed PROVE FeedsOK'
  BY <1>1, <1>4, FeedShortened DEF Project
<1>5. CASE ProjectCached
  <2>1. pjob \in Tasks /\ feed[pjob] # <<>>
    BY <1>5 DEF ProjectCached, ReadSafe, ReadTypeOK
  <2> QED  BY <1>1, <1>5, <2>1, FeedShortened DEF ProjectCached
<1>6. CASE \/ \E r \in Reqs : SubmitCached(r)
           \/ \E t \in Tasks : \/ InlineViewed(t) \/ CacheExpire(t)
                               \/ PollCache(t) \/ PollView(t) \/ PollCommand(t)
           \/ \E c \in Cancels : CancelCached(c)
           \/ \E w \in Workers : WorkCached(w)
           \/ CommandOnly \/ WatchCached \/ ProjectAbort \/ UNCHANGED allVars
  <2>1. feed' = feed
    BY <1>6 DEF SubmitCached, InlineViewed, CacheExpire, PollCache, PollView, PollCommand,
      CancelCached, WorkCached, CommandOnly, WatchCached, ProjectAbort, allVars, readVars,
      projVars
  <2> QED  BY <2>1, <1>2
<1> QED  BY <1>2, <1>3, <1>4, <1>5, <1>6 DEF ReadNext

LEMMA JobNext ==
  ASSUME Safe, Story, ReadSafe, [ReadNext]_allVars
  PROVE  JobOK'
<1> USE DEF JobOK
<1>1. JobOK /\ feed \in [Tasks -> Seq(Events)] /\ NoTask \notin Tasks
  BY ConstantsOK DEF ConstantsOK, ReadSafe, ReadTypeOK
<1>2. CASE UNCHANGED <<feed, applied, pjob, poll>>
  BY <1>1, <1>2
<1>3. CASE \/ \E r \in Reqs : SubmitCached(r)
           \/ \E t \in Tasks : InlineViewed(t) \/ CacheExpire(t)
           \/ \E c \in Cancels : CancelCached(c)
           \/ \E w \in Workers : WorkCached(w)
           \/ CommandOnly \/ WatchCached \/ UNCHANGED allVars
  <2>1. UNCHANGED <<feed, applied, pjob, poll>>
    BY <1>3 DEF SubmitCached, InlineViewed, CacheExpire, CancelCached, WorkCached, CommandOnly,
      WatchCached, allVars, readVars, projVars, pollVars
  <2> QED  BY <2>1, <1>2
<1>4. ASSUME NEW t \in Tasks, PublishFed(t) PROVE JobOK'
  <2>1. PICK e \in Events : feed' = [feed EXCEPT ![t] = Append(@, e)]
    BY <1>4, EventFits DEF PublishFed, Publish
  <2>2. Append(feed[t], e) # <<>>
    <3>1. feed[t] \in Seq(Events)
      BY <1>1
    <3>2. Len(Append(feed[t], e)) = Len(feed[t]) + 1 /\ Len(feed[t]) \in Nat /\ Len(<<>>) = 0
      BY <3>1
    <3> QED  BY <3>2
  <2>3. pjob \in Tasks => feed'[pjob] # <<>>
    BY <1>1, <2>1, <2>2
  <2> QED  BY <1>1, <1>4, <2>3 DEF PublishFed, pollVars
<1>5. ASSUME NEW t \in Tasks, Project(t) PROVE JobOK'
  <2>1. Head(feed[t]) \in Events
    BY <1>1, <1>5 DEF Project
  <2>2. pjob' \in Tasks => pjob' = t /\ feed' = feed
    BY <1>1, <1>5 DEF Project
  <2>3. applied' \subseteq Tasks \X Events
    BY <1>1, <1>5, <2>1 DEF Project
  <2> QED  BY <1>1, <1>5, <2>2, <2>3 DEF Project, pollVars
<1>6. CASE ProjectCached \/ ProjectAbort
  BY <1>1, <1>6 DEF ProjectCached, ProjectAbort, pollVars
<1>7. ASSUME NEW t \in Tasks, PollCache(t) \/ PollView(t) \/ PollCommand(t) PROVE JobOK'
  BY <1>1, <1>7 DEF PollCache, PollView, PollCommand, PassOn, Answer, projVars
<1> QED  BY <1>3, <1>4, <1>5, <1>6, <1>7 DEF ReadNext

LEMMA ReadSafeNext ==
  ASSUME Safe, Story, Knows, ReadSafe, [ReadNext]_allVars
  PROVE  ReadSafe'
<1>1. [Next]_vars
  BY ReadStep
<1>2. CopiesOK'
  <2>1. CASE UNCHANGED <<view, cache, told>>
    BY <1>1, <2>1, CopiesKept DEF CopiesOK
  <2>2. CASE \/ CommandOnly \/ ProjectAbort \/ UNCHANGED allVars
             \/ \E t \in Tasks : PublishFed(t)
    <3>1. UNCHANGED <<view, cache, told>>
      BY <2>2 DEF CommandOnly, ProjectAbort, PublishFed, allVars, readVars, pollVars
    <3> QED  BY <3>1, <2>1
  <2> QED  BY <1>1, <2>2, WritersFit, SubmitFits, ReadersFit DEF ReadNext
<1>3. FeedsOK' /\ JobOK'
  BY FeedsNext, JobNext
<1> QED  BY <1>2, <1>3 DEF ReadSafe, ReadTypeOK, Copies, FeedFits, CopiesOK, FeedsOK, JobOK

LEMMA ReadSafeInit == ReadInit => ReadSafe
<1> SUFFICES ASSUME ReadInit PROVE ReadSafe
  OBVIOUS
<1>1. ReadTypeOK
  <2>1. <<>> \in Seq(Events)
    OBVIOUS
  <2> QED  BY <2>1 DEF ReadInit, ReadTypeOK, Statuses
<1>2. Len(<<>>) = 0
  OBVIOUS
<1> QED  BY <1>1, <1>2, ConstantsOK DEF ConstantsOK, ReadInit, ReadSafe, Copies, Fits, Terminal

LEMMA AlwaysReadSafe == ReadSpec => []ReadSafe
<1>1. Init => Knows
  BY ConstantsOK DEF ConstantsOK, Init, Knows
<1>2. Safe /\ Knows /\ [Next]_vars => Knows'
  BY KnowsNext
<1>3. Safe /\ Story /\ Knows /\ ReadSafe /\ [ReadNext]_allVars => ReadSafe'
  BY ReadSafeNext
<1>4. Spec => []Knows
  BY <1>1, <1>2, AlwaysSafe, PTL DEF Spec
<1> QED  BY <1>3, <1>4, ReadSafeInit, ReadImplementsCommand, AlwaysSafe, StoryAlways, PTL
         DEF ReadSpec

(* The read side is well typed. *)
THEOREM ReadTypeCorrect == ReadSpec => []ReadTypeOK
<1>1. ReadSafe => ReadTypeOK
  BY DEF ReadSafe
<1> QED  BY <1>1, AlwaysReadSafe, PTL

(* No poll is ever told an outcome that the command table does not hold,     *)
(* however late the relay, the projector and the writers of the cache are.   *)
THEOREM OutcomesAlwaysTrue == ReadSpec => []OutcomesAreTrue
<1>1. ReadSafe => OutcomesAreTrue
  BY DEF ReadSafe, Copies, Fits, OutcomesAreTrue
<1> QED  BY <1>1, AlwaysReadSafe, PTL

-----------------------------------------------------------------------------
(* The order in which the projector learns of a task *)

Seen(t) == <<t, "submitted">> \in applied

(* Until the projector has applied the submission of a queued task, that     *)
(* submission is the first of what was published; an inline task has none.   *)
InOrder(t) ==
  /\ ReqOf[t] \in SyncReqs => \A i \in 1 .. Len(feed[t]) : feed[t][i] # "submitted"
  /\ ReqOf[t] \notin SyncReqs =>
       /\ published[t] > 0 => Seen(t) \/ feed[t] # <<>>
       /\ feed[t] # <<>> => Seen(t) \/ Head(feed[t]) = "submitted"
       /\ view[t] \in Terminal => Seen(t)

Ordered ==
  /\ pjob \in Tasks => <<pjob, Head(feed[pjob])>> \in applied
  /\ \A t \in Tasks : InOrder(t)

LEMMA InlineEvent ==
  ASSUME Safe, Story, NEW t \in Tasks, ReqOf[t] \in SyncReqs, published[t] < Len(events[t])
  PROVE  events[t][published[t] + 1] # "submitted"
<1> DEFINE st == status[t]
<1>1. published[t] \in Nat /\ status[t] \in Statuses /\ Len(<<>>) = 0
  BY DEF Safe, RowsAndMoney, RestTypes
<1>2. events[t] = <<>> \/ (st \in Terminal /\ events[t] = Append(<<>>, st))
  BY <1>1 DEF Story, EventsOf, Statuses
<1>3. \A j \in 1 .. Len(Append(<<>>, st)) : Append(<<>>, st)[j] = st
  OBVIOUS
<1>4. published[t] + 1 \in 1 .. Len(events[t])
  <2>1. Len(events[t]) \in Nat
    BY DEF Safe, RestTypes
  <2> QED  BY <1>1, <2>1
<1>5. events[t] # <<>>
  BY <1>1, <1>4
<1>6. events[t][published[t] + 1] = st /\ st \in Terminal
  BY <1>2, <1>3, <1>4, <1>5
<1> QED  BY <1>6 DEF Terminal

(* A step that leaves what the projector has and knows of a task alone. *)
LEMMA OrderKept ==
  ASSUME NEW t \in Tasks, InOrder(t), feed'[t] = feed[t], applied \subseteq applied',
         ReqOf[t] \in SyncReqs \/ (published'[t] = published[t] /\ view'[t] = view[t])
  PROVE  InOrder(t)'
BY DEF InOrder, Seen

LEMMA PublishOrdered ==
  ASSUME Safe, Story, ReadSafe, Ordered, NEW t \in Tasks, PublishFed(t)
  PROVE  Ordered'
<1> DEFINE e == events[t][published[t] + 1]
<1>1. /\ published[t] < Len(events[t]) /\ feed' = [feed EXCEPT ![t] = Append(@, e)]
      /\ \A s \in Tasks \ {t} : published'[s] = published[s]
      /\ UNCHANGED <<view, applied, pjob>>
      /\ feed \in [Tasks -> Seq(Events)] /\ published[t] \in Nat /\ e \in Events
  BY EventFits DEF PublishFed, Publish, Safe, RestTypes, ReadSafe, ReadTypeOK
<1>2. \A s \in Tasks \ {t} : feed'[s] = feed[s]
  BY <1>1
<1>3. /\ feed'[t] = Append(feed[t], e) /\ Len(Append(feed[t], e)) = Len(feed[t]) + 1
      /\ Len(feed[t]) \in Nat /\ Append(feed[t], e) # <<>>
      /\ \A i \in 1 .. Len(feed[t]) : Append(feed[t], e)[i] = feed[t][i]
      /\ Append(feed[t], e)[Len(feed[t]) + 1] = e
      /\ feed[t] # <<>> => Head(Append(feed[t], e)) = Head(feed[t])
      /\ feed[t] = <<>> => Head(Append(feed[t], e)) = e
  BY <1>1
<1>4. InOrder(t)'
  <2>1. InOrder(t)
    BY DEF Ordered
  <2>2. CASE ReqOf[t] \in SyncReqs
    <3>1. e # "submitted"
      BY <1>1, <2>2, InlineEvent
    <3>2. \A i \in 1 .. Len(feed'[t]) : feed'[t][i] # "submitted"
      <4> HIDE DEF e
      <4>1. ASSUME NEW i \in 1 .. Len(feed'[t])
            PROVE  i \in 1 .. Len(feed[t]) \/ i = Len(feed[t]) + 1
        BY <1>3
      <4> QED  BY <1>3, <2>1, <2>2, <3>1, <4>1 DEF InOrder
    <3> QED  BY <2>2, <3>2 DEF InOrder
  <2>3. CASE ReqOf[t] \notin SyncReqs
    <3>1. Seen(t) \/ Head(feed'[t]) = "submitted"
      <4>1. CASE feed[t] # <<>>
        BY <1>3, <2>1, <2>3, <4>1 DEF InOrder
      <4>2. CASE feed[t] = <<>> /\ ~Seen(t)
        <5>1. published[t] = 0
          BY <1>1, <2>1, <2>3, <4>2 DEF InOrder
        <5>2. e = "submitted"
          BY <1>1, <2>3, <5>1, FirstEvent DEF Story
        <5> QED  BY <1>3, <4>2, <5>2
      <4> QED  BY <4>1, <4>2
    <3> QED  BY <1>1, <1>3, <2>1, <2>3, <3>1 DEF InOrder, Seen
  <2> QED  BY <2>2, <2>3
<1>5. \A s \in Tasks \ {t} : InOrder(s)'
  BY <1>1, <1>2, OrderKept DEF Ordered
<1>6. pjob' \in Tasks => <<pjob', Head(feed'[pjob'])>> \in applied'
  BY <1>1, <1>2, <1>3 DEF Ordered, ReadSafe
<1> QED  BY <1>4, <1>5, <1>6 DEF Ordered

(* The projector takes what it has applied from the head of the queue. *)
LEMMA TakenOrdered ==
  ASSUME ReadSafe, Ordered, NEW t \in Tasks, feed[t] # <<>>, <<t, Head(feed[t])>> \in applied,
         feed' = [feed EXCEPT ![t] = Tail(@)], pjob' \notin Tasks,
         UNCHANGED <<applied, view, published>>
  PROVE  Ordered'
<1>1. feed \in [Tasks -> Seq(Events)] /\ InOrder(t)
  BY DEF ReadSafe, ReadTypeOK, Ordered
<1>2. feed'[t] = Tail(feed[t]) /\ \A s \in Tasks \ {t} : feed'[s] = feed[s]
  BY <1>1
<1>3. /\ Len(feed[t]) \in Nat /\ Len(Tail(feed[t])) = Len(feed[t]) - 1
      /\ \A i \in 1 .. Len(Tail(feed[t])) : i + 1 \in 1 .. Len(feed[t]) /\ Tail(feed[t])[i] = feed[t][i + 1]
  BY <1>1
<1>4. InOrder(t)'
  <2>1. ReqOf[t] \notin SyncReqs => Seen(t)
    BY <1>1 DEF InOrder, Seen
  <2>2. ReqOf[t] \in SyncReqs => \A i \in 1 .. Len(feed'[t]) : feed'[t][i] # "submitted"
    BY <1>1, <1>2, <1>3 DEF InOrder
  <2> QED  BY <2>1, <2>2 DEF InOrder, Seen
<1>5. \A s \in Tasks \ {t} : InOrder(s)'
  BY <1>2, OrderKept DEF Ordered
<1> QED  BY <1>4, <1>5 DEF Ordered

LEMMA ProjectOrdered ==
  ASSUME ReadSafe, Ordered, NEW t \in Tasks, Project(t)
  PROVE  Ordered'
<1> DEFINE event == Head(feed[t])
<1>1. /\ feed[t] # <<>> /\ pjob = NoTask /\ NoTask \notin Tasks /\ UNCHANGED published
      /\ view \in [Tasks -> Statuses] /\ InOrder(t)
  BY ConstantsOK DEF Project, vars, relayVars, ReadSafe, ReadTypeOK, Ordered, ConstantsOK
<1>2. CASE <<t, event>> \in applied
  <2>1. feed' = [feed EXCEPT ![t] = Tail(@)] /\ UNCHANGED <<applied, view, pjob>>
    BY <1>2 DEF Project
  <2> QED  BY <1>1, <1>2, <2>1, TakenOrdered
<1>3. CASE <<t, event>> \notin applied
  <2>1. /\ applied' = applied \cup {<<t, event>>} /\ view' = [view EXCEPT ![t] = StatusOf(event)]
        /\ pjob' = t /\ UNCHANGED feed
    BY <1>3 DEF Project
  <2>2. InOrder(t)'
    <3>1. ReqOf[t] \notin SyncReqs => Seen(t) \/ event = "submitted"
      BY <1>1 DEF InOrder
    <3>2. ReqOf[t] \notin SyncReqs => Seen(t)'
      BY <2>1, <3>1 DEF Seen
    <3> QED  BY <1>1, <2>1, <3>2 DEF InOrder
  <2>3. \A s \in Tasks \ {t} : InOrder(s)'
    <3>1. \A s \in Tasks \ {t} : view'[s] = view[s]
      BY <1>1, <2>1
    <3> QED  BY <1>1, <2>1, <3>1, OrderKept DEF Ordered
  <2> QED  BY <2>1, <2>2, <2>3 DEF Ordered
<1> QED  BY <1>2, <1>3

(* An inline task is viewed as it ended, and has no other view to lose. *)
LEMMA ViewedInline ==
  ASSUME Safe, ReadSafe, NEW t \in Tasks, InlineViewed(t)
  PROVE  /\ ReqOf[t] \in SyncReqs /\ UNCHANGED <<feed, applied, pjob, published>>
         /\ \A s \in Tasks \ {t} : view'[s] = view[s]
<1>1. view \in [Tasks -> Statuses] /\ ReqOf[t] \in Reqs
  BY ConstantsOK DEF ConstantsOK, ReadSafe, ReadTypeOK
<1>2. rpc[ReqOf[t]] \in {"mark", "execute", "timeout", "fail"}
  BY DEF InlineViewed, SyncFinish, SyncFail, SyncFinishError
<1>3. UNCHANGED <<feed, applied, pjob, published>>
  BY DEF InlineViewed, SyncFinish, SyncFail, SyncFinishError, relayVars, projVars
<1>4. \A s \in Tasks \ {t} : view'[s] = view[s]
  BY <1>1 DEF InlineViewed
<1> QED  BY <1>1, <1>2, <1>3, <1>4 DEF Safe, Busy

LEMMA OrderedNext ==
  ASSUME Safe, Story, ReadSafe, Ordered, [ReadNext]_allVars
  PROVE  Ordered'
<1>1. ASSUME UNCHANGED <<feed, applied, published, view>>, pjob' = pjob \/ pjob' \notin Tasks
      PROVE  Ordered'
  BY <1>1, OrderKept DEF Ordered
<1>2. CASE CommandOnly \/ ProjectAbort \/ UNCHANGED allVars
  <2>1. UNCHANGED published
    BY <1>2 DEF CommandOnly, Admit, AdmitError, RequestAbort, SyncMark, Overdue, WatchExpire,
      CancelRead, CancelTransact, CancelAbort, Adjust, WorkTake, WorkMark, WorkSucceed, WorkFail,
      Persist, WorkDrop, Unlink, WatchAbort, ProjectAbort, relayVars, reqVars, vars, allVars
  <2>2. UNCHANGED <<feed, applied, view>> /\ (pjob' = pjob \/ pjob' \notin Tasks)
    BY <1>2, ConstantsOK
       DEF ConstantsOK, CommandOnly, ProjectAbort, readVars, projVars, allVars
  <2> QED  BY <1>1, <2>1, <2>2
<1>3. CASE \/ \E r \in Reqs : SubmitCached(r)
           \/ \E c \in Cancels : CancelCached(c)
           \/ \E w \in Workers : WorkCached(w)
           \/ WatchCached
  <2>1. UNCHANGED <<feed, applied, published, view, pjob>>
    BY <1>3 DEF SubmitCached, SubmitCache, CancelCached, CancelSync, WorkCached, WorkCache,
      WatchCached, WatchCache, relayVars, projVars
  <2> QED  BY <1>1, <2>1
<1>4. CASE \E t \in Tasks : CacheExpire(t) \/ PollCache(t) \/ PollView(t) \/ PollCommand(t)
  <2>1. UNCHANGED <<feed, applied, published, view, pjob>>
    BY <1>4 DEF CacheExpire, PollCache, PollView, PollCommand, vars, relayVars, projVars
  <2> QED  BY <1>1, <2>1
<1>5. ASSUME NEW t \in Tasks, InlineViewed(t) PROVE Ordered'
  <2>1. \A s \in Tasks : InOrder(s)'
    BY <1>5, ViewedInline, OrderKept DEF Ordered
  <2> QED  BY <1>5, <2>1, ViewedInline DEF Ordered
<1>6. CASE ProjectCached
  <2>1. /\ pjob \in Tasks /\ feed[pjob] # <<>> /\ <<pjob, Head(feed[pjob])>> \in applied
        /\ feed' = [feed EXCEPT ![pjob] = Tail(@)] /\ pjob' \notin Tasks
        /\ UNCHANGED <<applied, view, published>>
    BY <1>6, ConstantsOK
       DEF ConstantsOK, ProjectCached, ReadSafe, ReadTypeOK, Ordered, vars, relayVars
  <2> QED  BY <2>1, TakenOrdered
<1> QED  BY <1>2, <1>3, <1>4, <1>5, <1>6, PublishOrdered, ProjectOrdered DEF ReadNext

LEMMA OrderedAlways == ReadSpec => []Ordered
<1>1. ReadInit => Ordered
  <2>1. Len(<<>>) = 0
    OBVIOUS
  <2> QED  BY <2>1, ConstantsOK DEF ConstantsOK, ReadInit, Init, Ordered, InOrder, Terminal
<1>2. Safe /\ Story /\ ReadSafe /\ Ordered /\ [ReadNext]_allVars => Ordered'
  BY OrderedNext
<1> QED  BY <1>1, <1>2, AlwaysReadSafe, ReadImplementsCommand, AlwaysSafe, StoryAlways, PTL
         DEF ReadSpec

LEMMA OutcomeStays ==
  ASSUME Safe, ReadSafe, Ordered, [ReadNext]_allVars, NEW t \in Tasks, view[t] \in Terminal
  PROVE  view'[t] = view[t]
<1>1. /\ view[t] = status[t] /\ status'[t] = status[t] /\ view \in [Tasks -> Statuses]
      /\ feed[t] \in Seq(Events) /\ InOrder(t)
  <2>1. status[t] \in Terminal => status'[t] = status[t]
    BY ReadStep, NextEffect, StatusSteps DEF Safe, RestTypes
  <2> QED  BY <2>1 DEF ReadSafe, ReadTypeOK, Copies, Fits, Ordered
<1>2. CASE UNCHANGED view
  BY <1>2
<1>3. ASSUME NEW s \in Tasks, InlineViewed(s), view' # view PROVE view'[t] = view[t]
  <2>1. view' = [view EXCEPT ![s] = status'[s]]
    BY <1>3 DEF InlineViewed
  <2> QED  BY <1>1, <2>1
<1>4. ASSUME NEW s \in Tasks, Project(s), view' # view PROVE view'[t] = view[t]
  <2>1. /\ feed[s] # <<>> /\ <<s, Head(feed[s])>> \notin applied
        /\ view' = [view EXCEPT ![s] = StatusOf(Head(feed[s]))]
    BY <1>4 DEF Project
  <2>2. CASE s # t
    BY <1>1, <2>1, <2>2
  <2>3. CASE s = t
    <3>1. 1 \in 1 .. Len(feed[t]) /\ Head(feed[t]) = feed[t][1] /\ Head(feed[t]) \in Events
      BY <1>1, <2>1, <2>3
    <3>2. Head(feed[t]) # "submitted"
      BY <1>1, <2>1, <2>3, <3>1 DEF InOrder, Seen
    <3>3. Head(feed[t]) = status[t]
      BY <3>1, <3>2 DEF Events, ReadSafe, Copies, Fits
    <3> QED  BY <1>1, <2>1, <2>3, <3>2, <3>3 DEF StatusOf
  <2> QED  BY <2>2, <2>3
<1>5. CASE \/ CommandOnly \/ WatchCached \/ ProjectCached \/ ProjectAbort \/ UNCHANGED allVars
           \/ \E r \in Reqs : SubmitCached(r)
           \/ \E c \in Cancels : CancelCached(c)
           \/ \E w \in Workers : WorkCached(w)
           \/ \E s \in Tasks : \/ PublishFed(s) \/ CacheExpire(s)
                               \/ PollCache(s) \/ PollView(s) \/ PollCommand(s)
  <2>1. UNCHANGED view
    BY <1>5 DEF CommandOnly, WatchCached, ProjectCached, ProjectAbort, SubmitCached, CancelCached,
      WorkCached, PublishFed, CacheExpire, PollCache, PollView, PollCommand, allVars, readVars
  <2> QED  BY <1>2, <2>1
<1> QED  BY <1>2, <1>3, <1>4, <1>5 DEF ReadNext

(* The view of an ended task stays: the projector upserts whatever it gets,  *)
(* but a submission reaches it before the outcome, and the inbox skips it    *)
(* whenever it is published or delivered again.                              *)
THEOREM ViewAlwaysKeepsOutcome == ReadSpec => ViewKeepsOutcome
<1>1. Safe /\ ReadSafe /\ Ordered /\ [ReadNext]_allVars =>
        [\A t \in Tasks : view[t] \in Terminal => view'[t] = view[t]]_allVars
  BY OutcomeStays
<1> QED  BY <1>1, AlwaysReadSafe, OrderedAlways, ReadImplementsCommand, AlwaysSafe, PTL
         DEF ReadSpec, ViewKeepsOutcome
=============================================================================

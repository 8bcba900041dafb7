----------------------- MODULE ReservedCallbacksProofs ------------------------
(***************************************************************************)
(* Proofs about ReservedCallbacks, for any number of cancels, dispatchers, *)
(* users and failures: it implements ReservedTask, and the event of a      *)
(* cancel is in one place until it is told, buried, skipped or lost.       *)
(*                                                                         *)
(* The places are the positions of the queue, the schedule and the hands   *)
(* of the dispatchers.  OneOwner says that no two of them hold events of   *)
(* the same cancel, kind of place by kind of place; every hand-over takes  *)
(* an event out of one before it puts it into another.                     *)
(***************************************************************************)
EXTENDS ReservedCallbacks, ReservedTaskProofs

-----------------------------------------------------------------------------
(* Callbacks only watch the command side *)

LEMMA HookStep ==
  ASSUME [HookNext]_<<vars, hookVars>>
  PROVE  [Next]_vars
<1>1. CASE CommandStep
  BY <1>1 DEF CommandStep, Next
<1>2. CASE \E c \in Cancels : CancelOwes(c) \/ CancelMute(c) \/ EnqueueCancel(c)
  BY <1>2 DEF CancelOwes, CancelMute, EnqueueCancel, Next
<1>3. CASE \E u \in Users : PutWebhook(u) \/ DeleteWebhook(u)
  BY <1>3 DEF PutWebhook, DeleteWebhook
<1>4. CASE \E d \in Dispatchers :
             \/ PromoteRead(d) \/ PromotePush(d) \/ Pop(d) \/ Look(d)
             \/ \E e \in due[d] : PromoteTake(d, e)
             \/ SendHeard(d) \/ SendRefused(d) \/ DispatchAbort(d)
  BY <1>4 DEF PromoteRead, PromotePush, Pop, Look, PromoteTake, SendHeard, SendRefused, DispatchAbort
<1>5. CASE UNCHANGED <<vars, hookVars>>
  BY <1>5
<1> QED  BY <1>1, <1>2, <1>3, <1>4, <1>5 DEF HookNext

(* The command side of Solution 2 with its callbacks does what it does       *)
(* without them: what is proved of Spec is a fact about HookSpec.            *)
THEOREM CallbacksImplementCommand == HookSpec => Spec
<1>1. HookInit => Init
  BY DEF HookInit
<1> QED  BY <1>1, HookStep, PTL DEF HookSpec, Spec

-----------------------------------------------------------------------------
(* The places of events *)

(* Hands are full from the ZREM or the BLPOP to the end of the hand-over.    *)
HandsFull ==
  \A d \in Dispatchers : held[d] # NoEvent <=> dpc[d] \in {"push", "look", "send"}

OneOwner ==
  /\ \A i, j \in 1 .. Len(queue) : queue[i].of = queue[j].of => i = j
  /\ \A e, f \in later : e.of = f.of => e = f
  /\ \A d, x \in Dispatchers :
       held[d] # NoEvent /\ held[x] # NoEvent /\ held[d].of = held[x].of => d = x
  /\ \A i \in 1 .. Len(queue), e \in later : queue[i].of # e.of
  /\ \A i \in 1 .. Len(queue), d \in Dispatchers : held[d] # NoEvent => queue[i].of # held[d].of
  /\ \A e \in later, d \in Dispatchers : held[d] # NoEvent => e.of # held[d].of

Somewhere(c) ==
  \/ \E i \in 1 .. Len(queue) : queue[i].of = c
  \/ \E e \in later : e.of = c
  \/ \E d \in Dispatchers : held[d] # NoEvent /\ held[d].of = c

UnderWay == \A c \in Cancels : fate[c] = "open" <=> Somewhere(c)

(* Only a cancel that is about to queue its event has none yet, and it has   *)
(* passed its transaction for good.                                          *)
Announcing ==
  \A c \in Cancels :
    /\ c \in owed => fate[c] = "none" /\ cpc[c] \in {"sync", "cancelled"}
    /\ fate[c] # "none" => cpc[c] \in {"cancelled", "ended"}
    /\ c \in owed \/ fate[c] # "none" => status[CancelOf[c]] = "CANCELLED"

HookSafe == HookTypeOK /\ HandsFull /\ OneOwner /\ UnderWay /\ Announcing

LEMMA InitHookSafe == HookInit => HookSafe
<1> SUFFICES ASSUME HookInit PROVE HookSafe
  OBVIOUS
<1> USE DEF HookInit
<1>1. HookTypeOK
  BY DEF HookTypeOK, Fates
<1>2. HandsFull /\ OneOwner /\ UnderWay /\ Announcing
  BY DEF HandsFull, OneOwner, UnderWay, Announcing, Somewhere
<1> QED  BY <1>1, <1>2 DEF HookSafe

-----------------------------------------------------------------------------
(* The three ways in which the queue changes *)

LEMMA PushedBack ==
  ASSUME NEW S, NEW q \in Seq(S), NEW e \in S
  PROVE  /\ Append(q, e) \in Seq(S) /\ Len(Append(q, e)) = Len(q) + 1 /\ Len(q) \in Nat
         /\ Append(q, e)[Len(q) + 1] = e
         /\ \A i \in 1 .. Len(q) : Append(q, e)[i] = q[i]
OBVIOUS

LEMMA PushedFront ==
  ASSUME NEW S, NEW q \in Seq(S), NEW e \in S
  PROVE  /\ <<e>> \o q \in Seq(S) /\ Len(<<e>> \o q) = Len(q) + 1 /\ Len(q) \in Nat
         /\ (<<e>> \o q)[1] = e
         /\ \A i \in 2 .. Len(q) + 1 : (<<e>> \o q)[i] = q[i - 1]
<1>1. <<e>> \in Seq(S) /\ Len(<<e>>) = 1 /\ <<e>>[1] = e
  OBVIOUS
<1> QED  BY <1>1

LEMMA Popped ==
  ASSUME NEW S, NEW q \in Seq(S), q # <<>>
  PROVE  /\ Tail(q) \in Seq(S) /\ Len(Tail(q)) = Len(q) - 1 /\ Len(q) \in Nat \ {0}
         /\ Head(q) = q[1] /\ Head(q) \in S
         /\ \A i \in 1 .. Len(q) - 1 : Tail(q)[i] = q[i + 1]
<1>1. Len(q) \in Nat \ {0}
  OBVIOUS
<1> QED  BY <1>1

-----------------------------------------------------------------------------
(* The command side *)

LEMMA CancelledStays ==
  ASSUME Safe, [HookNext]_<<vars, hookVars>>, NEW c \in Cancels, status[CancelOf[c]] = "CANCELLED"
  PROVE  status'[CancelOf[c]] = "CANCELLED"
<1>1. CancelOf[c] \in Tasks
  BY ConstantsOK DEF ConstantsOK
<1>2. Effect
  BY HookStep, NextEffect DEF Safe, RestTypes
<1> QED  BY <1>1, <1>2, StatusSteps DEF Terminal

LEMMA CommandCancels ==
  ASSUME Safe, CommandStep, NEW c \in Cancels
  PROVE  \/ cpc'[c] = cpc[c]
         \/ cpc[c] = "idle"
         \/ cpc[c] = "sync" /\ cpc'[c] = "cancelled"
<1>0. cpc \in [Cancels -> {"idle", "cancelled", "ended"} \cup CancelSteps]
  BY DEF Safe, RestTypes
<1>1. ASSUME NEW r \in Reqs, Admit(r) \/ AdmitError(r) \/ SubmitCache(r) \/ RequestAbort(r)
      PROVE  cpc' = cpc
  BY <1>1 DEF Admit, AdmitError, SubmitCache, RequestAbort, GoRequest
<1>2. ASSUME NEW t \in Tasks, Inline(t) \/ SyncFinishError(t)
      PROVE  cpc' = cpc
  BY <1>2 DEF Inline, SyncMark, SyncFinish, SyncFail, SyncFinishError, GoRequest
<1>3. ASSUME NEW x \in Cancels, CancelRead(x)
      PROVE  cpc'[c] = cpc[c] \/ cpc[c] = "idle"
  BY <1>0, <1>3 DEF CancelRead, GoCancel
<1>4. ASSUME NEW x \in Cancels, CancelSync(x)
      PROVE  cpc'[c] = cpc[c] \/ (cpc[c] = "sync" /\ cpc'[c] = "cancelled")
  BY <1>0, <1>4 DEF CancelSync, GoCancel
<1>5. ASSUME NEW a \in Adjusts, Adjust(a) PROVE cpc' = cpc
  BY <1>5 DEF Adjust
<1>6. ASSUME NEW t \in Tasks, Publish(t) \/ Overdue(t) \/ WatchExpire(t)
      PROVE  cpc' = cpc
  BY <1>6 DEF Publish, Overdue, WatchExpire, reqVars
<1>7. ASSUME NEW w \in Workers, Work(w) \/ WorkDrop(w) PROVE cpc' = cpc
  BY <1>7 DEF Work, WorkTake, WorkMark, WorkSucceed, WorkFail, Persist, WorkCache, WorkDrop, reqVars
<1>8. CASE Unlink \/ WatchCache \/ WatchAbort
  BY <1>8 DEF Unlink, WatchCache, WatchAbort, reqVars
<1> QED  BY <1>1, <1>2, <1>3, <1>4, <1>5, <1>6, <1>7, <1>8 DEF CommandStep

LEMMA SamePlaces ==
  ASSUME HandsFull, OneOwner, UNCHANGED <<queue, later, dpc, held>>
  PROVE  /\ HandsFull' /\ OneOwner'
         /\ \A c \in Cancels : Somewhere(c)' <=> Somewhere(c)
<1>1. HandsFull'
  BY DEF HandsFull
<1>2. OneOwner'
  BY DEF OneOwner
<1>3. ASSUME NEW c \in Cancels PROVE Somewhere(c)' <=> Somewhere(c)
  BY DEF Somewhere
<1> QED  BY <1>1, <1>2, <1>3

LEMMA CommandSafe ==
  ASSUME Safe, HookSafe,
         (CommandStep /\ UNCHANGED hookVars) \/ UNCHANGED <<vars, hookVars>>
  PROVE  HookSafe'
<1> USE DEF HookSafe, hookVars, dispatchVars
<1>1. [HookNext]_<<vars, hookVars>>
  BY DEF HookNext
<1>2. HookTypeOK'
  BY DEF HookTypeOK
<1>3. HandsFull' /\ OneOwner' /\ \A c \in Cancels : Somewhere(c)' <=> Somewhere(c)
  BY SamePlaces
<1>4. UnderWay'
  BY <1>3 DEF UnderWay
<1>5. ASSUME NEW c \in Cancels
      PROVE  cpc'[c] = cpc[c] \/ cpc[c] = "idle" \/ (cpc[c] = "sync" /\ cpc'[c] = "cancelled")
  BY CommandCancels DEF vars
<1>6. \A c \in Cancels : status[CancelOf[c]] = "CANCELLED" => status'[CancelOf[c]] = "CANCELLED"
  BY <1>1, CancelledStays
<1>7. Announcing'
  BY <1>5, <1>6 DEF Announcing
<1> QED  BY <1>2, <1>3, <1>4, <1>7

(* A cancel request: it cancels, stops short of its event, or queues it.     *)
LEMMA CancelSafe ==
  ASSUME Safe, HookSafe, NEW c \in Cancels, CancelOwes(c) \/ CancelMute(c) \/ EnqueueCancel(c)
  PROVE  HookSafe'
<1> USE DEF HookSafe
<1>0. cpc \in [Cancels -> {"idle", "cancelled", "ended"} \cup CancelSteps]
  BY DEF Safe, RestTypes
<1>1. [HookNext]_<<vars, hookVars>>
  BY DEF HookNext
<1>2. \A x \in Cancels : status[CancelOf[x]] = "CANCELLED" => status'[CancelOf[x]] = "CANCELLED"
  BY <1>1, CancelledStays
<1>3. CancelOf[c] \in Tasks /\ status \in [Tasks -> Statuses]
  BY ConstantsOK DEF ConstantsOK, Safe, RowsAndMoney
<1>4. CASE CancelOwes(c)
  <2> USE <1>4 DEF CancelOwes, dispatchVars
  <2>1. HookTypeOK'
    BY DEF HookTypeOK
  <2>2. HandsFull' /\ OneOwner' /\ \A x \in Cancels : Somewhere(x)' <=> Somewhere(x)
    BY SamePlaces
  <2>3. UnderWay'
    BY <2>2 DEF UnderWay
  <2>4. /\ cpc[c] = "transact" /\ cpc'[c] \in {"sync", "ended"}
        /\ \A x \in Cancels \ {c} : cpc'[x] = cpc[x]
        /\ cpc'[c] = "sync" => status'[CancelOf[c]] = "CANCELLED"
    BY <1>0, <1>3 DEF CancelTransact, GoCancel, SetStatus, taskVars
  <2>5. Announcing'
    BY <1>2, <2>4 DEF Announcing
  <2> QED  BY <2>1, <2>2, <2>3, <2>5
<1>5. CASE CancelMute(c)
  <2> USE <1>5 DEF CancelMute, Becomes, dispatchVars
  <2>1. HookTypeOK'
    BY DEF HookTypeOK, Fates
  <2>2. HandsFull' /\ OneOwner' /\ \A x \in Cancels : Somewhere(x)' <=> Somewhere(x)
    BY SamePlaces
  <2>3. c \in owed => fate[c] = "none"
    BY DEF Announcing
  <2>4. UnderWay'
    BY <2>2, <2>3 DEF UnderWay, HookTypeOK
  <2>5. cpc'[c] = "ended" /\ \A x \in Cancels \ {c} : cpc'[x] = cpc[x]
    BY <1>0 DEF CancelAbort, GoCancel
  <2>6. /\ c \in owed => fate'[c] = "lost"
        /\ c \notin owed => fate'[c] = fate[c]
        /\ \A x \in Cancels \ {c} : fate'[x] = fate[x] /\ (x \in owed' <=> x \in owed)
        /\ c \notin owed'
    BY DEF HookTypeOK
  <2>7. Announcing'
    BY <1>2, <2>5, <2>6 DEF Announcing
  <2> QED  BY <2>1, <2>2, <2>4, <2>7
<1>6. CASE EnqueueCancel(c)
  <2> DEFINE e == [of |-> c, attempt |-> 0]
  <2>1. c \in owed /\ cpc[c] = "cancelled" /\ fate[c] = "none" /\ ~Somewhere(c)
    BY <1>6 DEF EnqueueCancel, Announcing, UnderWay
  <2>2. Announcing'
    BY <1>2, <1>6, <2>1 DEF EnqueueCancel, Announcing, Becomes, HookTypeOK, vars
  <2>3. CASE UNCHANGED queue
    <3>1. fate'[c] = "lost" /\ fate' = [fate EXCEPT ![c] = "lost"] /\ hookFaults' \in Nat
      BY <1>6, <2>3 DEF EnqueueCancel, Becomes, HookFault, HookTypeOK
    <3>2. HookTypeOK'
      BY <1>6, <2>3, <3>1 DEF EnqueueCancel, HookTypeOK, Fates, dispatchVars
    <3>3. HandsFull' /\ OneOwner' /\ \A x \in Cancels : Somewhere(x)' <=> Somewhere(x)
      BY <1>6, <2>3, SamePlaces DEF EnqueueCancel, dispatchVars
    <3>4. UnderWay'
      BY <2>1, <3>1, <3>3 DEF UnderWay, HookTypeOK
    <3> QED  BY <2>2, <3>2, <3>3, <3>4
  <2>4. CASE queue' = Append(queue, e) /\ Becomes(c, "open") /\ UNCHANGED hookFaults
    <3>1. UNCHANGED <<later, dpc, held, due, webhooks, sub>> /\ owed' = owed \ {c}
      BY <1>6 DEF EnqueueCancel, dispatchVars
    <3>2. e \in CallbackEvents /\ e.of = c
      BY DEF CallbackEvents
    <3>3. /\ queue' \in Seq(CallbackEvents) /\ Len(queue') = Len(queue) + 1 /\ Len(queue) \in Nat
          /\ queue'[Len(queue) + 1] = e
          /\ \A i \in 1 .. Len(queue) : queue'[i] = queue[i]
      BY <2>4, <3>2, PushedBack DEF HookTypeOK
    <3> HIDE DEF e
    <3>4. HookTypeOK'
      BY <2>4, <3>1, <3>3 DEF HookTypeOK, Becomes, Fates
    <3>5. HandsFull'
      BY <3>1 DEF HandsFull
    <3>6. OneOwner'
      BY <2>1, <3>1, <3>2, <3>3 DEF OneOwner, Somewhere
    <3>7. ASSUME NEW x \in Cancels PROVE Somewhere(x)' <=> Somewhere(x) \/ x = c
      BY <3>1, <3>2, <3>3 DEF Somewhere
    <3>8. UnderWay'
      BY <2>1, <2>4, <3>7 DEF UnderWay, Becomes, HookTypeOK
    <3> QED  BY <2>2, <3>4, <3>5, <3>6, <3>8
  <2> QED  BY <1>6, <2>3, <2>4 DEF EnqueueCancel
<1> QED  BY <1>4, <1>5, <1>6

-----------------------------------------------------------------------------
(* Users and dispatchers *)

LEMMA SubscribeSafe ==
  ASSUME HookSafe, NEW u \in Users, PutWebhook(u) \/ DeleteWebhook(u)
  PROVE  HookSafe'
<1> USE DEF HookSafe
<1>1. /\ UNCHANGED <<vars, webhooks, owed, queue, later, dpc, due, held, fate, hookFaults>>
      /\ sub' \in [Users -> {"none", "enabled", "disabled"}]
  BY DEF PutWebhook, DeleteWebhook, Subscribe, HookTypeOK, dispatchVars
<1>2. HookTypeOK'
  BY <1>1 DEF HookTypeOK
<1>3. HandsFull' /\ OneOwner' /\ \A c \in Cancels : Somewhere(c)' <=> Somewhere(c)
  BY <1>1, SamePlaces
<1>4. UnderWay' /\ Announcing'
  BY <1>1, <1>3 DEF UnderWay, Announcing, vars
<1> QED  BY <1>2, <1>3, <1>4

(* A step of a dispatcher moves nothing, or one event, or ends one.          *)
LEMMA AnnouncingKept ==
  ASSUME Announcing, UNCHANGED <<vars, owed>>,
         \A c \in Cancels : fate'[c] = fate[c] \/ (fate[c] = "open" /\ fate'[c] # "none")
  PROVE  Announcing'
BY DEF Announcing, vars

LEMMA Underway ==
  ASSUME HookSafe
  PROVE  /\ \A i \in 1 .. Len(queue) : queue[i] \in CallbackEvents /\ fate[queue[i].of] = "open"
         /\ \A e \in later : e \in CallbackEvents /\ fate[e.of] = "open"
         /\ \A d \in Dispatchers : held[d] # NoEvent => held[d] \in CallbackEvents /\ fate[held[d].of] = "open"
         /\ Len(queue) \in Nat
         /\ \A e \in CallbackEvents : e.of \in Cancels /\ e # NoEvent
<1> USE DEF HookSafe, HookTypeOK
<1>1. \A e \in CallbackEvents : e.of \in Cancels /\ e # NoEvent
  BY CallbackConstantsOK DEF CallbackConstantsOK, CallbackEvents
<1>2. ASSUME NEW i \in 1 .. Len(queue) PROVE queue[i] \in CallbackEvents /\ fate[queue[i].of] = "open"
  BY <1>1 DEF UnderWay, Somewhere
<1>3. ASSUME NEW e \in later PROVE e \in CallbackEvents /\ fate[e.of] = "open"
  BY <1>1 DEF UnderWay, Somewhere
<1>4. ASSUME NEW d \in Dispatchers, held[d] # NoEvent
      PROVE  held[d] \in CallbackEvents /\ fate[held[d].of] = "open"
  BY <1>1, <1>4 DEF UnderWay, Somewhere
<1> QED  BY <1>1, <1>2, <1>3, <1>4

LEMMA PromoteSafe ==
  ASSUME HookSafe, NEW d \in Dispatchers, PromoteRead(d) \/ \E e \in due[d] : PromoteTake(d, e)
  PROVE  HookSafe'
<1> USE DEF HookSafe
<1>1. CASE PromoteRead(d)
  <2> USE <1>1 DEF PromoteRead, GoDispatch
  <2>1. HookTypeOK'
    BY DEF HookTypeOK
  <2>2. held' = held
    BY DEF HandsFull, HookTypeOK
  <2>3. HandsFull'
    BY DEF HandsFull, HookTypeOK
  <2>4. OneOwner' /\ \A c \in Cancels : Somewhere(c)' <=> Somewhere(c)
    BY <2>2 DEF OneOwner, Somewhere
  <2>5. UnderWay' /\ Announcing'
    BY <2>4, AnnouncingKept DEF UnderWay
  <2> QED  BY <2>1, <2>3, <2>4, <2>5
<1>2. ASSUME NEW e \in due[d], PromoteTake(d, e) PROVE HookSafe'
  <2>1. /\ UNCHANGED <<vars, webhooks, sub, owed, queue, fate, hookFaults>>
        /\ later' = later \ {e} /\ dpc[d] = "promote" /\ held[d] = NoEvent
        /\ due' = [due EXCEPT ![d] = @ \ {e}]
    BY <1>2 DEF PromoteTake, HandsFull
  <2>2. CASE e \in later
    <3>1. e \in CallbackEvents /\ e # NoEvent
      BY <2>2, Underway
    <3>2. dpc' = [dpc EXCEPT ![d] = "push"] /\ held' = [held EXCEPT ![d] = e]
      BY <1>2, <2>2 DEF PromoteTake, GoDispatch
    <3>3. HookTypeOK'
      BY <2>1, <3>1, <3>2 DEF HookTypeOK
    <3>4. HandsFull'
      BY <3>1, <3>2 DEF HandsFull, HookTypeOK
    <3>5. held'[d] = e /\ \A x \in Dispatchers \ {d} : held'[x] = held[x]
      BY <3>2 DEF HookTypeOK
    <3>6. OneOwner'
      BY <2>1, <2>2, <3>1, <3>5 DEF OneOwner
    <3>7. \A c \in Cancels : Somewhere(c)' <=> Somewhere(c)
      BY <2>1, <2>2, <3>1, <3>5 DEF Somewhere
    <3>8. UnderWay' /\ Announcing'
      BY <2>1, <3>7, AnnouncingKept DEF UnderWay
    <3> QED  BY <3>3, <3>4, <3>6, <3>8
  <2>3. CASE e \notin later
    <3>1. UNCHANGED <<later, dpc, held>>
      BY <1>2, <2>1, <2>3 DEF PromoteTake
    <3>2. HookTypeOK'
      BY <2>1, <3>1 DEF HookTypeOK
    <3>3. HandsFull' /\ OneOwner' /\ \A c \in Cancels : Somewhere(c)' <=> Somewhere(c)
      BY <2>1, <3>1, SamePlaces
    <3>4. UnderWay' /\ Announcing'
      BY <2>1, <3>3, AnnouncingKept DEF UnderWay
    <3> QED  BY <3>2, <3>3, <3>4
  <2> QED  BY <2>2, <2>3
<1> QED  BY <1>1, <1>2

LEMMA PushSafe ==
  ASSUME HookSafe, NEW d \in Dispatchers, PromotePush(d)
  PROVE  HookSafe'
<1> DEFINE e == held[d]
<1> USE DEF HookSafe
<1>1. /\ UNCHANGED <<vars, webhooks, sub, owed, later, due, fate, hookFaults>>
      /\ dpc[d] = "push" /\ held[d] # NoEvent
      /\ queue' = <<e>> \o queue
      /\ dpc' = [dpc EXCEPT ![d] = "promote"] /\ held' = [held EXCEPT ![d] = NoEvent]
  BY DEF PromotePush, GoDispatch, HandsFull
<1>2. e \in CallbackEvents
  BY <1>1, Underway
<1>3. /\ queue' \in Seq(CallbackEvents) /\ Len(queue') = Len(queue) + 1 /\ Len(queue) \in Nat
      /\ queue'[1] = e
      /\ \A i \in 2 .. Len(queue) + 1 : queue'[i] = queue[i - 1]
  BY <1>1, <1>2, PushedFront DEF HookTypeOK
<1>4. HookTypeOK'
  BY <1>1, <1>3 DEF HookTypeOK
<1>5. HandsFull'
  BY <1>1 DEF HandsFull, HookTypeOK
<1>6. held'[d] = NoEvent /\ \A x \in Dispatchers \ {d} : held'[x] = held[x]
  BY <1>1 DEF HookTypeOK
<1>7. OneOwner'
  <2>1. \A i \in 1 .. Len(queue') : queue'[i] = e \/ (i - 1 \in 1 .. Len(queue) /\ queue'[i] = queue[i - 1])
    BY <1>3
  <2>2. ASSUME NEW i \in 1 .. Len(queue'), NEW j \in 1 .. Len(queue'), queue'[i].of = queue'[j].of
        PROVE  i = j
    <3>1. \A k \in 1 .. Len(queue') : k = 1 \/ (k - 1 \in 1 .. Len(queue) /\ queue'[k] = queue[k - 1])
      BY <1>3
    <3>2. \A k \in 1 .. Len(queue) : queue[k].of # e.of
      BY <1>1 DEF OneOwner
    <3>3. CASE i = 1 \/ j = 1
      BY <1>3, <2>2, <3>1, <3>2, <3>3
    <3>4. CASE i # 1 /\ j # 1
      <4>1. /\ i - 1 \in 1 .. Len(queue) /\ j - 1 \in 1 .. Len(queue)
            /\ queue[i - 1].of = queue[j - 1].of
        BY <2>2, <3>1, <3>4
      <4>2. i - 1 = j - 1
        BY <4>1 DEF OneOwner
      <4> QED  BY <1>3, <4>2
    <3> QED  BY <3>3, <3>4
  <2>3. \A i \in 1 .. Len(queue'), f \in later' : queue'[i].of # f.of
    <3>1. \A f \in later' : f \in later /\ f.of # e.of
      BY <1>1 DEF OneOwner
    <3>2. \A i \in 1 .. Len(queue), f \in later : queue[i].of # f.of
      BY DEF OneOwner
    <3> QED  BY <2>1, <3>1, <3>2
  <2>4. \A i \in 1 .. Len(queue'), x \in Dispatchers : held'[x] # NoEvent => queue'[i].of # held'[x].of
    <3>1. \A x \in Dispatchers : held'[x] # NoEvent => x # d /\ held[x] # NoEvent /\ held'[x] = held[x]
      BY <1>6
    <3>2. \A x \in Dispatchers \ {d} : held[x] # NoEvent => held[x].of # e.of
      BY <1>1 DEF OneOwner
    <3>3. \A i \in 1 .. Len(queue), x \in Dispatchers : held[x] # NoEvent => queue[i].of # held[x].of
      BY DEF OneOwner
    <3> QED  BY <2>1, <3>1, <3>2, <3>3
  <2>5. \A x, y \in Dispatchers : held'[x] # NoEvent /\ held'[y] # NoEvent /\ held'[x].of = held'[y].of => x = y
    BY <1>6 DEF OneOwner
  <2>6. \A f \in later', x \in Dispatchers : held'[x] # NoEvent => f.of # held'[x].of
    BY <1>1, <1>6 DEF OneOwner
  <2> QED  BY <1>1, <2>2, <2>3, <2>4, <2>5, <2>6 DEF OneOwner
<1>8. ASSUME NEW c \in Cancels PROVE Somewhere(c)' <=> Somewhere(c)
  <2>1. ASSUME NEW i \in 1 .. Len(queue) PROVE i + 1 \in 1 .. Len(queue') /\ queue'[i + 1] = queue[i]
    BY <1>3
  <2>2. 1 \in 1 .. Len(queue')
    BY <1>3
  <2>3. ASSUME NEW i \in 1 .. Len(queue') PROVE queue'[i] = e \/ \E j \in 1 .. Len(queue) : queue'[i] = queue[j]
    BY <1>3
  <2> QED  BY <1>1, <1>3, <1>6, <2>1, <2>2, <2>3 DEF Somewhere
<1>9. UnderWay' /\ Announcing'
  BY <1>1, <1>8, AnnouncingKept DEF UnderWay
<1> QED  BY <1>4, <1>5, <1>7, <1>9

(* What a dispatcher holds is gone from its hands: ended, or scheduled anew. *)
Hands(d, e) == held' = [held EXCEPT ![d] = e]

LEMMA LetGoSafe ==
  ASSUME HookSafe, NEW d \in Dispatchers, held[d] # NoEvent,
         NEW end \in Fates \ {"none", "open"},
         UNCHANGED <<vars, webhooks, sub, owed, queue, later>>,
         Becomes(held[d].of, end), Hands(d, NoEvent), dpc' = [dpc EXCEPT ![d] = "idle"],
         due' \in [Dispatchers -> SUBSET CallbackEvents], hookFaults' \in Nat
  PROVE  HookSafe'
<1> USE DEF HookSafe, Hands
<1>1. held[d] \in CallbackEvents /\ held[d].of \in Cancels /\ fate[held[d].of] = "open"
  BY Underway
<1>2. HookTypeOK'
  BY DEF HookTypeOK, Becomes
<1>3. HandsFull'
  BY DEF HandsFull, HookTypeOK
<1>4. held'[d] = NoEvent /\ \A x \in Dispatchers \ {d} : held'[x] = held[x]
  BY DEF HookTypeOK
<1>5. OneOwner'
  BY <1>4 DEF OneOwner
<1>6. ASSUME NEW c \in Cancels PROVE Somewhere(c)' <=> Somewhere(c) /\ c # held[d].of
  BY <1>4 DEF Somewhere, OneOwner
<1>7. \A c \in Cancels : fate'[c] = IF c = held[d].of THEN end ELSE fate[c]
  BY DEF Becomes, HookTypeOK
<1>8. UnderWay'
  BY <1>6, <1>7 DEF UnderWay
<1>9. Announcing'
  BY <1>1, <1>7, AnnouncingKept
<1> QED  BY <1>2, <1>3, <1>5, <1>8, <1>9

LEMMA RescheduleSafe ==
  ASSUME HookSafe, NEW d \in Dispatchers, held[d] # NoEvent,
         UNCHANGED <<vars, webhooks, sub, owed, queue, due>>,
         Reschedule(d), Hands(d, NoEvent), dpc' = [dpc EXCEPT ![d] = "idle"], hookFaults' \in Nat
  PROVE  HookSafe'
<1> DEFINE e == [held[d] EXCEPT !.attempt = @ + 1]
<1> USE DEF HookSafe, Hands
<1>1. held[d] \in CallbackEvents
  BY Underway
<1>2. e \in CallbackEvents /\ e.of = held[d].of
  BY <1>1 DEF CallbackEvents
<1>3. later' = later \cup {e} /\ fate' = fate
  BY DEF Reschedule
<1> HIDE DEF e
<1>4. HookTypeOK'
  BY <1>2, <1>3 DEF HookTypeOK
<1>5. HandsFull'
  BY DEF HandsFull, HookTypeOK
<1>6. held'[d] = NoEvent /\ \A x \in Dispatchers \ {d} : held'[x] = held[x]
  BY DEF HookTypeOK
<1>7. OneOwner'
  BY <1>2, <1>3, <1>6 DEF OneOwner
<1>8. ASSUME NEW c \in Cancels PROVE Somewhere(c)' <=> Somewhere(c)
  BY <1>2, <1>3, <1>6 DEF Somewhere
<1>9. UnderWay' /\ Announcing'
  BY <1>3, <1>8, AnnouncingKept DEF UnderWay
<1> QED  BY <1>4, <1>5, <1>7, <1>9

LEMMA PopSafe ==
  ASSUME HookSafe, NEW d \in Dispatchers, Pop(d)
  PROVE  HookSafe'
<1> USE DEF HookSafe
<1>0. UNCHANGED <<vars, webhooks, sub, owed, later>> /\ dpc[d] = "promote" /\ held[d] = NoEvent
  BY DEF Pop, HandsFull
<1>1. CASE queue = <<>>
  <2>1. UNCHANGED <<queue, due, fate, hookFaults>> /\ dpc' = [dpc EXCEPT ![d] = "idle"]
        /\ held' = [held EXCEPT ![d] = NoEvent]
    BY <1>1 DEF Pop, NextPass, GoDispatch
  <2>2. held' = held
    BY <1>0, <2>1 DEF HookTypeOK
  <2>3. HookTypeOK'
    BY <1>0, <2>1, <2>2 DEF HookTypeOK
  <2>4. HandsFull'
    BY <1>0, <2>1, <2>2 DEF HandsFull, HookTypeOK
  <2>5. OneOwner' /\ \A c \in Cancels : Somewhere(c)' <=> Somewhere(c)
    BY <1>0, <2>1, <2>2 DEF OneOwner, Somewhere
  <2>6. UnderWay' /\ Announcing'
    BY <1>0, <2>1, <2>5, AnnouncingKept DEF UnderWay
  <2> QED  BY <2>3, <2>4, <2>5, <2>6
<1>2. CASE queue # <<>>
  <2> DEFINE e == queue[1]
  <2>1. /\ queue' = Tail(queue) /\ UNCHANGED due /\ hookFaults' \in Nat
        /\ Head(queue) = e /\ e \in CallbackEvents
        /\ queue' \in Seq(CallbackEvents) /\ Len(queue') = Len(queue) - 1 /\ Len(queue) \in Nat \ {0}
        /\ \A i \in 1 .. Len(queue) - 1 : queue'[i] = queue[i + 1]
    <3>1. queue' = Tail(queue) /\ UNCHANGED due /\ hookFaults' \in Nat
      BY <1>2 DEF Pop, NextPass, HookTypeOK, HookFault
    <3>2. queue \in Seq(CallbackEvents)
      BY DEF HookTypeOK
    <3> QED  BY <1>2, <3>1, <3>2, Popped
  <2>2. \/ UNCHANGED fate /\ dpc' = [dpc EXCEPT ![d] = "look"] /\ held' = [held EXCEPT ![d] = e]
        \/ Becomes(e.of, "lost") /\ dpc' = [dpc EXCEPT ![d] = "idle"] /\ held' = held
    BY <1>0, <1>2, <2>1 DEF Pop, NextPass, GoDispatch, HookTypeOK
  <2>3. e # NoEvent /\ e.of \in Cancels /\ fate[e.of] = "open" /\ 1 \in 1 .. Len(queue)
    BY <2>1, Underway
  <2>4. HookTypeOK'
    BY <1>0, <2>1, <2>2 DEF HookTypeOK, Becomes, Fates
  <2>5. HandsFull'
    BY <1>0, <2>2, <2>3 DEF HandsFull, HookTypeOK
  <2>6. \A x \in Dispatchers \ {d} : held'[x] = held[x]
    BY <2>2 DEF HookTypeOK
  <2>7. \A i \in 1 .. Len(queue') : i + 1 \in 1 .. Len(queue) /\ i + 1 # 1 /\ queue'[i] = queue[i + 1]
    BY <2>1
  <2>8. \A i \in 1 .. Len(queue) : i = 1 \/ (i - 1 \in 1 .. Len(queue') /\ queue'[i - 1] = queue[i])
    BY <2>1
  <2>9. \A i \in 1 .. Len(queue') : queue'[i].of # e.of
    BY <2>3, <2>7 DEF OneOwner
  <2>10. held'[d] = NoEvent \/ held'[d] = e
    BY <1>0, <2>2 DEF HookTypeOK
  <2>11. OneOwner'
    <3>1. ASSUME NEW i \in 1 .. Len(queue'), NEW j \in 1 .. Len(queue'), queue'[i].of = queue'[j].of
          PROVE  i = j
      <4>1. i + 1 = j + 1
        BY <2>7, <3>1 DEF OneOwner
      <4> QED  BY <4>1
    <3>2. \A i \in 1 .. Len(queue'), f \in later' : queue'[i].of # f.of
      BY <1>0, <2>7 DEF OneOwner
    <3>3. \A i \in 1 .. Len(queue'), x \in Dispatchers : held'[x] # NoEvent => queue'[i].of # held'[x].of
      <4>1. \A i \in 1 .. Len(queue'), x \in Dispatchers \ {d} :
              held'[x] # NoEvent => queue'[i].of # held'[x].of
        BY <2>6, <2>7 DEF OneOwner
      <4> QED  BY <2>9, <2>10, <4>1
    <3>4. \A x \in Dispatchers \ {d} : held[x] # NoEvent => held[x].of # e.of
      BY <2>3 DEF OneOwner
    <3>5. \A x, y \in Dispatchers : held'[x] # NoEvent /\ held'[y] # NoEvent /\ held'[x].of = held'[y].of => x = y
      BY <2>6, <2>10, <3>4 DEF OneOwner
    <3>6. \A f \in later', x \in Dispatchers : held'[x] # NoEvent => f.of # held'[x].of
      BY <1>0, <2>3, <2>6, <2>10 DEF OneOwner
    <3> QED  BY <1>0, <3>1, <3>2, <3>3, <3>5, <3>6 DEF OneOwner
  <2>12. CASE held'[d] = e /\ UNCHANGED fate
    <3>1. ASSUME NEW c \in Cancels PROVE Somewhere(c)' <=> Somewhere(c)
      <4>1. ASSUME Somewhere(c) PROVE Somewhere(c)'
        <5>1. CASE c = e.of
          BY <2>3, <2>12, <5>1 DEF Somewhere
        <5>2. CASE \E i \in 1 .. Len(queue) : i # 1 /\ queue[i].of = c
          BY <2>8, <5>2 DEF Somewhere
        <5>3. CASE \E f \in later : f.of = c
          BY <1>0, <5>3 DEF Somewhere
        <5>4. CASE \E x \in Dispatchers : held[x] # NoEvent /\ held[x].of = c
          BY <1>0, <2>6, <5>4 DEF Somewhere
        <5> QED  BY <4>1, <5>1, <5>2, <5>3, <5>4 DEF Somewhere
      <4>2. ASSUME Somewhere(c)' PROVE Somewhere(c)
        <5>1. CASE c = e.of
          BY <2>3, <5>1 DEF Somewhere
        <5>2. CASE \E i \in 1 .. Len(queue') : queue'[i].of = c
          BY <2>7, <5>2 DEF Somewhere
        <5>3. CASE \E f \in later : f.of = c
          BY <5>3 DEF Somewhere
        <5>4. CASE \E x \in Dispatchers : x # d /\ held'[x] # NoEvent /\ held'[x].of = c
          BY <2>6, <5>4 DEF Somewhere
        <5> QED  BY <1>0, <2>12, <4>2, <5>1, <5>2, <5>3, <5>4 DEF Somewhere
      <4> QED  BY <4>1, <4>2
    <3>2. UnderWay' /\ Announcing'
      BY <1>0, <2>12, <3>1, AnnouncingKept DEF UnderWay
    <3> QED  BY <2>4, <2>5, <2>11, <3>2
  <2>13. CASE held' = held /\ Becomes(e.of, "lost")
    <3>1. ASSUME NEW c \in Cancels PROVE Somewhere(c)' <=> Somewhere(c) /\ c # e.of
      <4>1. c = e.of => ~Somewhere(c)'
        BY <1>0, <2>3, <2>9, <2>13 DEF Somewhere, OneOwner
      <4>2. ASSUME c # e.of PROVE Somewhere(c)' <=> Somewhere(c)
        <5>1. (\E i \in 1 .. Len(queue) : queue[i].of = c) =>
                \E i \in 1 .. Len(queue') : queue'[i].of = c
          BY <2>8, <4>2
        <5>2. (\E i \in 1 .. Len(queue') : queue'[i].of = c) =>
                \E i \in 1 .. Len(queue) : queue[i].of = c
          BY <2>7
        <5> QED  BY <1>0, <2>13, <5>1, <5>2 DEF Somewhere
      <4>3. Somewhere(e.of)
        BY <2>3 DEF Somewhere
      <4> QED  BY <4>1, <4>2, <4>3
    <3>2. \A c \in Cancels : fate'[c] = IF c = e.of THEN "lost" ELSE fate[c]
      BY <2>13 DEF Becomes, HookTypeOK
    <3>3. UnderWay' /\ Announcing'
      BY <1>0, <2>3, <3>1, <3>2, AnnouncingKept DEF UnderWay
    <3> QED  BY <2>4, <2>5, <2>11, <3>3
  <2> QED  BY <2>2, <2>12, <2>13 DEF HookTypeOK
<1> QED  BY <1>1, <1>2

LEMMA HandSafe ==
  ASSUME HookSafe, NEW d \in Dispatchers, Look(d) \/ SendHeard(d) \/ SendRefused(d) \/ DispatchAbort(d)
  PROVE  HookSafe'
<1> USE DEF HookSafe, NextPass, GoDispatch, Hands, Fates
<1>0. hookFaults \in Nat /\ due \in [Dispatchers -> SUBSET CallbackEvents]
  BY DEF HookTypeOK
<1>1. CASE Look(d)
  <2>1. dpc[d] = "look" /\ held[d] # NoEvent /\ UNCHANGED <<vars, webhooks, sub, owed, queue, due>>
    BY <1>1 DEF Look, HandsFull
  <2>2. CASE dpc' = [dpc EXCEPT ![d] = "send"] /\ held' = [held EXCEPT ![d] = held[d]]
             /\ UNCHANGED <<later, fate, hookFaults>>
    <3>1. held' = held
      BY <2>2 DEF HookTypeOK
    <3>2. HookTypeOK'
      BY <2>1, <2>2, <3>1 DEF HookTypeOK
    <3>3. HandsFull'
      BY <2>1, <2>2, <3>1 DEF HandsFull, HookTypeOK
    <3>4. OneOwner' /\ \A c \in Cancels : Somewhere(c)' <=> Somewhere(c)
      BY <2>1, <2>2, <3>1 DEF OneOwner, Somewhere
    <3>5. UnderWay' /\ Announcing'
      BY <2>1, <2>2, <3>4, AnnouncingKept DEF UnderWay
    <3> QED  BY <3>2, <3>3, <3>4, <3>5
  <2>3. CASE Becomes(held[d].of, "skipped") /\ NextPass(d) /\ UNCHANGED <<later, hookFaults>>
    BY <1>0, <2>1, <2>3, LetGoSafe
  <2>4. CASE HookFault /\ Reschedule(d) /\ NextPass(d)
    <3>1. hookFaults' \in Nat
      BY <1>0, <2>4 DEF HookFault
    <3> QED  BY <2>1, <2>4, <3>1, RescheduleSafe
  <2> QED  BY <1>1, <2>2, <2>3, <2>4 DEF Look
<1>2. CASE SendHeard(d)
  <2>1. held[d] # NoEvent
    BY <1>2 DEF SendHeard, HandsFull
  <2> QED  BY <1>0, <1>2, <2>1, LetGoSafe DEF SendHeard
<1>3. CASE SendRefused(d)
  <2>1. held[d] # NoEvent
    BY <1>3 DEF SendRefused, HandsFull
  <2>2. CASE Bury(d)
    BY <1>0, <1>3, <2>1, <2>2, LetGoSafe DEF SendRefused, Bury
  <2>3. CASE Reschedule(d)
    BY <1>0, <1>3, <2>1, <2>3, RescheduleSafe DEF SendRefused
  <2> QED  BY <1>3, <2>2, <2>3 DEF SendRefused
<1>4. CASE DispatchAbort(d)
  <2>1. /\ UNCHANGED <<vars, webhooks, sub, owed, queue, later>>
        /\ dpc' = [dpc EXCEPT ![d] = "idle"] /\ held' = [held EXCEPT ![d] = NoEvent]
        /\ due' \in [Dispatchers -> SUBSET CallbackEvents] /\ hookFaults' \in Nat
    BY <1>0, <1>4 DEF DispatchAbort, HookFault
  <2>2. CASE held[d] # NoEvent
    BY <1>4, <2>1, <2>2, LetGoSafe DEF DispatchAbort
  <2>3. CASE held[d] = NoEvent
    <3>1. UNCHANGED fate /\ held' = held
      BY <1>4, <2>1, <2>3 DEF DispatchAbort, HookTypeOK
    <3>2. HookTypeOK'
      BY <2>1, <3>1 DEF HookTypeOK
    <3>3. HandsFull'
      BY <2>1, <2>3, <3>1 DEF HandsFull, HookTypeOK
    <3>4. OneOwner' /\ \A c \in Cancels : Somewhere(c)' <=> Somewhere(c)
      BY <2>1, <3>1 DEF OneOwner, Somewhere
    <3>5. UnderWay' /\ Announcing'
      BY <2>1, <3>1, <3>4, AnnouncingKept DEF UnderWay
    <3> QED  BY <3>2, <3>3, <3>4, <3>5
  <2> QED  BY <2>2, <2>3
<1> QED  BY <1>1, <1>2, <1>3, <1>4

-----------------------------------------------------------------------------
(* Results *)

LEMMA NextHookSafe ==
  ASSUME Safe, HookSafe, [HookNext]_<<vars, hookVars>>
  PROVE  HookSafe'
<1>1. CASE (CommandStep /\ UNCHANGED hookVars) \/ UNCHANGED <<vars, hookVars>>
  BY <1>1, CommandSafe
<1>2. CASE \E c \in Cancels : CancelOwes(c) \/ CancelMute(c) \/ EnqueueCancel(c)
  BY <1>2, CancelSafe
<1>3. CASE \E u \in Users : PutWebhook(u) \/ DeleteWebhook(u)
  BY <1>3, SubscribeSafe
<1>4. CASE \E d \in Dispatchers : PromoteRead(d) \/ \E e \in due[d] : PromoteTake(d, e)
  BY <1>4, PromoteSafe
<1>5. CASE \E d \in Dispatchers : PromotePush(d)
  BY <1>5, PushSafe
<1>6. CASE \E d \in Dispatchers : Pop(d)
  BY <1>6, PopSafe
<1>7. CASE \E d \in Dispatchers : Look(d) \/ SendHeard(d) \/ SendRefused(d) \/ DispatchAbort(d)
  BY <1>7, HandSafe
<1> QED  BY <1>1, <1>2, <1>3, <1>4, <1>5, <1>6, <1>7 DEF HookNext

LEMMA AlwaysHookSafe == HookSpec => []HookSafe
<1>1. HookSpec => []Safe
  BY CallbacksImplementCommand, AlwaysSafe
<1> QED  BY <1>1, InitHookSafe, NextHookSafe, PTL DEF HookSpec

(* Every reachable state of the dispatchers is well typed.                   *)
THEOREM CallbacksTypeCorrect == HookSpec => []HookTypeOK
<1>1. HookSafe => HookTypeOK
  BY DEF HookSafe
<1> QED  BY <1>1, AlwaysHookSafe, PTL

LEMMA OwnerIsPlace == HookSafe => EventsHaveOnePlace
<1> SUFFICES ASSUME HookSafe, NEW c \in Cancels
             PROVE  /\ fate[c] = "open" => \E p \in Places(c) : Places(c) = {p}
                    /\ fate[c] # "open" => Places(c) = {}
                    /\ fate[c] # "none" => status[CancelOf[c]] = "CANCELLED"
  BY DEF EventsHaveOnePlace
<1> USE DEF HookSafe
<1>1. ASSUME NEW i \in 1 .. Len(queue), queue[i].of = c PROVE Places(c) = {<<"queue", i>>}
  BY <1>1 DEF Places, OneOwner
<1>2. ASSUME NEW e \in later, e.of = c PROVE Places(c) = {<<"later", e>>}
  BY <1>2 DEF Places, OneOwner
<1>3. ASSUME NEW d \in Dispatchers, held[d] # NoEvent, held[d].of = c PROVE Places(c) = {<<"held", d>>}
  BY <1>3 DEF Places, OneOwner
<1>4. ~Somewhere(c) => Places(c) = {}
  BY DEF Places, Somewhere
<1>5. Somewhere(c) => \E p \in Places(c) : Places(c) = {p}
  BY <1>1, <1>2, <1>3 DEF Somewhere
<1> QED  BY <1>4, <1>5 DEF UnderWay, Announcing

(* The event of a cancel under way is in one place, although two dispatchers *)
(* may read it from the schedule and hand-overs fail half-way; one that was  *)
(* told, buried, skipped or lost is in none, so it is never posted again.    *)
THEOREM EventsAlwaysHaveOnePlace == HookSpec => []EventsHaveOnePlace
BY OwnerIsPlace, AlwaysHookSafe, PTL

=============================================================================

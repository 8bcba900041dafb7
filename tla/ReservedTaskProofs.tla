-------------------------- MODULE ReservedTaskProofs --------------------------
(***************************************************************************)
(* Proofs about ReservedTask, for any users, requests, tasks, cancels,     *)
(* workers, credits and faults.                                            *)
(*                                                                         *)
(* Most actions concern the money in one of six ways: they admit the tasks *)
(* of a request, settle a task, mark it running, let its reservation pass  *)
(* expires_at, adjust a user's credits, or leave all of these alone.       *)
(* NextEffect proves this once, by cases on the actions; the invariants    *)
(* about money, statuses and events are proved by cases on the effects.    *)
(***************************************************************************)
EXTENDS ReservedTask, TLAPS, FiniteSetTheorems

-----------------------------------------------------------------------------
(* The effects of a step *)

Admits(r) == rpc[r] = "idle" /\ rpc'[r] # "idle" /\ AdmitTasks(r)

(* An outcome of a task run inline need not be announced. *)
Settles(t) ==
  /\ Open(t)
  /\ \E st \in Terminal :
       /\ SetStatus(t, st)
       /\ \/ st = "COMPLETED" /\ Capture(t)
          \/ st # "COMPLETED" /\ Refund(t)
       /\ \/ Emit(t, st)
          \/ ReqOf[t] \in SyncReqs /\ UNCHANGED events

Marks(t) ==
  /\ status[t] = "PENDING" /\ SetStatus(t, "RUNNING")
  /\ UNCHANGED <<moneyVars, resv, events>>

Ages(t) ==
  /\ resv[t] = "RESERVED" /\ resv' = [resv EXCEPT ![t] = "OVERDUE"]
  /\ UNCHANGED <<moneyVars, status, events>>

Pays(u) ==
  \E n \in Int : /\ credits[u] + n >= 0
                 /\ credits' = [credits EXCEPT ![u] = @ + n]
                 /\ granted' = [granted EXCEPT ![u] = @ + n]
                 /\ UNCHANGED <<taskVars, events>>

Idles == UNCHANGED <<moneyVars, taskVars, events>>

Effect ==
  \/ \E r \in Reqs : Admits(r)
  \/ \E t \in Tasks : Settles(t) \/ Marks(t) \/ Ages(t)
  \/ \E u \in Users : Pays(u)
  \/ Idles

(* A worker away from "idle" has a task, and only inline requests run one. *)
Busy ==
  /\ \A w \in Workers : wpc[w] # "idle" => job[w] \in Tasks
  /\ \A r \in Reqs : rpc[r] \in {"mark", "execute", "timeout", "fail"} => r \in SyncReqs

-----------------------------------------------------------------------------
LEMMA RequestEffect ==
  ASSUME rpc \in [Reqs -> {"idle"} \cup RequestSteps \cup RequestEnds],
         NEW r \in Reqs, Admit(r) \/ AdmitError(r) \/ SubmitCache(r) \/ RequestAbort(r)
  PROVE  Effect
<1>1. CASE Admit(r)
  <2>1. CASE AdmitTasks(r) /\ GoRequest(r, IF r \in SyncReqs THEN "mark" ELSE "cache")
    BY <1>1, <2>1 DEF Admit, Effect, Admits, GoRequest
  <2> QED  BY <1>1, <2>1 DEF Admit, Effect, Idles
<1>2. CASE AdmitError(r)
  <2>1. CASE AdmitTasks(r)
    BY <1>2, <2>1 DEF AdmitError, Effect, Admits, GoRequest
  <2> QED  BY <1>2, <2>1 DEF AdmitError, Effect, Idles
<1>3. CASE SubmitCache(r) \/ RequestAbort(r)
  BY <1>3 DEF SubmitCache, RequestAbort, Effect, Idles
<1> QED  BY <1>1, <1>2, <1>3

LEMMA InlineEffect ==
  ASSUME Busy, NEW t \in Tasks, Inline(t) \/ SyncFinishError(t)
  PROVE  Effect
<1> USE ConstantsOK DEF ConstantsOK
<1>1. CASE SyncMark(t)
  BY <1>1 DEF SyncMark, Effect, Marks, Idles, taskVars
<1>2. ReqOf[t] \in Reqs
  OBVIOUS
<1>3. CASE SyncFinish(t) \/ SyncFinishError(t)
  <2>1. ReqOf[t] \in SyncReqs /\ UNCHANGED events
    BY <1>2, <1>3 DEF SyncFinish, SyncFinishError, Busy
  <2>2. CASE FinishInline(t)
    BY <2>1, <2>2 DEF FinishInline, Effect, Settles, Terminal
  <2> QED  BY <1>3, <2>1, <2>2 DEF SyncFinish, SyncFinishError, Effect, Idles
<1>4. CASE SyncFail(t)
  <2>1. ReqOf[t] \in SyncReqs /\ UNCHANGED events
    BY <1>2, <1>4 DEF SyncFail, Busy
  <2>2. CASE UNCHANGED <<moneyVars, taskVars>>
    BY <2>1, <2>2 DEF Effect, Idles
  <2>3. CASE /\ Open(t) /\ Refund(t)
             /\ SetStatus(t, IF rpc[ReqOf[t]] = "fail" THEN "FAILED" ELSE "TIMEOUT")
    BY <2>1, <2>3 DEF Effect, Settles, Terminal
  <2> QED  BY <1>4, <2>2, <2>3 DEF SyncFail
<1> QED  BY <1>1, <1>3, <1>4 DEF Inline

LEMMA CancelEffect ==
  ASSUME NEW c \in Cancels,
         CancelRead(c) \/ CancelTransact(c) \/ CancelSync(c) \/ CancelAbort(c)
  PROVE  Effect
<1> USE ConstantsOK DEF ConstantsOK
<1>1. CancelOf[c] \in Tasks
  OBVIOUS
<1>2. CASE CancelTransact(c)
  BY <1>1, <1>2 DEF CancelTransact, Effect, Settles, Terminal, Idles
<1> QED  BY <1>2 DEF CancelRead, CancelSync, CancelAbort, Effect, Idles

LEMMA AdjustEffect ==
  ASSUME NEW a \in Adjusts, Adjust(a)
  PROVE  Effect
<1>1. AdjustUser[a] \in Users /\ AdjustBy[a] \in Int
  BY ConstantsOK DEF ConstantsOK
<1>2. Pays(AdjustUser[a])
  BY <1>1 DEF Adjust, AdjustCredits, Pays
<1> QED  BY <1>1, <1>2 DEF Effect

LEMMA WorkEffect ==
  ASSUME Busy, NEW w \in Workers, Work(w) \/ WorkDrop(w)
  PROVE  Effect
<1>1. CASE (\E t \in Tasks : WorkTake(w, t)) \/ WorkCache(w) \/ WorkDrop(w)
  BY <1>1 DEF WorkTake, WorkCache, WorkDrop, Effect, Idles
<1>2. CASE WorkMark(w)
  <2>1. job[w] \in Tasks
    BY <1>2 DEF WorkMark, Busy
  <2> QED  BY <1>2, <2>1 DEF WorkMark, Effect, Marks, Idles, taskVars
<1>3. CASE WorkSucceed(w)
  <2>1. job[w] \in Tasks
    BY <1>3 DEF WorkSucceed, Persist, Busy
  <2> QED  BY <1>3, <2>1 DEF WorkSucceed, Persist, Effect, Settles, Terminal, Idles
<1>4. CASE WorkFail(w)
  <2>1. job[w] \in Tasks
    BY <1>4 DEF WorkFail, Persist, Busy
  <2> QED  BY <1>4, <2>1 DEF WorkFail, Persist, Effect, Settles, Terminal, Idles
<1> QED  BY <1>1, <1>2, <1>3, <1>4 DEF Work

LEMMA NextEffect ==
  ASSUME rpc \in [Reqs -> {"idle"} \cup RequestSteps \cup RequestEnds], Busy, [Next]_vars
  PROVE  Effect
<1>1. CASE \E r \in Reqs : Admit(r) \/ AdmitError(r) \/ SubmitCache(r) \/ RequestAbort(r)
  BY <1>1, RequestEffect
<1>2. CASE \E t \in Tasks : Inline(t) \/ SyncFinishError(t)
  BY <1>2, InlineEffect
<1>3. CASE \E c \in Cancels :
             CancelRead(c) \/ CancelTransact(c) \/ CancelSync(c) \/ CancelAbort(c)
  BY <1>3, CancelEffect
<1>4. CASE \E a \in Adjusts : Adjust(a)
  BY <1>4, AdjustEffect
<1>5. CASE \E w \in Workers : Work(w) \/ WorkDrop(w)
  BY <1>5, WorkEffect
<1>6. CASE \E t \in Tasks : Publish(t)
  BY <1>6 DEF Publish, Effect, Idles
<1>7. CASE \E t \in Tasks : Overdue(t)
  BY <1>7 DEF Overdue, Effect, Ages
<1>8. CASE \E t \in Tasks : WatchExpire(t)
  BY <1>8 DEF WatchExpire, Effect, Settles, Terminal
<1>9. CASE Unlink \/ WatchCache \/ WatchAbort \/ UNCHANGED vars
  BY <1>9 DEF Unlink, WatchCache, WatchAbort, vars, moneyVars, taskVars, Effect, Idles
<1> QED  BY <1>1, <1>2, <1>3, <1>4, <1>5, <1>6, <1>7, <1>8, <1>9 DEF Next

-----------------------------------------------------------------------------
(* Statuses and reservations *)

(* A request that has not begun has no task. *)
Fresh == \A r \in Reqs : rpc[r] = "idle" => \A t \in TasksOf(r) : status[t] = "none"

LEMMA RequestsBeginOnce ==
  ASSUME rpc \in [Reqs -> {"idle"} \cup RequestSteps \cup RequestEnds], [Next]_vars,
         NEW r \in Reqs, rpc'[r] = "idle"
  PROVE  rpc[r] = "idle"
<1> USE DEF GoRequest
<1>1. ASSUME NEW q \in Reqs, Admit(q) \/ AdmitError(q) \/ SubmitCache(q) \/ RequestAbort(q)
      PROVE  rpc[r] = "idle"
  BY <1>1 DEF Admit, AdmitError, SubmitCache, RequestAbort
<1>2. ASSUME NEW t \in Tasks, Inline(t) \/ SyncFinishError(t)
      PROVE  rpc[r] = "idle"
  BY <1>2 DEF Inline, SyncMark, SyncFinish, SyncFail, SyncFinishError
<1>3. ASSUME NEW c \in Cancels,
             CancelRead(c) \/ CancelTransact(c) \/ CancelSync(c) \/ CancelAbort(c)
      PROVE  rpc[r] = "idle"
  BY <1>3 DEF CancelRead, CancelTransact, CancelSync, CancelAbort, GoCancel
<1>4. ASSUME NEW a \in Adjusts, Adjust(a) PROVE rpc[r] = "idle"
  BY <1>4 DEF Adjust, AdjustCredits
<1>5. ASSUME NEW w \in Workers, Work(w) \/ WorkDrop(w) PROVE rpc[r] = "idle"
  BY <1>5 DEF Work, WorkTake, WorkMark, WorkSucceed, WorkFail, Persist, WorkCache,
    WorkDrop, reqVars
<1>6. ASSUME NEW t \in Tasks, Publish(t) \/ Overdue(t) \/ WatchExpire(t)
      PROVE  rpc[r] = "idle"
  BY <1>6 DEF Publish, Overdue, WatchExpire, reqVars
<1>7. CASE Unlink \/ WatchCache \/ WatchAbort \/ UNCHANGED vars
  BY <1>7 DEF Unlink, WatchCache, WatchAbort, vars, reqVars
<1> QED  BY <1>1, <1>2, <1>3, <1>4, <1>5, <1>6, <1>7 DEF Next

(* The rows of one task move together, in every effect. *)
LEMMA RowTypes ==
  ASSUME status \in [Tasks -> Statuses], resv \in [Tasks -> ResvStates], Effect
  PROVE  status' \in [Tasks -> Statuses] /\ resv' \in [Tasks -> ResvStates]
<1> USE DEF Statuses, ResvStates, Reserved, Cancellable, Terminal
<1>1. ASSUME NEW r \in Reqs, Admits(r) PROVE status' \in [Tasks -> Statuses] /\ resv' \in [Tasks -> ResvStates]
  BY <1>1 DEF Admits, AdmitTasks, AdmitRows
<1>2. ASSUME NEW t \in Tasks, Settles(t) \/ Marks(t) \/ Ages(t)
      PROVE  status' \in [Tasks -> Statuses] /\ resv' \in [Tasks -> ResvStates]
  BY <1>2 DEF Settles, Marks, Ages, SetStatus, Capture, Refund
<1> QED  BY <1>1, <1>2 DEF Effect, Pays, Idles, taskVars

LEMMA MatchNext ==
  ASSUME status \in [Tasks -> Statuses], resv \in [Tasks -> ResvStates],
         HoldMatchesStatus, Effect
  PROVE  HoldMatchesStatus'
<1> USE DEF HoldMatchesStatus, Statuses, ResvStates, Reserved, Cancellable, Terminal
<1>1. ASSUME NEW r \in Reqs, Admits(r) PROVE HoldMatchesStatus'
  BY <1>1 DEF Admits, AdmitTasks, AdmitRows
<1>2. ASSUME NEW t \in Tasks, Settles(t) PROVE HoldMatchesStatus'
  BY <1>2 DEF Settles, Open, SetStatus, Capture, Refund
<1>3. ASSUME NEW t \in Tasks, Marks(t) \/ Ages(t) PROVE HoldMatchesStatus'
  BY <1>3 DEF Marks, Ages, SetStatus
<1> QED  BY <1>1, <1>2, <1>3 DEF Effect, Pays, Idles, taskVars

LEMMA FreshNext ==
  ASSUME rpc \in [Reqs -> {"idle"} \cup RequestSteps \cup RequestEnds],
         status \in [Tasks -> Statuses], Fresh, Effect, [Next]_vars
  PROVE  Fresh'
<1> SUFFICES ASSUME NEW r \in Reqs, rpc'[r] = "idle", NEW t \in TasksOf(r)
             PROVE  status'[t] = "none"
  BY DEF Fresh, TasksOf
<1>1. rpc[r] = "idle" /\ status[t] = "none" /\ t \in Tasks /\ ReqOf[t] = r
  BY RequestsBeginOnce DEF Fresh, TasksOf
<1>2. ASSUME NEW q \in Reqs, Admits(q) PROVE status'[t] = "none"
  <2>1. t \notin TasksOf(q)
    BY <1>1, <1>2 DEF Admits, TasksOf
  <2> QED  BY <1>1, <1>2, <2>1 DEF Admits, AdmitTasks, AdmitRows
<1>3. ASSUME NEW s \in Tasks, Settles(s) \/ Marks(s) \/ Ages(s) PROVE status'[t] = "none"
  BY <1>1, <1>3 DEF Settles, Marks, Ages, Open, SetStatus, Cancellable
<1> QED  BY <1>1, <1>2, <1>3 DEF Effect, Pays, Idles, taskVars

-----------------------------------------------------------------------------
(* Credits *)

(* The tasks whose cost the user does not have. *)
Charged(u, rs) == {t \in Tasks : OwnerOf[t] = u /\ rs[t] \in Reserved \cup {"CAPTURED"}}

LEMMA SameTaken ==
  ASSUME NEW u
  PROVE  Billing!Taken(u, [t \in Tasks |-> HoldOf(resv[t])]) = Charged(u, resv)
BY DEF Billing!Taken, Charged, HoldOf, Reserved

LEMMA SameAvailable ==
  ASSUME NEW u
  PROVE  Billing!Available(u) = granted[u] - Cost * Cardinality(Charged(u, resv))
<1>1. Billing!Cardinality(Charged(u, resv)) = Cardinality(Charged(u, resv))
  BY Zenon DEF Billing!Cardinality, Cardinality
<1> QED  BY <1>1, SameTaken DEF Billing!Available

LEMMA ChargedFinite ==
  ASSUME NEW u, NEW rs
  PROVE  IsFiniteSet(Charged(u, rs)) /\ Cardinality(Charged(u, rs)) \in Nat
BY ConstantsOK, FS_Subset, FS_CardinalityType DEF ConstantsOK, Charged

LEMMA TasksOfFinite ==
  ASSUME NEW r
  PROVE  IsFiniteSet(TasksOf(r)) /\ Cardinality(TasksOf(r)) \in Nat
BY ConstantsOK, FS_Subset, FS_CardinalityType DEF ConstantsOK, TasksOf

(* What a settled task was worth to its owner. *)
LEMMA ChargedSettled ==
  ASSUME resv \in [Tasks -> ResvStates], NEW t \in Tasks, resv[t] \in Reserved,
         resv' = [resv EXCEPT ![t] = "RELEASED"], NEW u \in Users
  PROVE  Cardinality(Charged(u, resv')) =
           IF u = OwnerOf[t] THEN Cardinality(Charged(u, resv)) - 1
                             ELSE Cardinality(Charged(u, resv))
<1> USE DEF Charged, Reserved, ResvStates
<1>1. CASE u = OwnerOf[t]
  <2>1. Charged(u, resv') = Charged(u, resv) \ {t} /\ t \in Charged(u, resv)
    BY <1>1
  <2> HIDE DEF Charged
  <2>2. IsFiniteSet(Charged(u, resv))
    BY ChargedFinite
  <2> QED  BY <1>1, <2>1, <2>2, FS_RemoveElement
<1>2. CASE u # OwnerOf[t]
  <2>1. Charged(u, resv') = Charged(u, resv)
    BY <1>2
  <2> HIDE DEF Charged
  <2> QED  BY <1>2, <2>1
<1> QED  BY <1>1, <1>2

LEMMA ChargedAdmitted ==
  ASSUME NEW r \in Reqs, resv \in [Tasks -> ResvStates],
         \A t \in TasksOf(r) : resv[t] = "none",
         resv' = [t \in Tasks |-> IF t \in TasksOf(r) THEN "RESERVED" ELSE resv[t]],
         NEW u \in Users
  PROVE  Cardinality(Charged(u, resv')) =
           IF u = UserOf[r] THEN Cardinality(Charged(u, resv)) + Cardinality(TasksOf(r))
                            ELSE Cardinality(Charged(u, resv))
<1>1. \A t \in TasksOf(r) : t \in Tasks /\ OwnerOf[t] = UserOf[r]
  BY DEF TasksOf, OwnerOf
<1>2. CASE u = UserOf[r]
  <2>1. /\ Charged(u, resv') = Charged(u, resv) \cup TasksOf(r)
        /\ Charged(u, resv) \cap TasksOf(r) = {}
    BY <1>1, <1>2 DEF Charged, Reserved
  <2>2. Cardinality({}) = 0
    BY FS_EmptySet
  <2>3. IsFiniteSet(Charged(u, resv)) /\ IsFiniteSet(TasksOf(r))
    BY ChargedFinite, TasksOfFinite
  <2>4. Cardinality(Charged(u, resv)) \in Nat /\ Cardinality(TasksOf(r)) \in Nat
    BY ChargedFinite, TasksOfFinite
  <2>5. Cardinality(Charged(u, resv) \cup TasksOf(r)) =
          Cardinality(Charged(u, resv)) + Cardinality(TasksOf(r))
            - Cardinality(Charged(u, resv) \cap TasksOf(r))
    BY <2>3, FS_Union
  <2>6. Cardinality(Charged(u, resv) \cap TasksOf(r)) = 0
    BY <2>1, <2>2
  <2>7. Cardinality(Charged(u, resv')) = Cardinality(Charged(u, resv) \cup TasksOf(r))
    BY <2>1
  <2> HIDE DEF Charged, TasksOf
  <2> QED  BY <1>2, <2>4, <2>5, <2>6, <2>7
<1>3. CASE u # UserOf[r]
  <2>1. Charged(u, resv') = Charged(u, resv)
    BY <1>1, <1>3 DEF Charged
  <2> QED  BY <1>3, <2>1
<1> QED  BY <1>2, <1>3

(* Nothing but an admission and a refund changes what is charged. *)
LEMMA ChargedKept ==
  ASSUME resv \in [Tasks -> ResvStates], NEW u \in Users, NEW t \in Tasks,
         \/ resv[t] \in Reserved /\ resv' = [resv EXCEPT ![t] = "CAPTURED"]
         \/ resv[t] = "RESERVED" /\ resv' = [resv EXCEPT ![t] = "OVERDUE"]
         \/ resv' = resv
  PROVE  Charged(u, resv') = Charged(u, resv)
BY DEF Charged, Reserved, ResvStates

(* CreditsConserved without the abstract specification's names. *)
Conserved == \A u \in Users : credits[u] = granted[u] - Cost * Cardinality(Charged(u, resv))

LEMMA ConservedMeans == Conserved <=> CreditsConserved
BY SameAvailable DEF Conserved, CreditsConserved

LEMMA Distribute ==
  ASSUME NEW c \in Nat, NEW m \in Int, NEW n \in Int
  PROVE  c * (m + n) = c * m + c * n /\ c * (m - n) = c * m - c * n /\ c * m \in Int
OBVIOUS

RowsAndMoney ==
  /\ credits \in [Users -> Nat] /\ granted \in [Users -> Nat]
  /\ status \in [Tasks -> Statuses] /\ resv \in [Tasks -> ResvStates]

LEMMA ConservedNext ==
  ASSUME RowsAndMoney, HoldMatchesStatus, Fresh, Conserved, Effect
  PROVE  Conserved' /\ credits' \in [Users -> Nat] /\ granted' \in [Users -> Nat]
<1> USE DEF RowsAndMoney
<1> Cost \in Nat
  BY ConstantsOK DEF ConstantsOK
<1> DEFINE n(u) == Cardinality(Charged(u, resv))
           next(u) == Cardinality(Charged(u, resv'))
<1>1. \A u \in Users : n(u) \in Nat /\ next(u) \in Nat
  BY ChargedFinite
<1> SUFFICES /\ credits' \in [Users -> Nat] /\ granted' \in [Users -> Int]
             /\ \A u \in Users : credits'[u] = granted'[u] - Cost * next(u)
  <2>1. ASSUME NEW u \in Users, credits'[u] = granted'[u] - Cost * next(u),
               credits'[u] \in Nat, granted'[u] \in Int
        PROVE  granted'[u] \in Nat
    <3>1. Cost * next(u) \in Nat
      BY <1>1
    <3> QED  BY <2>1, <3>1
  <2> HIDE DEF next
  <2>2. ASSUME granted' \in [Users -> Int], \A u \in Users : granted'[u] \in Nat
        PROVE  granted' \in [Users -> Nat]
    BY <2>2
  <2> QED  BY <2>1, <2>2 DEF Conserved, next
<1>2. \A u \in Users : credits[u] = granted[u] - Cost * n(u)
  BY DEF Conserved
<1>3. ASSUME NEW r \in Reqs, Admits(r)
      PROVE  /\ credits' \in [Users -> Nat] /\ granted' \in [Users -> Int]
             /\ \A u \in Users : credits'[u] = granted'[u] - Cost * next(u)
  <2> DEFINE k == Cardinality(TasksOf(r))
  <2>1. UserOf[r] \in Users /\ k \in Nat
    BY ConstantsOK, TasksOfFinite DEF ConstantsOK
  <2>2. \A t \in TasksOf(r) : resv[t] = "none"
    BY <1>3 DEF Admits, Fresh, HoldMatchesStatus, TasksOf
  <2>3. resv' = [t \in Tasks |-> IF t \in TasksOf(r) THEN "RESERVED" ELSE resv[t]]
    BY <1>3 DEF Admits, AdmitTasks, AdmitRows
  <2>4. \A u \in Users : next(u) = IF u = UserOf[r] THEN n(u) + k ELSE n(u)
    BY <2>2, <2>3, ChargedAdmitted
  <2>5. /\ credits[UserOf[r]] >= Cost * k /\ granted' = granted
        /\ credits' = [credits EXCEPT ![UserOf[r]] = @ - Cost * k]
    <3>1. Cost * k \in Nat
      BY <2>1
    <3> QED  BY <1>3, <2>1, <3>1 DEF Admits, AdmitTasks, AdmitRows, Refused
  <2>6. Cost * (n(UserOf[r]) + k) = Cost * n(UserOf[r]) + Cost * k
    BY <1>1, <2>1, Distribute
  <2>7. Cost * k \in Nat /\ \A u \in Users : Cost * n(u) \in Nat
    BY <1>1, <2>1
  <2> HIDE DEF n, next, k
  <2> QED  BY <1>1, <1>2, <2>1, <2>4, <2>5, <2>6, <2>7
<1>4. ASSUME NEW t \in Tasks, Settles(t), Refund(t)
      PROVE  /\ credits' \in [Users -> Nat] /\ granted' \in [Users -> Int]
             /\ \A u \in Users : credits'[u] = granted'[u] - Cost * next(u)
  <2>1. OwnerOf[t] \in Users
    BY ConstantsOK DEF ConstantsOK, OwnerOf
  <2>2. resv[t] \in Reserved /\ resv' = [resv EXCEPT ![t] = "RELEASED"]
    BY <1>4 DEF Settles, Open, Refund
  <2>3. \A u \in Users : next(u) = IF u = OwnerOf[t] THEN n(u) - 1 ELSE n(u)
    BY <2>2, ChargedSettled
  <2>4. credits' = [credits EXCEPT ![OwnerOf[t]] = @ + Cost] /\ granted' = granted
    BY <1>4 DEF Refund
  <2>5. Cost * (n(OwnerOf[t]) - 1) = Cost * n(OwnerOf[t]) - Cost
    BY <1>1, <2>1, Distribute
  <2>6. \A u \in Users : Cost * n(u) \in Nat
    BY <1>1
  <2> HIDE DEF n, next
  <2> QED  BY <1>1, <1>2, <2>1, <2>3, <2>4, <2>5, <2>6
<1>5. ASSUME NEW t \in Tasks,
             \/ Settles(t) /\ Capture(t)
             \/ Marks(t)
             \/ Ages(t)
      PROVE  /\ credits' \in [Users -> Nat] /\ granted' \in [Users -> Int]
             /\ \A u \in Users : credits'[u] = granted'[u] - Cost * next(u)
  <2>1. UNCHANGED moneyVars
    BY <1>5 DEF Capture, Marks, Ages
  <2>2. \A u \in Users : Charged(u, resv') = Charged(u, resv)
    BY <1>5, ChargedKept DEF Settles, Open, Capture, Marks, Ages
  <2> QED  BY <1>2, <2>1, <2>2 DEF moneyVars
<1>6. ASSUME NEW u \in Users, Pays(u)
      PROVE  /\ credits' \in [Users -> Nat] /\ granted' \in [Users -> Int]
             /\ \A v \in Users : credits'[v] = granted'[v] - Cost * next(v)
  <2>1. \A v \in Users : next(v) = n(v) /\ Cost * n(v) \in Nat
    BY <1>1, <1>6 DEF Pays, taskVars
  <2> HIDE DEF n, next
  <2> QED  BY <1>2, <1>6, <2>1 DEF Pays
<1>7. ASSUME Idles
      PROVE  /\ credits' \in [Users -> Nat] /\ granted' \in [Users -> Int]
             /\ \A u \in Users : credits'[u] = granted'[u] - Cost * next(u)
  BY <1>2, <1>7 DEF Idles, moneyVars, taskVars
<1> HIDE DEF n, next
<1> QED  BY <1>3, <1>4, <1>5, <1>6, <1>7 DEF Effect, Settles

-----------------------------------------------------------------------------
(* Type correctness, with what it needs to be inductive *)

(* TypeOK but for the rows and the money. *)
RestTypes ==
  /\ events \in [Tasks -> Seq(Events)]
  /\ published \in [Tasks -> Nat]
  /\ linked \in BOOLEAN
  /\ lane \in [Tasks -> Nat]
  /\ inbox \subseteq Tasks
  /\ rpc \in [Reqs -> {"idle"} \cup RequestSteps \cup RequestEnds]
  /\ cpc \in [Cancels -> {"idle", "cancelled", "ended"} \cup CancelSteps]
  /\ apc \in [Adjusts -> {"idle", "ended"}]
  /\ wpc \in [Workers -> WorkSteps]
  /\ job \in [Workers -> Tasks \cup {NoTask}]
  /\ wdog \in Tasks \cup {NoTask}
  /\ faults \in Nat

LEMMA TypeOKSplits == TypeOK <=> RowsAndMoney /\ RestTypes
BY DEF TypeOK, RowsAndMoney, RestTypes

LEMMA EventsType ==
  ASSUME events \in [Tasks -> Seq(Events)], Effect
  PROVE  events' \in [Tasks -> Seq(Events)]
<1>1. ASSUME NEW r \in Reqs, Admits(r) PROVE events' \in [Tasks -> Seq(Events)]
  <2>1. <<"submitted">> \in Seq(Events)
    BY DEF Events
  <2> QED  BY <1>1, <2>1 DEF Admits, AdmitTasks, AdmitRows
<1>2. ASSUME NEW t \in Tasks, Settles(t) PROVE events' \in [Tasks -> Seq(Events)]
  <2>1. PICK st \in Terminal : events' = [events EXCEPT ![t] = Append(@, st)] \/ events' = events
    BY <1>2 DEF Settles, Emit
  <2>2. Append(events[t], st) \in Seq(Events)
    BY <2>1 DEF Events
  <2> QED  BY <2>1, <2>2
<1> QED  BY <1>1, <1>2 DEF Effect, Marks, Ages, Pays, Idles

LEMMA RequestTypes ==
  ASSUME RestTypes, Busy, events' \in [Tasks -> Seq(Events)], NEW r \in Reqs,
         Admit(r) \/ AdmitError(r) \/ SubmitCache(r) \/ RequestAbort(r)
  PROVE  RestTypes' /\ Busy'
<1> USE DEF RestTypes, Busy, GoRequest, relayVars, workVars, RequestSteps, RequestEnds
<1>1. CASE Admit(r)
  BY <1>1 DEF Admit
<1>2. CASE AdmitError(r)
  BY <1>2 DEF AdmitError, Fault
<1>3. CASE SubmitCache(r)
  BY <1>3 DEF SubmitCache
<1>4. CASE RequestAbort(r)
  BY <1>4 DEF RequestAbort, Fault
<1> QED  BY <1>1, <1>2, <1>3, <1>4

LEMMA InlineTypes ==
  ASSUME RestTypes, Busy, NEW t \in Tasks, Inline(t) \/ SyncFinishError(t)
  PROVE  RestTypes' /\ Busy'
<1> USE DEF RestTypes, Busy, GoRequest, relayVars, workVars, RequestSteps, RequestEnds
<1>1. ReqOf[t] \in Reqs
  BY ConstantsOK DEF ConstantsOK
<1>2. CASE SyncMark(t)
  BY <1>1, <1>2 DEF SyncMark
<1>3. CASE SyncFinish(t)
  BY <1>1, <1>3 DEF SyncFinish
<1>4. CASE SyncFinishError(t)
  BY <1>1, <1>4 DEF SyncFinishError, Fault
<1>5. CASE SyncFail(t)
  BY <1>1, <1>5 DEF SyncFail
<1> QED  BY <1>2, <1>3, <1>4, <1>5 DEF Inline

LEMMA CancelTypes ==
  ASSUME RestTypes, Busy, events' \in [Tasks -> Seq(Events)], NEW c \in Cancels,
         CancelRead(c) \/ CancelTransact(c) \/ CancelSync(c) \/ CancelAbort(c)
  PROVE  RestTypes' /\ Busy'
<1> USE DEF RestTypes, Busy, GoCancel, relayVars, workVars, CancelSteps
<1>1. CASE CancelRead(c)
  BY <1>1 DEF CancelRead
<1>2. CASE CancelTransact(c)
  BY <1>2 DEF CancelTransact
<1>3. CASE CancelSync(c)
  BY <1>3 DEF CancelSync
<1>4. CASE CancelAbort(c)
  BY <1>4 DEF CancelAbort, Fault
<1> QED  BY <1>1, <1>2, <1>3, <1>4

LEMMA WorkTypes ==
  ASSUME RestTypes, Busy, events' \in [Tasks -> Seq(Events)], NEW w \in Workers,
         Work(w) \/ WorkDrop(w)
  PROVE  RestTypes' /\ Busy'
<1> USE DEF RestTypes, Busy, GoWork, Release, reqVars, relayVars, workVars, WorkSteps, Fault
<1>1. ASSUME NEW t \in Tasks, WorkTake(w, t) PROVE RestTypes' /\ Busy'
  <2>1. lane' \in [Tasks -> Nat]
    BY <1>1 DEF WorkTake, Take
  <2>2. wpc' \in [Workers -> WorkSteps] /\ job' \in [Workers -> Tasks \cup {NoTask}] /\ Busy'
    BY <1>1 DEF WorkTake
  <2> QED  BY <1>1, <2>1, <2>2 DEF WorkTake
<1>2. CASE WorkMark(w)
  BY <1>2 DEF WorkMark
<1>3. CASE WorkSucceed(w)
  BY <1>3 DEF WorkSucceed, Persist
<1>4. CASE WorkFail(w)
  BY <1>4 DEF WorkFail, Persist
<1>5. CASE WorkCache(w)
  BY <1>5 DEF WorkCache
<1>6. CASE WorkDrop(w)
  BY <1>6 DEF WorkDrop
<1> QED  BY <1>1, <1>2, <1>3, <1>4, <1>5, <1>6 DEF Work

LEMMA OtherTypes ==
  ASSUME RestTypes, Busy, events' \in [Tasks -> Seq(Events)],
         \/ \E a \in Adjusts : Adjust(a)
         \/ \E t \in Tasks : Publish(t) \/ Overdue(t) \/ WatchExpire(t)
         \/ Unlink \/ WatchCache \/ WatchAbort \/ UNCHANGED vars
  PROVE  RestTypes' /\ Busy'
<1> USE DEF RestTypes, Busy, reqVars, relayVars, workVars
<1>1. CASE \E a \in Adjusts : Adjust(a)
  BY <1>1 DEF Adjust, AdjustCredits
<1>2. ASSUME NEW t \in Tasks, Publish(t) PROVE RestTypes' /\ Busy'
  <2>1. lane' \in [Tasks -> Nat]
    BY <1>2 DEF Publish
  <2>2. published' \in [Tasks -> Nat]
    <3>1. published' = [published EXCEPT ![t] = @ + 1] \/ published' = published
      BY <1>2, Zenon DEF Publish
    <3>2. published \in [Tasks -> Nat]
      OBVIOUS
    <3> HIDE DEF RestTypes, Busy
    <3> QED  BY <3>1, <3>2
  <2>3. faults' \in Nat
    BY <1>2 DEF Publish, Fault
  <2> QED  BY <1>2, <2>1, <2>2, <2>3 DEF Publish
<1>3. ASSUME NEW t \in Tasks, Overdue(t) \/ WatchExpire(t) PROVE RestTypes' /\ Busy'
  BY <1>3 DEF Overdue, WatchExpire
<1>4. CASE WatchCache \/ UNCHANGED vars
  BY <1>4 DEF WatchCache, vars
<1>5. CASE Unlink
  <2>1. faults' \in Nat
    BY <1>5 DEF Unlink, Fault
  <2> QED  BY <1>5, <2>1 DEF Unlink
<1>6. CASE WatchAbort
  BY <1>6 DEF WatchAbort, Fault
<1> QED  BY <1>1, <1>2, <1>3, <1>4, <1>5, <1>6

LEMMA RestNext ==
  ASSUME RestTypes, Busy, [Next]_vars
  PROVE  RestTypes' /\ Busy'
<1>1. events' \in [Tasks -> Seq(Events)]
  BY EventsType, NextEffect DEF RestTypes
<1> QED  BY <1>1, RequestTypes, InlineTypes, CancelTypes, WorkTypes, OtherTypes DEF Next

-----------------------------------------------------------------------------
(* The inductive invariant *)

(* Statuses tell which credits are reserved (HoldMatchesStatus), so a guarded *)
(* update of a status is a guard of the refund beside it; a request that has  *)
(* not begun has no rows (Fresh), so an admission debits new tasks only.      *)
Safe == RowsAndMoney /\ RestTypes /\ Busy /\ Fresh /\ HoldMatchesStatus /\ Conserved

LEMMA InitSafe == Init => Safe
<1> SUFFICES ASSUME Init PROVE Safe
  OBVIOUS
<1> USE ConstantsOK DEF ConstantsOK, Init
<1>1. RowsAndMoney
  BY DEF RowsAndMoney, Statuses, ResvStates
<1>2. RestTypes
  <2>1. <<>> \in Seq(Events)
    OBVIOUS
  <2> QED  BY <2>1 DEF RestTypes, WorkSteps
<1>3. Busy /\ Fresh /\ HoldMatchesStatus
  BY DEF Busy, Fresh, HoldMatchesStatus, TasksOf, Cancellable, Reserved
<1>4. Conserved
  <2>1. ASSUME NEW u \in Users PROVE credits[u] = granted[u] - Cost * Cardinality(Charged(u, resv))
    <3>1. Charged(u, resv) = {}
      BY DEF Charged, Reserved
    <3>2. Cardinality(Charged(u, resv)) = 0
      BY <3>1, FS_EmptySet
    <3> QED  BY <3>2
  <2> QED  BY <2>1 DEF Conserved
<1> QED  BY <1>1, <1>2, <1>3, <1>4 DEF Safe

LEMMA NextSafe ==
  ASSUME Safe, [Next]_vars
  PROVE  Safe'
<1>1. Effect
  BY NextEffect DEF Safe, RestTypes
<1>2. RestTypes' /\ Busy'
  BY RestNext DEF Safe
<1>3. status' \in [Tasks -> Statuses] /\ resv' \in [Tasks -> ResvStates]
  BY <1>1, RowTypes DEF Safe, RowsAndMoney
<1>4. HoldMatchesStatus'
  BY <1>1, MatchNext DEF Safe, RowsAndMoney
<1>5. Fresh'
  BY <1>1, FreshNext DEF Safe, RowsAndMoney, RestTypes
<1>6. Conserved' /\ credits' \in [Users -> Nat] /\ granted' \in [Users -> Nat]
  BY <1>1, ConservedNext DEF Safe
<1> QED  BY <1>2, <1>3, <1>4, <1>5, <1>6 DEF Safe, RowsAndMoney

LEMMA AlwaysSafe == Spec => []Safe
BY InitSafe, NextSafe, PTL DEF Spec

(* Every reachable state is well typed; above all, no balance is negative.   *)
THEOREM TypeCorrect == Spec => []TypeOK
<1>1. Safe => TypeOK
  BY TypeOKSplits DEF Safe
<1> QED  BY <1>1, AlwaysSafe, PTL

(* Whatever worker, cancel, watchdog and inline request do to one task, it is *)
(* paid for when it is completed and only then.                              *)
THEOREM HoldAlwaysMatches == Spec => []HoldMatchesStatus
<1>1. Safe => HoldMatchesStatus
  BY DEF Safe
<1> QED  BY <1>1, AlwaysSafe, PTL

(* Balances, reservations and grants add up: no credit is refunded twice,    *)
(* and none is lost.                                                         *)
THEOREM CreditsAlwaysConserved == Spec => []CreditsConserved
<1>1. Safe => CreditsConserved
  BY ConservedMeans DEF Safe
<1> QED  BY <1>1, AlwaysSafe, PTL

-----------------------------------------------------------------------------
(* The outbox *)

LEMMA Told == ASSUME NEW st PROVE /\ Append(<<"submitted">>, st) = <<"submitted">> \o <<st>>
                                  /\ Append(<<>>, st) = <<st>>
                                  /\ <<"submitted">> \o <<>> = <<"submitted">>
OBVIOUS

(* EventsMatchStatus, by the status of a task. *)
EventsOf(t) ==
  /\ status[t] = "none" => events[t] = <<>>
  /\ status[t] \in Cancellable /\ ReqOf[t] \notin SyncReqs => events[t] = <<"submitted">>
  /\ status[t] \in Cancellable /\ ReqOf[t] \in SyncReqs => events[t] = <<>>
  /\ status[t] \in Terminal /\ ReqOf[t] \notin SyncReqs =>
       events[t] = Append(<<"submitted">>, status[t])
  /\ status[t] \in Terminal /\ ReqOf[t] \in SyncReqs =>
       events[t] = <<>> \/ events[t] = Append(<<>>, status[t])

LEMMA EventsMean ==
  ASSUME status \in [Tasks -> Statuses]
  PROVE  EventsMatchStatus <=> \A t \in Tasks : EventsOf(t)
<1> SUFFICES ASSUME NEW t \in Tasks
             PROVE  EventsOf(t) <=>
                      LET ended == IF status[t] \in Terminal THEN <<status[t]>> ELSE <<>> IN
                      \/ /\ ReqOf[t] \notin SyncReqs /\ status[t] # "none"
                         /\ events[t] = <<"submitted">> \o ended
                      \/ /\ ReqOf[t] \in SyncReqs \/ status[t] = "none"
                         /\ events[t] \in {<<>>, ended}
  BY DEF EventsMatchStatus
<1> USE DEF EventsOf, Statuses, Cancellable, Terminal
<1>1. CASE status[t] = "none"
  BY <1>1
<1>2. CASE status[t] \in Cancellable
  BY <1>2, Told
<1>3. CASE status[t] \in Terminal
  BY <1>3, Told
<1> QED  BY <1>1, <1>2, <1>3

LEMMA EventsNext ==
  ASSUME status \in [Tasks -> Statuses], events \in [Tasks -> Seq(Events)], Fresh, Effect,
         \A t \in Tasks : EventsOf(t)
  PROVE  \A t \in Tasks : EventsOf(t)'
<1> SUFFICES ASSUME NEW t \in Tasks PROVE EventsOf(t)'
  OBVIOUS
<1> USE DEF EventsOf, Cancellable, Terminal, Statuses
<1>1. ASSUME NEW r \in Reqs, Admits(r) PROVE EventsOf(t)'
  <2>1. CASE t \in TasksOf(r)
    BY <1>1, <2>1 DEF Admits, AdmitTasks, AdmitRows, Fresh, TasksOf
  <2>2. CASE t \notin TasksOf(r)
    BY <1>1, <2>2 DEF Admits, AdmitTasks, AdmitRows
  <2> QED  BY <2>1, <2>2
<1>2. ASSUME NEW s \in Tasks, Settles(s) PROVE EventsOf(t)'
  <2>1. CASE s = t
    <3>1. PICK st \in Terminal : /\ status' = [status EXCEPT ![t] = st]
                                 /\ \/ events' = [events EXCEPT ![t] = Append(@, st)]
                                    \/ ReqOf[t] \in SyncReqs /\ events' = events
      BY <1>2, <2>1 DEF Settles, SetStatus, Emit
    <3>2. status[t] \in Cancellable /\ status'[t] = st
      BY <1>2, <2>1, <3>1 DEF Settles, Open
    <3>3. CASE events' = [events EXCEPT ![t] = Append(@, st)]
      <4>1. events'[t] = Append(events[t], st)
        BY <3>3
      <4> QED  BY <3>2, <4>1
    <3>4. CASE ReqOf[t] \in SyncReqs /\ events' = events
      BY <3>2, <3>4
    <3> QED  BY <3>1, <3>3, <3>4
  <2>2. CASE s # t
    BY <1>2, <2>2 DEF Settles, SetStatus, Emit
  <2> QED  BY <2>1, <2>2
<1>3. ASSUME NEW s \in Tasks, Marks(s) \/ Ages(s) PROVE EventsOf(t)'
  BY <1>3 DEF Marks, Ages, SetStatus
<1> QED  BY <1>1, <1>2, <1>3 DEF Effect, Pays, Idles, taskVars

Story == \A t \in Tasks : EventsOf(t)

LEMMA StoryAlways == Spec => []Story
<1>1. Init => Story
  BY DEF Init, Story, EventsOf, Cancellable, Terminal
<1>2. Safe /\ Story /\ [Next]_vars => Story'
  <2> SUFFICES ASSUME Safe, Story, [Next]_vars PROVE Story'
    OBVIOUS
  <2>1. Effect
    BY NextEffect DEF Safe, RestTypes
  <2> QED  BY <2>1, EventsNext DEF Safe, RowsAndMoney, RestTypes, Story
<1> QED  BY <1>1, <1>2, AlwaysSafe, PTL DEF Spec

(* The outbox has the submission of a queued task and the one outcome it     *)
(* ended with, in this order, and never an outcome that another overtook.    *)
THEOREM EventsAlwaysMatch == Spec => []EventsMatchStatus
<1>1. Safe /\ Story => EventsMatchStatus
  BY EventsMean DEF Safe, RowsAndMoney, Story
<1> QED  BY <1>1, AlwaysSafe, StoryAlways, PTL

-----------------------------------------------------------------------------
(* The concurrency limit and the idempotency key *)

LEMMA ActiveFinite ==
  ASSUME NEW u
  PROVE  IsFiniteSet(Active(u)) /\ Cardinality(Active(u)) \in Nat
BY ConstantsOK, FS_Subset, FS_CardinalityType DEF ConstantsOK, Active

LEMMA ActiveNext ==
  ASSUME resv \in [Tasks -> ResvStates], Effect, ActiveBounded
  PROVE  ActiveBounded'
<1> SUFFICES ASSUME NEW u \in Users PROVE Cardinality(Active(u)') <= MaxConcurrent
  BY DEF ActiveBounded
<1> MaxConcurrent \in Nat
  BY ConstantsOK DEF ConstantsOK
<1>1. Cardinality(Active(u)) <= MaxConcurrent /\ Cardinality(Active(u)) \in Nat
  BY ActiveFinite DEF ActiveBounded
<1>2. IsFiniteSet(Active(u)')
  BY ConstantsOK, FS_Subset DEF ConstantsOK, Active
<1>3. ASSUME Active(u)' \subseteq Active(u)
      PROVE  Cardinality(Active(u)') <= MaxConcurrent
  <2>1. Cardinality(Active(u)') <= Cardinality(Active(u))
    BY <1>3, ActiveFinite, FS_Subset
  <2>2. Cardinality(Active(u)') \in Nat
    BY <1>2, FS_CardinalityType
  <2> QED  BY <1>1, <2>1, <2>2
<1>4. ASSUME NEW r \in Reqs, Admits(r) PROVE Cardinality(Active(u)') <= MaxConcurrent
  <2>1. ~(Cardinality(Active(UserOf[r])) + Cardinality(TasksOf(r)) > MaxConcurrent)
    BY <1>4 DEF Admits, AdmitTasks, AdmitRows, Refused
  <2>2. \A t \in TasksOf(r) : t \in Tasks /\ OwnerOf[t] = UserOf[r]
    BY DEF TasksOf, OwnerOf
  <2>3. resv' = [t \in Tasks |-> IF t \in TasksOf(r) THEN "RESERVED" ELSE resv[t]]
    BY <1>4 DEF Admits, AdmitTasks, AdmitRows
  <2>4. CASE u = UserOf[r]
    <3>1. Active(u)' \subseteq Active(u) \cup TasksOf(r)
      BY <2>3 DEF Active
    <3>2. /\ IsFiniteSet(Active(u)) /\ IsFiniteSet(TasksOf(r))
          /\ Cardinality(TasksOf(r)) \in Nat
      BY ActiveFinite, TasksOfFinite
    <3>3. /\ IsFiniteSet(Active(u) \cup TasksOf(r))
          /\ Cardinality(Active(u) \cup TasksOf(r)) =
               Cardinality(Active(u)) + Cardinality(TasksOf(r))
                 - Cardinality(Active(u) \cap TasksOf(r))
      BY <3>2, FS_Union
    <3>4. Cardinality(Active(u) \cap TasksOf(r)) \in Nat
      BY <3>2, FS_Subset, FS_CardinalityType
    <3>5. Cardinality(Active(u)') <= Cardinality(Active(u) \cup TasksOf(r))
      BY <3>1, <3>3, FS_Subset
    <3>6. Cardinality(Active(u)') \in Nat
      BY <1>2, FS_CardinalityType
    <3> HIDE DEF Active, TasksOf
    <3> QED  BY <1>1, <2>1, <2>4, <3>2, <3>3, <3>4, <3>5, <3>6
  <2>5. CASE u # UserOf[r]
    <3>1. Active(u)' \subseteq Active(u)
      BY <2>2, <2>3, <2>5 DEF Active
    <3> QED  BY <3>1, <1>3
  <2> QED  BY <2>4, <2>5
<1>5. ASSUME NEW t \in Tasks, Settles(t) \/ Marks(t) \/ Ages(t)
      PROVE  Cardinality(Active(u)') <= MaxConcurrent
  <2>1. Active(u)' \subseteq Active(u)
    BY <1>5 DEF Active, Settles, Marks, Ages, Capture, Refund
  <2> QED  BY <2>1, <1>3
<1>6. CASE \/ \E v \in Users : Pays(v)
           \/ Idles
  <2>1. Active(u)' \subseteq Active(u)
    BY <1>6 DEF Active, Pays, Idles, taskVars
  <2> QED  BY <2>1, <1>3
<1> QED  BY <1>4, <1>5, <1>6 DEF Effect

(* No mix of single and batch submissions takes a user over max_concurrent.  *)
THEOREM ActiveAlwaysBounded == Spec => []ActiveBounded
<1>1. Init => ActiveBounded
  <2> SUFFICES ASSUME Init, NEW u \in Users PROVE Cardinality(Active(u)) <= MaxConcurrent
    BY DEF ActiveBounded
  <2>1. Active(u) = {}
    BY DEF Init, Active
  <2>2. Cardinality(Active(u)) = 0
    BY <2>1, FS_EmptySet
  <2> QED  BY <2>2, ConstantsOK DEF ConstantsOK
<1>2. Safe /\ ActiveBounded /\ [Next]_vars => ActiveBounded'
  BY NextEffect, ActiveNext DEF Safe, RowsAndMoney, RestTypes
<1> QED  BY <1>1, <1>2, AlwaysSafe, PTL DEF Spec

(* A key names at most one task of a user, however often and from however    *)
(* many requests it is submitted.                                            *)
THEOREM OneTaskAlwaysPerKey == Spec => []OneTaskPerKey
<1>1. Init => OneTaskPerKey
  BY DEF Init, OneTaskPerKey
<1>2. Safe /\ OneTaskPerKey /\ [Next]_vars => OneTaskPerKey'
  <2> SUFFICES ASSUME Safe, OneTaskPerKey, [Next]_vars PROVE OneTaskPerKey'
    OBVIOUS
  <2>1. Effect
    BY NextEffect DEF Safe, RestTypes
  <2>2. status \in [Tasks -> Statuses]
    BY DEF Safe, RowsAndMoney
  <2>3. ASSUME NEW r \in Reqs, Admits(r) PROVE OneTaskPerKey'
    <3> SUFFICES ASSUME NEW s \in Tasks, NEW t \in Tasks, s # t,
                        status'[s] # "none", status'[t] # "none",
                        OwnerOf[s] = OwnerOf[t], KeyOf[ReqOf[s]] # NoKey,
                        KeyOf[ReqOf[s]] = KeyOf[ReqOf[t]]
                 PROVE  FALSE
      BY DEF OneTaskPerKey
    <3>1. \A q \in Tasks : q \notin TasksOf(r) => status'[q] = status[q]
      BY <2>3 DEF Admits, AdmitTasks, AdmitRows
    <3>2. ~KeyTaken(r)
      BY <2>3 DEF Admits, AdmitTasks, AdmitRows
    <3>3. CASE s \in TasksOf(r) /\ t \in TasksOf(r)
      <4>1. IsFiniteSet(TasksOf(r)) /\ Cardinality(TasksOf(r)) = 1
        BY <3>3, TasksOfFinite, ConstantsOK DEF ConstantsOK, TasksOf
      <4> HIDE DEF TasksOf
      <4>2. \E x : TasksOf(r) = {x}
        BY <4>1, FS_Singleton
      <4> QED  BY <3>3, <4>2
    <3>4. CASE s \in TasksOf(r) /\ t \notin TasksOf(r)
      BY <3>1, <3>2, <3>4 DEF KeyTaken, TasksOf, OwnerOf
    <3>5. CASE s \notin TasksOf(r) /\ t \in TasksOf(r)
      BY <3>1, <3>2, <3>5 DEF KeyTaken, TasksOf, OwnerOf
    <3>6. CASE s \notin TasksOf(r) /\ t \notin TasksOf(r)
      BY <3>1, <3>6 DEF OneTaskPerKey
    <3> QED  BY <3>3, <3>4, <3>5, <3>6
  <2>4. ASSUME NEW t \in Tasks, Settles(t) \/ Marks(t) \/ Ages(t) PROVE OneTaskPerKey'
    <3>1. \A q \in Tasks : status'[q] # "none" => status[q] # "none"
      BY <2>2, <2>4 DEF Settles, Marks, Ages, Open, SetStatus, Cancellable
    <3> QED  BY <3>1 DEF OneTaskPerKey
  <2> QED  BY <2>1, <2>3, <2>4 DEF Effect, Pays, Idles, taskVars, OneTaskPerKey
<1> QED  BY <1>1, <1>2, AlwaysSafe, PTL DEF Spec

-----------------------------------------------------------------------------
(* ReservedTask implements CreditHold *)

LEMMA BillingInit == Init => Billing!Init
BY ConstantsOK DEF ConstantsOK, Init, Billing!Init, HoldOf, Reserved

LEMMA AdmitMaps ==
  ASSUME Safe, NEW r \in Reqs, Admits(r)
  PROVE  Billing!Next
<1> DEFINE h == [t \in Tasks |-> HoldOf(resv[t])]
<1> USE DEF Safe, RowsAndMoney
<1>1. UserOf[r] \in Users /\ TasksOf(r) \in SUBSET Tasks
  BY ConstantsOK DEF ConstantsOK, TasksOf
<1>2. \A t \in TasksOf(r) : OwnerOf[t] = UserOf[r] /\ h[t] = "none"
  BY DEF Admits, Fresh, HoldMatchesStatus, TasksOf, OwnerOf, HoldOf, Reserved
<1>3. h' = [t \in Tasks |-> IF t \in TasksOf(r) THEN "held" ELSE h[t]] /\ UNCHANGED granted
  BY DEF Admits, AdmitTasks, AdmitRows, HoldOf, Reserved
<1>4. Billing!Available(UserOf[r]) >= Cost * Billing!Cardinality(TasksOf(r))
  <2>1. Billing!Available(UserOf[r]) = credits[UserOf[r]]
    BY <1>1, SameAvailable DEF Conserved
  <2>2. Billing!Cardinality(TasksOf(r)) = Cardinality(TasksOf(r))
    BY Zenon DEF Billing!Cardinality, Cardinality
  <2>3. ~(credits[UserOf[r]] < Cost * Cardinality(TasksOf(r)))
    BY DEF Admits, AdmitTasks, AdmitRows, Refused
  <2>4. Cost * Cardinality(TasksOf(r)) \in Nat /\ credits[UserOf[r]] \in Nat
    BY <1>1, TasksOfFinite, ConstantsOK DEF ConstantsOK
  <2> QED  BY <2>1, <2>2, <2>3, <2>4
<1>5. Billing!HoldAll(UserOf[r], TasksOf(r))
  BY <1>2, <1>3, <1>4 DEF Billing!HoldAll
<1> QED  BY <1>1, <1>5 DEF Billing!Next

LEMMA SettleMaps ==
  ASSUME Safe, NEW t \in Tasks, Settles(t)
  PROVE  Billing!Next
<1> DEFINE h == [s \in Tasks |-> HoldOf(resv[s])]
<1>1. h[t] = "held" /\ UNCHANGED granted
  BY DEF Settles, Open, Capture, Refund, moneyVars, HoldOf
<1>2. CASE Capture(t)
  <2>1. h' = [h EXCEPT ![t] = "captured"]
    BY <1>2 DEF Safe, RowsAndMoney, Capture, HoldOf, Reserved
  <2>2. Billing!Settle(t, "captured")
    BY <1>1, <2>1 DEF Billing!Settle
  <2> QED  BY <2>2 DEF Billing!Next
<1>3. CASE Refund(t)
  <2>1. h' = [h EXCEPT ![t] = "returned"]
    BY <1>3 DEF Safe, RowsAndMoney, Refund, HoldOf, Reserved
  <2>2. Billing!Settle(t, "returned")
    BY <1>1, <2>1 DEF Billing!Settle
  <2> QED  BY <2>2 DEF Billing!Next
<1> QED  BY <1>2, <1>3 DEF Settles

LEMMA PayMaps ==
  ASSUME Safe, granted' \in [Users -> Nat], NEW u \in Users, Pays(u)
  PROVE  Billing!Next
<1> USE DEF Safe, RowsAndMoney
<1>1. PICK n \in Int : /\ credits[u] + n >= 0
                       /\ granted' = [granted EXCEPT ![u] = @ + n]
                       /\ UNCHANGED resv
  BY DEF Pays, taskVars
<1>2. UNCHANGED [t \in Tasks |-> HoldOf(resv[t])]
  BY <1>1
<1>3. CASE n >= 0
  <2>1. \A v \in Users : granted'[v] >= granted[v]
    BY <1>1, <1>3
  <2> QED  BY <1>2, <2>1 DEF Billing!Next, Billing!Grant
<1>4. CASE n < 0
  <2>1. Billing!Available(u) = credits[u] /\ credits[u] \in Nat
    BY SameAvailable DEF Conserved
  <2>2. -n \in 0 .. Billing!Available(u)
    BY <1>1, <1>4, <2>1
  <2>3. granted' = [granted EXCEPT ![u] = @ - (-n)]
    <3>1. granted[u] + n = granted[u] - (-n)
      OBVIOUS
    <3> QED  BY <1>1, <3>1
  <2> QED  BY <1>2, <2>2, <2>3 DEF Billing!Next, Billing!Withdraw
<1> QED  BY <1>1, <1>3, <1>4

LEMMA BillingNext ==
  ASSUME Safe, [Next]_vars
  PROVE  [Billing!Next]_<<granted, [t \in Tasks |-> HoldOf(resv[t])]>>
<1>1. Effect /\ granted' \in [Users -> Nat]
  BY NextEffect, NextSafe DEF Safe, RestTypes, RowsAndMoney
<1>2. ASSUME NEW t \in Tasks, Marks(t) \/ Ages(t)
      PROVE  UNCHANGED <<granted, [s \in Tasks |-> HoldOf(resv[s])]>>
  BY <1>2 DEF Marks, Ages, moneyVars, HoldOf, Reserved, Safe, RowsAndMoney
<1> QED  BY <1>1, <1>2, AdmitMaps, SettleMaps, PayMaps DEF Effect, Idles, moneyVars, taskVars

(* Every behaviour of solution 2's command side is one of CreditHold: a hold *)
(* is taken when the balance covers it, whole batches at a time, is settled  *)
(* once, and an admin withdraws only what no work has taken.                 *)
THEOREM ImplementsCreditHold == Spec => BillingSpec
<1>1. Init => Billing!Init
  BY BillingInit
<1>2. Safe /\ [Next]_vars => [Billing!Next]_<<granted, [t \in Tasks |-> HoldOf(resv[t])]>>
  BY BillingNext
<1> QED  BY <1>1, <1>2, AlwaysSafe, PTL DEF Spec, BillingSpec, Billing!Spec

-----------------------------------------------------------------------------
(* Delivery of the queued tasks *)

(* Only tasks that have rows are published or worked on, and a task whose    *)
(* submission was applied has ended.                                         *)
Started ==
  /\ \A t \in Tasks : status[t] = "none" => published[t] = 0
  /\ \A w \in Workers : job[w] \in Tasks => status[job[w]] # "none"
  /\ \A t \in inbox : status[t] \in Terminal

(* NotStranded, made inductive: who holds the delivery is about to do the    *)
(* step that the status asks for, so a worker that finds its task RUNNING    *)
(* may leave it: another one has it.                                         *)
HeldFor(t, st, step) ==
  status[t] = st => lane[t] > 0 \/ \E w \in Workers : job[w] = t /\ wpc[w] = step

Delivered ==
  \A t \in Tasks :
    ReqOf[t] \notin SyncReqs /\ published[t] > 0
    => HeldFor(t, "PENDING", "mark") /\ HeldFor(t, "RUNNING", "execute")

(* What an effect does to the statuses. *)
LEMMA StatusSteps ==
  ASSUME Safe, Effect, NEW t \in Tasks
  PROVE  /\ status[t] \in Terminal => status'[t] = status[t]
         /\ status[t] # "none" => status'[t] # "none"
         /\ status'[t] = "PENDING" /\ status[t] # "PENDING" => status[t] = "none"
<1> USE DEF Safe, RowsAndMoney, Statuses, Cancellable, Terminal
<1>1. ASSUME NEW r \in Reqs, Admits(r), status'[t] # status[t]
      PROVE  status[t] = "none" /\ status'[t] = "PENDING"
  BY <1>1 DEF Admits, AdmitTasks, AdmitRows, Fresh, TasksOf
<1>2. ASSUME NEW s \in Tasks, Settles(s) \/ Marks(s) \/ Ages(s)
      PROVE  \/ status'[t] = status[t]
             \/ status[t] \in Cancellable /\ status'[t] \in Terminal \cup {"RUNNING"}
  BY <1>2 DEF Settles, Marks, Ages, Open, SetStatus
<1>3. CASE (\E u \in Users : Pays(u)) \/ Idles
  BY <1>3 DEF Pays, Idles, taskVars
<1> QED  BY <1>1, <1>2, <1>3 DEF Effect

(* What the first event of a queued task is. *)
LEMMA FirstEvent ==
  ASSUME Safe, NEW t \in Tasks, EventsOf(t), ReqOf[t] \notin SyncReqs,
         published[t] < Len(events[t]), published[t] = 0
  PROVE  events[t][published[t] + 1] = "submitted" /\ status[t] # "none"
<1> USE DEF EventsOf, Safe, RowsAndMoney, Statuses, Cancellable, Terminal
<1>1. status[t] # "none"
  <2>1. Len(<<>>) = 0
    OBVIOUS
  <2> QED  BY <2>1
<1>2. CASE status[t] \in Cancellable
  BY <1>2
<1>3. CASE status[t] \in Terminal
  <2>1. Append(<<"submitted">>, status[t])[1] = "submitted"
    OBVIOUS
  <2> QED  BY <1>3, <2>1
<1> QED  BY <1>1, <1>2, <1>3

LEMMA StartedNext ==
  ASSUME Safe, Story, Started, [Next]_vars
  PROVE  Started'
<1> USE DEF Started
<1>1. Effect
  BY NextEffect DEF Safe, RestTypes
<1>2. \A t \in Tasks : /\ status[t] \in Terminal => status'[t] = status[t]
                       /\ status[t] # "none" => status'[t] # "none"
  BY <1>1, StatusSteps
<1>3. inbox \subseteq Tasks /\ job \in [Workers -> Tasks \cup {NoTask}] /\ NoTask \notin Tasks
  BY ConstantsOK DEF ConstantsOK, Safe, RestTypes
<1>4. ASSUME UNCHANGED <<published, job, inbox>> PROVE Started'
  BY <1>2, <1>3, <1>4
<1>5. ASSUME NEW t \in Tasks, Publish(t) PROVE Started'
  <2>1. status[t] # "none"
    <3>1. Len(<<>>) = 0
      OBVIOUS
    <3>2. published[t] \in Nat
      BY DEF Safe, RestTypes
    <3> QED  BY <1>5, <3>1, <3>2 DEF Publish, Story, EventsOf
  <2>2. \A s \in Tasks : s # t => published'[s] = published[s]
    BY <1>5 DEF Publish, Safe, RestTypes
  <2> QED  BY <1>3, <1>5, <2>1, <2>2 DEF Publish, taskVars, workVars
<1>6. ASSUME NEW w \in Workers, NEW t \in Tasks, WorkTake(w, t) PROVE Started'
  BY <1>3, <1>6 DEF WorkTake, workVars, taskVars, relayVars, Terminal, Cancellable
<1>7. ASSUME NEW w \in Workers, WorkMark(w) PROVE Started'
  BY <1>2, <1>3, <1>7 DEF WorkMark, GoWork, Release, relayVars
<1>8. ASSUME NEW w \in Workers, WorkCache(w) \/ WorkDrop(w) PROVE Started'
  BY <1>2, <1>3, <1>8 DEF WorkCache, WorkDrop, Release, relayVars, taskVars
<1>9. ASSUME NEW w \in Workers, WorkSucceed(w) \/ WorkFail(w) PROVE Started'
  <2>1. job[w] \in Tasks /\ UNCHANGED published
    BY <1>9 DEF WorkSucceed, WorkFail, Persist, Safe, Busy, relayVars
  <2>2. status'[job[w]] \in Terminal /\ inbox' = inbox \cup {job[w]}
    <3>1. CASE WorkSucceed(w)
      BY <2>1, <3>1 DEF WorkSucceed, Persist, SetStatus, taskVars, Safe, RowsAndMoney,
        Statuses, Cancellable, Terminal
    <3>2. CASE WorkFail(w)
      BY <2>1, <3>2 DEF WorkFail, Persist, SetStatus, taskVars, Safe, RowsAndMoney,
        Statuses, Cancellable, Terminal
    <3> QED  BY <1>9, <3>1, <3>2
  <2>3. \A v \in Workers : job'[v] = job[v] \/ job'[v] = NoTask
    BY <1>3, <1>9 DEF WorkSucceed, WorkFail, Persist, GoWork, Release
  <2> QED  BY <1>2, <1>3, <2>1, <2>2, <2>3
<1>10. ASSUME NEW r \in Reqs, Admit(r) \/ AdmitError(r) \/ SubmitCache(r) \/ RequestAbort(r)
       PROVE  UNCHANGED <<published, job, inbox>>
  BY <1>10 DEF Admit, AdmitError, SubmitCache, RequestAbort, relayVars, workVars
<1>11. ASSUME NEW t \in Tasks, Inline(t) \/ SyncFinishError(t) \/ Overdue(t) \/ WatchExpire(t)
       PROVE  UNCHANGED <<published, job, inbox>>
  BY <1>11 DEF Inline, SyncMark, SyncFinish, SyncFail, SyncFinishError, Overdue, WatchExpire,
    relayVars, workVars
<1>12. ASSUME NEW c \in Cancels,
              CancelRead(c) \/ CancelTransact(c) \/ CancelSync(c) \/ CancelAbort(c)
       PROVE  UNCHANGED <<published, job, inbox>>
  BY <1>12 DEF CancelRead, CancelTransact, CancelSync, CancelAbort, relayVars, workVars
<1>13. CASE \/ \E a \in Adjusts : Adjust(a)
            \/ Unlink \/ WatchCache \/ WatchAbort \/ UNCHANGED vars
  <2>1. UNCHANGED <<published, job, inbox>>
    BY <1>13 DEF Adjust, AdjustCredits, Unlink, WatchCache, WatchAbort, vars, relayVars, workVars
  <2> QED  BY <2>1, <1>4
<1> QED  BY <1>4, <1>5, <1>6, <1>7, <1>8, <1>9, <1>10, <1>11, <1>12, <1>13 DEF Next, Work

(* A step that leaves lanes, workers and the relay alone, and starts no      *)
(* queued task, keeps what is delivered.                                     *)
LEMMA DeliveredKept ==
  ASSUME Delivered, UNCHANGED <<published, lane, wpc, job>>,
         \A t \in Tasks : ReqOf[t] \notin SyncReqs /\ published[t] > 0 =>
           /\ status'[t] = "PENDING" => status[t] = "PENDING"
           /\ status'[t] = "RUNNING" => status[t] = "RUNNING"
  PROVE  Delivered'
BY DEF Delivered, HeldFor

LEMMA DeliveredNext ==
  ASSUME Safe, Story, Started, Delivered, [Next]_vars
  PROVE  Delivered'
<1>1. Effect
  BY NextEffect DEF Safe, RestTypes
<1>2. \A t \in Tasks : status'[t] = "PENDING" /\ status[t] # "PENDING" => status[t] = "none"
  BY <1>1, StatusSteps
<1>3. \A t \in Tasks : published[t] > 0 /\ status'[t] = "PENDING" => status[t] = "PENDING"
  BY <1>2 DEF Started, Safe, RestTypes
<1>4. /\ job \in [Workers -> Tasks \cup {NoTask}] /\ wpc \in [Workers -> WorkSteps]
      /\ lane \in [Tasks -> Nat] /\ published \in [Tasks -> Nat]
      /\ status \in [Tasks -> Statuses] /\ NoTask \notin Tasks
  BY ConstantsOK DEF ConstantsOK, Safe, RestTypes, RowsAndMoney
<1>5. ASSUME UNCHANGED <<published, lane, wpc, job>>,
             \A t \in Tasks : ReqOf[t] \notin SyncReqs /\ status'[t] = "RUNNING"
                                => status[t] = "RUNNING"
      PROVE  Delivered'
  BY <1>3, <1>5, DeliveredKept
<1>6. ASSUME NEW r \in Reqs, Admit(r) \/ AdmitError(r) \/ SubmitCache(r) \/ RequestAbort(r)
      PROVE  Delivered'
  <2>1. UNCHANGED <<published, lane, wpc, job>>
    BY <1>6 DEF Admit, AdmitError, SubmitCache, RequestAbort, relayVars, workVars
  <2>2. \A t \in Tasks : status'[t] = "RUNNING" => status[t] = "RUNNING"
    BY <1>6 DEF Admit, AdmitError, SubmitCache, RequestAbort, AdmitTasks, AdmitRows, taskVars
  <2> QED  BY <2>1, <2>2, <1>5
<1>7. ASSUME NEW t \in Tasks, Inline(t) \/ SyncFinishError(t) PROVE Delivered'
  <2>1. UNCHANGED <<published, lane, wpc, job>>
    BY <1>7 DEF Inline, SyncMark, SyncFinish, SyncFail, SyncFinishError, relayVars, workVars
  <2>2. ReqOf[t] \in SyncReqs
    <3>1. ReqOf[t] \in Reqs
      BY ConstantsOK DEF ConstantsOK
    <3> QED  BY <1>7, <3>1 DEF Inline, SyncMark, SyncFinish, SyncFail, SyncFinishError, Safe, Busy
  <2>3. \A s \in Tasks : s # t => status'[s] = status[s]
    BY <1>4, <1>7 DEF Inline, SyncMark, SyncFinish, SyncFail, SyncFinishError, FinishInline,
      SetStatus, taskVars
  <2> QED  BY <2>1, <2>2, <2>3, <1>5
<1>8. ASSUME NEW c \in Cancels,
             CancelRead(c) \/ CancelTransact(c) \/ CancelSync(c) \/ CancelAbort(c)
      PROVE  Delivered'
  <2>1. UNCHANGED <<published, lane, wpc, job>>
    BY <1>8 DEF CancelRead, CancelTransact, CancelSync, CancelAbort, relayVars, workVars
  <2>2. \A t \in Tasks : status'[t] = "RUNNING" => status[t] = "RUNNING"
    BY <1>4, <1>8 DEF CancelRead, CancelTransact, CancelSync, CancelAbort, SetStatus, taskVars
  <2> QED  BY <2>1, <2>2, <1>5
<1>9. ASSUME NEW t \in Tasks, Overdue(t) \/ WatchExpire(t) PROVE Delivered'
  <2>1. UNCHANGED <<published, lane, wpc, job>>
    BY <1>9 DEF Overdue, WatchExpire, relayVars, workVars
  <2>2. \A s \in Tasks : status'[s] = "RUNNING" => status[s] = "RUNNING"
    BY <1>4, <1>9 DEF Overdue, WatchExpire, SetStatus
  <2> QED  BY <2>1, <2>2, <1>5
<1>10. CASE \/ \E a \in Adjusts : Adjust(a)
            \/ Unlink \/ WatchCache \/ WatchAbort \/ UNCHANGED vars
  <2>1. UNCHANGED <<published, lane, wpc, job, status>>
    BY <1>10 DEF Adjust, AdjustCredits, Unlink, WatchCache, WatchAbort, vars, relayVars, workVars, taskVars
  <2> QED  BY <2>1, <1>5
<1>11. ASSUME NEW t \in Tasks, Publish(t) PROVE Delivered'
  <2>1. UNCHANGED <<status, wpc, job>>
    BY <1>11 DEF Publish, taskVars, workVars
  <2>2. \A s \in Tasks : s # t => lane'[s] = lane[s] /\ published'[s] = published[s]
    BY <1>4, <1>11 DEF Publish
  <2>3. lane'[t] \in Nat /\ lane'[t] >= lane[t]
    BY <1>4, <1>11 DEF Publish
  <2>4. ReqOf[t] \notin SyncReqs /\ published[t] = 0 => lane'[t] > 0
    <3>1. ASSUME ReqOf[t] \notin SyncReqs, published[t] = 0 PROVE lane'[t] > 0
      <4>1. events[t][published[t] + 1] = "submitted"
        BY <1>11, <3>1, FirstEvent DEF Publish, Story
      <4>2. lane' = [lane EXCEPT ![t] = @ + 1]
        BY <1>11, <4>1 DEF Publish
      <4> QED  BY <1>4, <4>2
    <3> QED  BY <3>1
  <2>5. \A s \in Tasks : lane[s] > 0 => lane'[s] > 0
    BY <1>4, <2>2, <2>3
  <2>6. ASSUME NEW s \in Tasks, ReqOf[s] \notin SyncReqs, published'[s] > 0
        PROVE  HeldFor(s, "PENDING", "mark")' /\ HeldFor(s, "RUNNING", "execute")'
    <3>1. CASE published[s] > 0
      BY <2>1, <2>5, <2>6, <3>1 DEF Delivered, HeldFor
    <3>2. CASE ~(published[s] > 0)
      <4>1. s = t /\ published[t] = 0
        BY <1>4, <2>2, <2>6, <3>2
      <4> QED  BY <2>4, <2>6, <4>1 DEF HeldFor
    <3> QED  BY <3>1, <3>2
  <2> QED  BY <2>6 DEF Delivered
<1>12. ASSUME NEW w \in Workers, NEW t \in Tasks, WorkTake(w, t) PROVE Delivered'
  <2>1. UNCHANGED <<status, published>> /\ wpc[w] = "idle"
    BY <1>12 DEF WorkTake, taskVars, relayVars
  <2>2. \A s \in Tasks : s # t => lane'[s] = lane[s]
    BY <1>4, <1>12 DEF WorkTake, Take
  <2>3. \A v \in Workers : v # w => wpc'[v] = wpc[v] /\ job'[v] = job[v]
    BY <1>4, <1>12 DEF WorkTake, workVars
  <2>4. /\ status[t] = "PENDING" => job'[w] = t /\ wpc'[w] = "mark"
        /\ status[t] = "RUNNING" => job'[w] = t /\ wpc'[w] = "execute"
    BY <1>4, <1>12 DEF WorkTake, Cancellable, Terminal
  <2> QED  BY <2>1, <2>2, <2>3, <2>4 DEF Delivered, HeldFor
<1>13. ASSUME NEW w \in Workers, WorkMark(w) PROVE Delivered'
  <2>1. UNCHANGED <<published, lane>> /\ job[w] \in Tasks /\ wpc[w] = "mark"
    BY <1>13 DEF WorkMark, relayVars, Safe, Busy
  <2>2. \A v \in Workers : v # w => wpc'[v] = wpc[v] /\ job'[v] = job[v]
    BY <1>4, <1>13 DEF WorkMark, GoWork, Release
  <2>3. \/ /\ status' = [status EXCEPT ![job[w]] = "RUNNING"]
           /\ job'[w] = job[w] /\ wpc'[w] = "execute"
        \/ status[job[w]] # "PENDING" /\ status' = status
    BY <1>4, <1>13 DEF WorkMark, GoWork, SetStatus
  <2> QED  BY <1>4, <2>1, <2>2, <2>3 DEF Delivered, HeldFor
<1>14. ASSUME NEW w \in Workers, WorkSucceed(w) \/ WorkFail(w) PROVE Delivered'
  <2>1. /\ UNCHANGED <<published, lane>> /\ job[w] \in Tasks /\ wpc[w] = "execute"
        /\ \A v \in Workers : v # w => wpc'[v] = wpc[v] /\ job'[v] = job[v]
    BY <1>4, <1>14 DEF WorkSucceed, WorkFail, Persist, relayVars, GoWork, Release, Safe, Busy
  <2>2. /\ status'[job[w]] \notin Cancellable
        /\ \A s \in Tasks : s # job[w] => status'[s] = status[s]
    <3>1. CASE WorkSucceed(w)
      BY <1>4, <2>1, <3>1 DEF WorkSucceed, Persist, SetStatus, taskVars, Started,
        Cancellable, Terminal
    <3>2. CASE WorkFail(w)
      BY <1>4, <2>1, <3>2 DEF WorkFail, Persist, SetStatus, taskVars, Started,
        Cancellable, Terminal
    <3> QED  BY <1>14, <3>1, <3>2
  <2> QED  BY <2>1, <2>2 DEF Delivered, HeldFor, Cancellable
<1>15. ASSUME NEW w \in Workers, WorkCache(w) PROVE Delivered'
  <2>1. /\ UNCHANGED <<status, published, lane>> /\ wpc[w] = "cache"
        /\ \A v \in Workers : v # w => wpc'[v] = wpc[v] /\ job'[v] = job[v]
    BY <1>4, <1>15 DEF WorkCache, Release, relayVars, taskVars
  <2> QED  BY <2>1 DEF Delivered, HeldFor
<1>16. ASSUME NEW w \in Workers, WorkDrop(w) PROVE Delivered'
  <2>1. /\ UNCHANGED <<status, published>> /\ job[w] \in Tasks
        /\ \A v \in Workers : v # w => wpc'[v] = wpc[v] /\ job'[v] = job[v]
    BY <1>4, <1>16 DEF WorkDrop, Release, relayVars, taskVars, Safe, Busy
  <2>2. lane'[job[w]] > 0 /\ \A s \in Tasks : s # job[w] => lane'[s] = lane[s]
    BY <1>4, <1>16, <2>1 DEF WorkDrop
  <2> QED  BY <2>1, <2>2 DEF Delivered, HeldFor
<1> QED  BY <1>6, <1>7, <1>8, <1>9, <1>10, <1>11, <1>12, <1>13, <1>14, <1>15, <1>16
         DEF Next, Work

(* A published queued task that has not ended is in a lane or with a worker, *)
(* however many workers time out, crash or take copies of its submission.    *)
THEOREM NeverStranded == Spec => []NotStranded
<1>1. Init => Started /\ Delivered
  BY ConstantsOK DEF ConstantsOK, Init, Started, Delivered
<1>2. Spec => []Story
  BY StoryAlways
<1>3. Safe /\ Story /\ Started /\ Delivered /\ [Next]_vars => Started' /\ Delivered'
  BY StartedNext, DeliveredNext
<1>4. Safe /\ Delivered => NotStranded
  BY DEF Delivered, HeldFor, NotStranded, Cancellable
<1> QED  BY <1>1, <1>2, <1>3, <1>4, AlwaysSafe, PTL DEF Spec

=============================================================================

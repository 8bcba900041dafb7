-------------------------- MODULE DurableTaskProofs --------------------------
(***************************************************************************)
(* Proofs about DurableTask.  The safety properties follow from one        *)
(* inductive invariant, Safe, which says how the status of a row, the      *)
(* transfer, the request and the workflow of one task constrain each other.*)
(***************************************************************************)
EXTENDS DurableTask, TLAPS, FiniteSetTheorems

Quiet == {"absent", "start", "ended"}
PastCapture == {"complete", "lateRead", "lateComplete", "cacheResult"}
BeforeMark == {"compute", "readStatus", "release", "markCancelled", "markFailed",
               "capture", "markUncaptured"}
Undoing == {"handoffRelease", "handoffRollback"}
Cancelling == {"release", "rollback"}

(* No row before the INSERT; a reservation once the request is past it. *)
Admitted == \A s \in Subs :
  /\ spc[s] \in {"idle", "create", "refused"} => status[s] = "none"
  /\ spc[s] \in {"idle", "create", "refused", "cacheRow", "send", "undo", "replay"}
       => wpc[s] = "absent"
  /\ spc[s] \notin {"idle", "refused"} => xfer[s] # "none"

(* A queued task has no workflow past its first step and is not paid for. *)
QueuedIsFree == \A s \in Subs :
  status[s] \in {"none", "PENDING"} => wpc[s] \in Quiet /\ xfer[s] # "posted"

(* The compensation of a failed handoff owns its FAILED row. *)
UndoOwns == \A s \in Subs :
  spc[s] \in Undoing =>
    /\ status[s] = "FAILED" /\ wpc[s] \in Quiet /\ xfer[s] # "posted"
    /\ spc[s] = "handoffRollback" => xfer[s] \in {"voided", "expired"}

(* The cancel request that wrote CANCELLED owns the row until it answers. *)
CancelOwns == \A c \in Cancels :
  cpc[c] \in Cancelling =>
    /\ status[ctgt[c]] = "CANCELLED" /\ wpc[ctgt[c]] \in Quiet
    /\ xfer[ctgt[c]] # "posted"
    /\ cpc[c] = "rollback" => xfer[ctgt[c]] \in {"voided", "expired"}

OneCanceller == \A c, d \in Cancels :
  cpc[c] \in Cancelling /\ cpc[d] \in Cancelling /\ ctgt[c] = ctgt[d] => c = d

(* Only a captured task is marked complete, only a released one cancelled. *)
CapturedFirst == \A s \in Subs :
  wpc[s] \in PastCapture \/ status[s] = "COMPLETED" => xfer[s] = "posted"

ReleasedFirst == \A s \in Subs :
  /\ wpc[s] = "markCancelled" => xfer[s] = "voided"
  /\ status[s] = "CANCELLED" =>
       xfer[s] # "posted" /\ (xfer[s] = "pending" => wpc[s] \in Quiet)

(* With no journal entry lost, a workflow before its last status write still *)
(* has a live row, and a captured transfer is past its capture step.         *)
Lossless == lost = 0 => \A s \in Subs :
  /\ wpc[s] \in BeforeMark => status[s] \in {"RUNNING", "CANCEL_REQUESTED"}
  /\ xfer[s] = "posted" => wpc[s] \in PastCapture \cup {"ended"}
  /\ status[s] = "FAILED" => xfer[s] # "posted"

(* The unique index. *)
RowsDiffer == \A r, s \in Subs :
  /\ r # s /\ OwnerOf[r] = OwnerOf[s] /\ KeyOf[r] = KeyOf[s] /\ KeyOf[r] # NoKey
  /\ status[r] # "none"
  => status[s] = "none"

SafeParts ==
  /\ Admitted /\ QueuedIsFree /\ UndoOwns /\ CancelOwns /\ OneCanceller
  /\ CapturedFirst /\ ReleasedFirst /\ Lossless /\ RowsDiffer

Safe == TypeOK /\ SafeParts

-----------------------------------------------------------------------------
(* Type correctness *)

(* The balance is a number: the reservations of one user are finitely many.  *)
LEMMA BalanceIsInt ==
  ASSUME TypeOK, NEW u \in Users
  PROVE  Balance(u) \in Int
<1>1. IsFiniteSet(Debited(u, xfer))
  BY ConstantsOK, FS_Subset DEF ConstantsOK, Debited
<1>2. Cardinality(Debited(u, xfer)) \in Nat
  BY <1>1, FS_CardinalityType
<1>3. granted[u] \in Nat /\ Cost \in Nat
  BY ConstantsOK DEF ConstantsOK, TypeOK
<1> QED  BY <1>2, <1>3 DEF Balance

LEMMA InitTypeOK == Init => TypeOK
BY ConstantsOK DEF ConstantsOK, Init, TypeOK, XferStates, Statuses, Terminal, CacheEntries,
  NoEntry, SubmitSteps, CancelSteps, PollSteps, TopupSteps, WorkSteps, CheckSites

LEMMA CacheEntryOK ==
  /\ NoEntry \in CacheEntries
  /\ \A st \in Statuses, b \in BOOLEAN : [st |-> st, owner |-> b] \in CacheEntries
BY DEF NoEntry, CacheEntries, Statuses

LEMMA SubmitTypeOK ==
  ASSUME TypeOK, NEW s \in Subs, Submit(s) \/ SubmitAbort(s)
  PROVE  TypeOK'
<1> USE CacheEntryOK DEF TypeOK, GoSubmit, SubmitSteps, SubmitEnds, canVars, pollVars,
  topVars, wfVars, faultVars, tbVars
<1>1. CASE SubmitReserve(s)
  BY <1>1 DEF SubmitReserve, Reserve, XferStates
<1>2. CASE SubmitCreate(s)
  BY <1>2 DEF SubmitCreate, Statuses
<1>3. CASE SubmitCreateError(s)
  BY <1>3 DEF SubmitCreateError, Statuses
<1>4. CASE SubmitUndo(s)
  BY <1>4 DEF SubmitUndo, Release, XferStates
<1>5. CASE SubmitCacheRow(s)
  BY <1>5 DEF SubmitCacheRow, CacheRow, Statuses
<1>6. CASE SubmitSend(s)
  BY <1>6 DEF SubmitSend, WorkSteps
<1>7. CASE SubmitSendError(s)
  BY <1>7 DEF SubmitSendError, WorkSteps
<1>8. CASE HandoffFail(s)
  BY <1>8 DEF HandoffFail, Cas, Statuses, Terminal
<1>9. CASE HandoffRelease(s)
  BY <1>9 DEF HandoffRelease, Release, XferStates
<1>10. CASE HandoffRollback(s)
  BY <1>10 DEF HandoffRollback, Cas, Statuses
<1>11. CASE HandoffEvict(s)
  BY <1>11 DEF HandoffEvict, Evict
<1>12. CASE SubmitAbort(s)
  BY <1>12 DEF SubmitAbort
<1> QED  BY <1>1, <1>2, <1>3, <1>4, <1>5, <1>6, <1>7, <1>8, <1>9, <1>10, <1>11,
  <1>12 DEF Submit

LEMMA CancelTypeOK ==
  ASSUME TypeOK, NEW c \in Cancels, Cancel(c) \/ CancelAbort(c)
  PROVE  TypeOK'
<1> USE CacheEntryOK DEF TypeOK, GoCancel, CancelSteps, pollVars, topVars, wfVars,
  faultVars, tbVars
<1>1. CASE CancelRead(c)
  BY <1>1 DEF CancelRead
<1>2. CASE CancelPending(c)
  BY <1>2 DEF CancelPending, Cas, Statuses, Terminal
<1>3. CASE CancelReread(c)
  BY <1>3 DEF CancelReread
<1>4. CASE CancelRelease(c)
  BY <1>4 DEF CancelRelease, Release, XferStates
<1>5. CASE CancelRollback(c)
  BY <1>5 DEF CancelRollback, Cas, Statuses
<1>6. CASE CancelEvict(c)
  BY <1>6 DEF CancelEvict, Evict
<1>7. CASE CancelRunning(c)
  BY <1>7 DEF CancelRunning, Cas, Statuses
<1>8. CASE CancelAbort(c)
  BY <1>8 DEF CancelAbort
<1> QED  BY <1>1, <1>2, <1>3, <1>4, <1>5, <1>6, <1>7, <1>8 DEF Cancel

LEMMA WorkTypeOK ==
  ASSUME TypeOK, NEW s \in Subs, Work(s)
  PROVE  TypeOK'
<1> USE CacheEntryOK DEF TypeOK, Step, Journal, WorkSteps, CheckSites, apiVars, canVars,
  pollVars, topVars, faultVars, tbVars
<1>1. CASE WorkStart(s)
  BY <1>1 DEF WorkStart, Cas, Statuses
<1>2. CASE WorkCompute(s)
  BY <1>2 DEF WorkCompute, ComputeOutcomes
<1>3. CASE WorkReadStatus(s)
  BY <1>3 DEF WorkReadStatus, Return, StepIn
<1>4. CASE WorkRelease(s)
  <2>1. xfer' \in [Subs -> XferStates]
    BY <1>4 DEF WorkRelease, Release, XferStates
  <2> QED  BY <1>4, <2>1 DEF WorkRelease, Return, StepIn
<1>5. CASE WorkMarkCancelled(s)
  BY <1>5 DEF WorkMarkCancelled, Cas, Return, StepIn, Statuses, Terminal
<1>6. CASE WorkEvict(s)
  BY <1>6 DEF WorkEvict, Evict
<1>7. CASE WorkMarkFailed(s)
  BY <1>7 DEF WorkMarkFailed, Cas, Statuses, Terminal
<1>8. CASE WorkFailRelease(s)
  BY <1>8 DEF WorkFailRelease, Release, XferStates
<1>9. CASE WorkFailEvict(s)
  BY <1>9 DEF WorkFailEvict, Evict
<1>10. CASE WorkCapture(s)
  BY <1>10 DEF WorkCapture, Capture, XferStates
<1>11. CASE WorkMarkUncaptured(s)
  BY <1>11 DEF WorkMarkUncaptured, Cas, Statuses, Terminal
<1>12. CASE WorkUncapturedRelease(s)
  BY <1>12 DEF WorkUncapturedRelease, Release, XferStates
<1>13. CASE WorkComplete(s)
  <2>1. status' \in [Subs -> Statuses]
    BY <1>13 DEF WorkComplete, Cas, Statuses, Terminal
  <2> QED  BY <1>13, <2>1 DEF WorkComplete
<1>14. CASE WorkLateRead(s)
  BY <1>14 DEF WorkLateRead
<1>15. CASE WorkLateComplete(s)
  BY <1>15 DEF WorkLateComplete, Cas, Statuses, Terminal
<1>16. CASE WorkCacheResult(s)
  <2>1. [st |-> "COMPLETED", owner |-> cache[s].owner] \in CacheEntries
    BY DEF CacheEntries, Statuses, Terminal
  <2>2. cache' \in [Subs -> CacheEntries]
    BY <1>16, <2>1 DEF WorkCacheResult, CacheResult
  <2> QED  BY <1>16, <2>2 DEF WorkCacheResult
<1> QED  BY <1>1, <1>2, <1>3, <1>4, <1>5, <1>6, <1>7, <1>8, <1>9, <1>10, <1>11, <1>12,
  <1>13, <1>14, <1>15, <1>16 DEF Work

LEMMA PollTypeOK ==
  ASSUME TypeOK, NEW p \in Polls, Poll(p)
  PROVE  TypeOK'
<1> USE CacheEntryOK DEF TypeOK, PollSteps, canVars, topVars, wfVars, faultVars, tbVars
<1>1. CASE PollCache(p)
  BY <1>1 DEF PollCache, CacheEntries
<1>2. CASE PollRead(p)
  BY <1>2 DEF PollRead
<1>3. CASE PollFill(p)
  BY <1>3 DEF PollFill, CacheRow
<1> QED  BY <1>1, <1>2, <1>3 DEF Poll

LEMMA TopupTypeOK ==
  ASSUME TypeOK, NEW a \in Topups, Topup(a)
  PROVE  TypeOK'
<1>1. CASE TopupTransfer(a)
  <2>1. TopupUser[a] \in Users /\ TopupAmount \in Nat
    BY ConstantsOK DEF ConstantsOK
  <2>2. topped' \subseteq {TopupKey[b] : b \in Topups} \X Users
    BY <1>1, <2>1 DEF TypeOK, TopupTransfer
  <2>3. granted[TopupUser[a]] + TopupAmount \in Nat
    BY <2>1 DEF TypeOK
  <2>4. granted' \in [Users -> Nat]
    BY <1>1, <2>3 DEF TypeOK, TopupTransfer
  <2>5. tpc' \in [Topups -> TopupSteps]
    BY <1>1 DEF TypeOK, TopupTransfer, GoTopup, TopupSteps
  <2> QED  BY <1>1, <2>2, <2>4, <2>5 DEF TypeOK, TopupTransfer, canVars, pollVars, wfVars, faultVars
<1>2. CASE TopupBalance(a)
  <2>1. Balance(TopupUser[a]) \in Int
    BY ConstantsOK, BalanceIsInt DEF ConstantsOK
  <2> QED  BY <1>2, <2>1 DEF TypeOK, TopupBalance, GoTopup, TopupSteps,
             canVars, pollVars, wfVars, faultVars, tbVars
<1>3. CASE TopupMirror(a)
  BY <1>3 DEF TypeOK, TopupMirror, GoTopup, TopupSteps,
    canVars, pollVars, wfVars, faultVars, tbVars
<1> QED  BY <1>1, <1>2, <1>3 DEF Topup

LEMMA RestartTypeOK == TypeOK /\ Restart => TypeOK'
<1> SUFFICES ASSUME TypeOK, Restart PROVE TypeOK'
  OBVIOUS
<1>1. \A u \in Users : Reseeded(u) \in Nat
  BY DEF TypeOK, Reseeded
<1>2. granted' \in [Users -> Nat]
  BY <1>1 DEF TypeOK, Restart
<1> QED  BY <1>2 DEF TypeOK, Restart, wfVars, SubmitSteps, SubmitEnds, CancelSteps, PollSteps,
           TopupSteps

LEMMA ExpireTypeOK ==
  ASSUME TypeOK, NEW s \in Subs, Expire(s) \/ CacheExpire(s)
  PROVE  TypeOK'
<1>1. CASE Expire(s)
  BY <1>1 DEF TypeOK, Expire, XferStates, apiVars, canVars, pollVars, topVars, wfVars,
    faultVars, tbVars
<1>2. CASE CacheExpire(s)
  <2>1. NoEntry \in CacheEntries
    BY DEF NoEntry, CacheEntries, Statuses
  <2> QED  BY <1>2, <2>1 DEF TypeOK, CacheExpire, Evict, apiVars, canVars, pollVars, topVars,
             wfVars, faultVars, tbVars
<1> QED  BY <1>1, <1>2

LEMMA NextTypeOK == TypeOK /\ [Next]_vars => TypeOK'
<1>1. CASE UNCHANGED vars
  BY <1>1 DEF vars, TypeOK
<1> QED  BY <1>1, SubmitTypeOK, CancelTypeOK, WorkTypeOK, PollTypeOK, TopupTypeOK,
           RestartTypeOK, ExpireTypeOK DEF Next

(* Every variable keeps its type: credits granted are never negative, and    *)
(* no step writes a status, transfer state or program counter outside its set. *)
THEOREM TypeCorrect == Spec => []TypeOK
BY InitTypeOK, NextTypeOK, PTL DEF Spec

-----------------------------------------------------------------------------
(* The inductive invariant *)

LEMMA InitSafe == Init => Safe
BY InitTypeOK DEF Init, Safe, SafeParts, Admitted, QueuedIsFree, UndoOwns, CancelOwns,
  OneCanceller, CapturedFirst, ReleasedFirst, Lossless, RowsDiffer, Quiet, PastCapture,
    BeforeMark, Undoing, Cancelling

LEMMA SubmitSafe ==
  ASSUME Safe, NEW s \in Subs, Submit(s) \/ SubmitAbort(s)
  PROVE  SafeParts'
<1> USE DEF Safe, SafeParts, TypeOK, Quiet, PastCapture, BeforeMark, Undoing, Cancelling,
  GoSubmit, canVars, pollVars, topVars, wfVars, faultVars, tbVars
<1>1. CASE SubmitReserve(s)
  BY <1>1 DEF SubmitReserve, Reserve, ReserveOk, Admitted, QueuedIsFree, UndoOwns,
    CancelOwns, OneCanceller, CapturedFirst, ReleasedFirst, Lossless, RowsDiffer
<1>2. CASE SubmitCreate(s)
  <2>1. Admitted'
    BY <1>2 DEF SubmitCreate, KeyTaken, Admitted
  <2>2. QueuedIsFree'
    BY <1>2 DEF SubmitCreate, KeyTaken, QueuedIsFree, Admitted
  <2>3. UndoOwns'
    BY <1>2 DEF SubmitCreate, KeyTaken, UndoOwns
  <2>4. CancelOwns'
    BY <1>2 DEF SubmitCreate, KeyTaken, CancelOwns, Admitted, QueuedIsFree
  <2>5. OneCanceller'
    BY <1>2 DEF SubmitCreate, KeyTaken, OneCanceller
  <2>6. CapturedFirst'
    BY <1>2 DEF SubmitCreate, KeyTaken, CapturedFirst
  <2>7. ReleasedFirst'
    BY <1>2 DEF SubmitCreate, KeyTaken, ReleasedFirst
  <2>8. Lossless'
    BY <1>2 DEF SubmitCreate, KeyTaken, Lossless, Admitted, QueuedIsFree
  <2>9. RowsDiffer'
    BY <1>2 DEF SubmitCreate, KeyTaken, RowsDiffer
  <2> QED  BY <2>1, <2>2, <2>3, <2>4, <2>5, <2>6, <2>7, <2>8, <2>9
<1>3. CASE SubmitCreateError(s)
  <2>1. Admitted'
    BY <1>3 DEF SubmitCreateError, KeyTaken, Admitted
  <2>2. QueuedIsFree'
    BY <1>3 DEF SubmitCreateError, KeyTaken, QueuedIsFree, Admitted
  <2>3. UndoOwns'
    BY <1>3 DEF SubmitCreateError, KeyTaken, UndoOwns
  <2>4. CancelOwns'
    BY <1>3 DEF SubmitCreateError, KeyTaken, CancelOwns, Admitted, QueuedIsFree
  <2>5. OneCanceller'
    BY <1>3 DEF SubmitCreateError, KeyTaken, OneCanceller
  <2>6. CapturedFirst'
    BY <1>3 DEF SubmitCreateError, KeyTaken, CapturedFirst
  <2>7. ReleasedFirst'
    BY <1>3 DEF SubmitCreateError, KeyTaken, ReleasedFirst
  <2>8. Lossless'
    BY <1>3 DEF SubmitCreateError, KeyTaken, Lossless, Admitted, QueuedIsFree
  <2>9. RowsDiffer'
    BY <1>3 DEF SubmitCreateError, KeyTaken, RowsDiffer
  <2> QED  BY <2>1, <2>2, <2>3, <2>4, <2>5, <2>6, <2>7, <2>8, <2>9
<1>4. CASE SubmitUndo(s)
  BY <1>4 DEF SubmitUndo, Release, SettleOk, Admitted, QueuedIsFree, UndoOwns, CancelOwns,
    OneCanceller, CapturedFirst, ReleasedFirst, Lossless, RowsDiffer
<1>5. CASE SubmitCacheRow(s)
  BY <1>5 DEF SubmitCacheRow, Admitted, QueuedIsFree, UndoOwns, CancelOwns, OneCanceller,
    CapturedFirst, ReleasedFirst, Lossless, RowsDiffer
<1>6. CASE SubmitSend(s)
  BY <1>6 DEF SubmitSend, Admitted, QueuedIsFree, UndoOwns, CancelOwns, OneCanceller,
    CapturedFirst, ReleasedFirst, Lossless, RowsDiffer
<1>7. CASE SubmitSendError(s)
  <2>1. Admitted'
    BY <1>7 DEF SubmitSendError, Admitted
  <2>2. QueuedIsFree'
    BY <1>7 DEF SubmitSendError, QueuedIsFree, Admitted
  <2>3. UndoOwns'
    BY <1>7 DEF SubmitSendError, UndoOwns
  <2>4. CancelOwns'
    BY <1>7 DEF SubmitSendError, CancelOwns, Admitted, QueuedIsFree
  <2>5. OneCanceller'
    BY <1>7 DEF SubmitSendError, OneCanceller
  <2>6. CapturedFirst'
    BY <1>7 DEF SubmitSendError, CapturedFirst
  <2>7. ReleasedFirst'
    BY <1>7 DEF SubmitSendError, ReleasedFirst
  <2>8. Lossless'
    BY <1>7 DEF SubmitSendError, Lossless, Admitted, QueuedIsFree
  <2>9. RowsDiffer'
    BY <1>7 DEF SubmitSendError, RowsDiffer
  <2> QED  BY <2>1, <2>2, <2>3, <2>4, <2>5, <2>6, <2>7, <2>8, <2>9
<1>8. CASE HandoffFail(s)
  BY <1>8 DEF HandoffFail, Cas, Admitted, QueuedIsFree, UndoOwns, CancelOwns, OneCanceller,
    CapturedFirst, ReleasedFirst, Lossless, RowsDiffer
<1>9. CASE HandoffRelease(s)
  <2>1. Admitted'
    BY <1>9 DEF HandoffRelease, Release, SettleOk, Admitted
  <2>2. QueuedIsFree'
    BY <1>9 DEF HandoffRelease, Release, SettleOk, QueuedIsFree
  <2>3. UndoOwns'
    BY <1>9 DEF HandoffRelease, Release, SettleOk, UndoOwns, Admitted, XferStates
  <2>4. CancelOwns'
    BY <1>9 DEF HandoffRelease, Release, SettleOk, CancelOwns
  <2>5. OneCanceller'
    BY <1>9 DEF HandoffRelease, Release, SettleOk, OneCanceller
  <2>6. CapturedFirst'
    BY <1>9 DEF HandoffRelease, Release, SettleOk, CapturedFirst
  <2>7. ReleasedFirst'
    BY <1>9 DEF HandoffRelease, Release, SettleOk, ReleasedFirst
  <2>8. Lossless'
    BY <1>9 DEF HandoffRelease, Release, SettleOk, Lossless
  <2>9. RowsDiffer'
    BY <1>9 DEF HandoffRelease, Release, SettleOk, RowsDiffer
  <2> QED  BY <2>1, <2>2, <2>3, <2>4, <2>5, <2>6, <2>7, <2>8, <2>9
<1>10. CASE HandoffRollback(s)
  BY <1>10 DEF HandoffRollback, Cas, Admitted, QueuedIsFree, UndoOwns, CancelOwns,
    OneCanceller, CapturedFirst, ReleasedFirst, Lossless, RowsDiffer
<1>11. CASE HandoffEvict(s)
  BY <1>11 DEF HandoffEvict, Admitted, QueuedIsFree, UndoOwns, CancelOwns, OneCanceller,
    CapturedFirst, ReleasedFirst, Lossless, RowsDiffer
<1>12. CASE SubmitAbort(s)
  BY <1>12 DEF SubmitAbort, SubmitInFlight, SubmitSteps, Admitted, QueuedIsFree, UndoOwns,
    CancelOwns, OneCanceller, CapturedFirst, ReleasedFirst, Lossless, RowsDiffer
<1> QED  BY <1>1, <1>2, <1>3, <1>4, <1>5, <1>6, <1>7, <1>8, <1>9, <1>10, <1>11,
  <1>12 DEF Submit

LEMMA CancelSafe ==
  ASSUME Safe, NEW c \in Cancels, Cancel(c) \/ CancelAbort(c)
  PROVE  SafeParts'
<1> USE DEF Safe, SafeParts, TypeOK, Quiet, PastCapture, BeforeMark, Undoing, Cancelling,
  GoCancel, pollVars, topVars, wfVars, faultVars, tbVars
<1>1. CASE CancelRead(c)
  <2>1. Admitted'
    BY <1>1 DEF CancelRead, Admitted
  <2>2. QueuedIsFree'
    BY <1>1 DEF CancelRead, QueuedIsFree
  <2>3. UndoOwns'
    BY <1>1 DEF CancelRead, UndoOwns
  <2>4. CancelOwns'
    BY <1>1 DEF CancelRead, CancelOwns
  <2>5. OneCanceller'
    BY <1>1 DEF CancelRead, OneCanceller
  <2>6. CapturedFirst'
    BY <1>1 DEF CancelRead, CapturedFirst
  <2>7. ReleasedFirst'
    BY <1>1 DEF CancelRead, ReleasedFirst
  <2>8. Lossless'
    BY <1>1 DEF CancelRead, Lossless
  <2>9. RowsDiffer'
    BY <1>1 DEF CancelRead, RowsDiffer
  <2> QED  BY <2>1, <2>2, <2>3, <2>4, <2>5, <2>6, <2>7, <2>8, <2>9
<1>2. CASE CancelPending(c)
  BY <1>2 DEF CancelPending, Cas, Admitted, QueuedIsFree, UndoOwns, CancelOwns,
    OneCanceller, CapturedFirst, ReleasedFirst, Lossless, RowsDiffer
<1>3. CASE CancelReread(c)
  BY <1>3 DEF CancelReread, Admitted, QueuedIsFree, UndoOwns, CancelOwns, OneCanceller,
    CapturedFirst, ReleasedFirst, Lossless, RowsDiffer
<1>4. CASE CancelRelease(c)
  <2>1. Admitted'
    BY <1>4 DEF CancelRelease, Release, SettleOk, Admitted
  <2>2. QueuedIsFree'
    BY <1>4 DEF CancelRelease, Release, SettleOk, QueuedIsFree
  <2>3. UndoOwns'
    BY <1>4 DEF CancelRelease, Release, SettleOk, UndoOwns
  <2>4. CancelOwns'
    BY <1>4 DEF CancelRelease, Release, SettleOk, CancelOwns, Admitted, XferStates,
      OneCanceller
  <2>5. OneCanceller'
    BY <1>4 DEF CancelRelease, Release, SettleOk, OneCanceller
  <2>6. CapturedFirst'
    BY <1>4 DEF CancelRelease, Release, SettleOk, CapturedFirst
  <2>7. ReleasedFirst'
    BY <1>4 DEF CancelRelease, Release, SettleOk, ReleasedFirst
  <2>8. Lossless'
    BY <1>4 DEF CancelRelease, Release, SettleOk, Lossless
  <2>9. RowsDiffer'
    BY <1>4 DEF CancelRelease, Release, SettleOk, RowsDiffer
  <2> QED  BY <2>1, <2>2, <2>3, <2>4, <2>5, <2>6, <2>7, <2>8, <2>9
<1>5. CASE CancelRollback(c)
  BY <1>5 DEF CancelRollback, Cas, Admitted, QueuedIsFree, UndoOwns, CancelOwns,
    OneCanceller, CapturedFirst, ReleasedFirst, Lossless, RowsDiffer
<1>6. CASE CancelEvict(c)
  BY <1>6 DEF CancelEvict, Admitted, QueuedIsFree, UndoOwns, CancelOwns, OneCanceller,
    CapturedFirst, ReleasedFirst, Lossless, RowsDiffer
<1>7. CASE CancelRunning(c)
  BY <1>7 DEF CancelRunning, Cas, Admitted, QueuedIsFree, UndoOwns, CancelOwns,
    OneCanceller, CapturedFirst, ReleasedFirst, Lossless, RowsDiffer
<1>8. CASE CancelAbort(c)
  BY <1>8 DEF CancelAbort, Admitted, QueuedIsFree, UndoOwns, CancelOwns, OneCanceller,
    CapturedFirst, ReleasedFirst, Lossless, RowsDiffer
<1> QED  BY <1>1, <1>2, <1>3, <1>4, <1>5, <1>6, <1>7, <1>8 DEF Cancel

(* A step that writes no store keeps Safe, wherever it takes the workflow    *)
(* from, as long as the place it goes to asks for no more.                   *)
LEMMA MoveSafe ==
  ASSUME Safe, NEW s \in Subs, NEW next \in WorkSteps,
         UNCHANGED <<xfer, status, spc, cpc, ctgt>>,
         wpc[s] \notin Quiet, next # "markCancelled",
         next \in PastCapture => wpc[s] \in PastCapture,
         next \in BeforeMark => wpc[s] \in BeforeMark,
         wpc[s] \in PastCapture => next \in PastCapture \cup {"ended"},
         \/ wpc' = [wpc EXCEPT ![s] = next] /\ lost' = lost
         \/ wpc' = wpc /\ lost' = lost + 1
  PROVE  SafeParts'
<1> USE DEF Safe, SafeParts, TypeOK, Quiet, PastCapture, BeforeMark, Undoing, Cancelling
<1>1. Admitted'
  BY DEF Admitted
<1>2. QueuedIsFree'
  BY DEF QueuedIsFree
<1>3. UndoOwns'
  BY DEF UndoOwns
<1>4. CancelOwns'
  BY DEF CancelOwns
<1>5. OneCanceller'
  BY DEF OneCanceller
<1>6. CapturedFirst'
  BY DEF CapturedFirst
<1>7. ReleasedFirst'
  BY DEF ReleasedFirst
<1>8. Lossless'
  BY DEF Lossless
<1>9. RowsDiffer'
  BY DEF RowsDiffer
<1> QED  BY <1>1, <1>2, <1>3, <1>4, <1>5, <1>6, <1>7, <1>8, <1>9

LEMMA WorkSafe ==
  ASSUME Safe, NEW s \in Subs, Work(s)
  PROVE  SafeParts'
<1> USE DEF Safe, SafeParts, TypeOK, Quiet, PastCapture, BeforeMark, Undoing, Cancelling,
  Step, Journal, apiVars, canVars, pollVars, topVars, faultVars, tbVars
<1>1. CASE WorkStart(s)
  BY <1>1 DEF WorkStart, Cas, Admitted, QueuedIsFree, UndoOwns, CancelOwns, OneCanceller,
    CapturedFirst, ReleasedFirst, Lossless, RowsDiffer
<1>2. CASE WorkCompute(s)
  BY <1>2, MoveSafe DEF WorkCompute, ComputeOutcomes, WorkSteps, CheckSites
<1>3. CASE WorkReadStatus(s)
  BY <1>3, MoveSafe DEF WorkReadStatus, Return, StepIn, WorkSteps, CheckSites
<1>4. CASE WorkRelease(s)
  BY <1>4 DEF WorkRelease, Release, SettleOk, Return, StepIn, Admitted, QueuedIsFree,
    UndoOwns, CancelOwns, OneCanceller, CapturedFirst, ReleasedFirst, Lossless, RowsDiffer
<1>5. CASE WorkMarkCancelled(s)
  BY <1>5 DEF WorkMarkCancelled, Cas, Return, StepIn, Admitted, QueuedIsFree, UndoOwns,
    CancelOwns, OneCanceller, CapturedFirst, ReleasedFirst, Lossless, RowsDiffer
<1>6. CASE WorkEvict(s)
  BY <1>6, MoveSafe DEF WorkEvict, WorkSteps, CheckSites
<1>7. CASE WorkMarkFailed(s)
  BY <1>7 DEF WorkMarkFailed, Cas, Admitted, QueuedIsFree, UndoOwns, CancelOwns,
    OneCanceller, CapturedFirst, ReleasedFirst, Lossless, RowsDiffer
<1>8. CASE WorkFailRelease(s)
  BY <1>8 DEF WorkFailRelease, Release, SettleOk, Admitted, QueuedIsFree, UndoOwns,
    CancelOwns, OneCanceller, CapturedFirst, ReleasedFirst, Lossless, RowsDiffer
<1>9. CASE WorkFailEvict(s)
  BY <1>9, MoveSafe DEF WorkFailEvict, WorkSteps, CheckSites
<1>10. CASE WorkCapture(s)
  BY <1>10 DEF WorkCapture, Capture, SettleOk, Admitted, QueuedIsFree, UndoOwns,
    CancelOwns, OneCanceller, CapturedFirst, ReleasedFirst, Lossless, RowsDiffer
<1>11. CASE WorkMarkUncaptured(s)
  BY <1>11 DEF WorkMarkUncaptured, Cas, Admitted, QueuedIsFree, UndoOwns, CancelOwns,
    OneCanceller, CapturedFirst, ReleasedFirst, Lossless, RowsDiffer
<1>12. CASE WorkUncapturedRelease(s)
  BY <1>12 DEF WorkUncapturedRelease, Release, SettleOk, Admitted, QueuedIsFree, UndoOwns,
    CancelOwns, OneCanceller, CapturedFirst, ReleasedFirst, Lossless, RowsDiffer
<1>13. CASE WorkComplete(s)
  BY <1>13 DEF WorkComplete, Cas, Admitted, QueuedIsFree, UndoOwns, CancelOwns,
    OneCanceller, CapturedFirst, ReleasedFirst, Lossless, RowsDiffer
<1>14. CASE WorkLateRead(s)
  BY <1>14, MoveSafe DEF WorkLateRead, WorkSteps, CheckSites
<1>15. CASE WorkLateComplete(s)
  BY <1>15 DEF WorkLateComplete, Cas, Admitted, QueuedIsFree, UndoOwns, CancelOwns,
    OneCanceller, CapturedFirst, ReleasedFirst, Lossless, RowsDiffer
<1>16. CASE WorkCacheResult(s)
  BY <1>16, MoveSafe DEF WorkCacheResult, WorkSteps, CheckSites
<1> QED  BY <1>1, <1>2, <1>3, <1>4, <1>5, <1>6, <1>7, <1>8, <1>9, <1>10, <1>11, <1>12,
  <1>13, <1>14, <1>15, <1>16 DEF Work

LEMMA OtherSafe ==
  ASSUME Safe, \/ \E p \in Polls : Poll(p)
               \/ \E a \in Topups : Topup(a)
               \/ \E s \in Subs : Expire(s) \/ CacheExpire(s)
  PROVE  SafeParts'
<1> USE DEF Safe, SafeParts, Admitted, QueuedIsFree, UndoOwns, CancelOwns, OneCanceller,
  CapturedFirst, ReleasedFirst, Lossless, RowsDiffer
<1>1. ASSUME NEW p \in Polls, Poll(p) PROVE SafeParts'
  BY <1>1 DEF Poll, PollCache, PollRead, PollFill, canVars, topVars, wfVars, tbVars
<1>2. ASSUME NEW a \in Topups, Topup(a) PROVE SafeParts'
  BY <1>2 DEF Topup, TopupTransfer, TopupBalance, TopupMirror, canVars, pollVars, wfVars,
    tbVars
<1>3. ASSUME NEW s \in Subs, CacheExpire(s) PROVE SafeParts'
  BY <1>3 DEF CacheExpire, apiVars, canVars, wfVars, tbVars
<1>4. ASSUME NEW s \in Subs, Expire(s) PROVE SafeParts'
  BY <1>4 DEF Expire, TypeOK, apiVars, canVars, wfVars, Quiet, PastCapture, BeforeMark,
    Undoing, Cancelling
<1> QED  BY <1>1, <1>2, <1>3, <1>4

LEMMA RestartSafe ==
  ASSUME Safe, Restart
  PROVE  SafeParts'
BY DEF Restart, wfVars, SubmitInFlight, SubmitSteps, CancelInFlight, Safe, SafeParts,
  TypeOK, Admitted, QueuedIsFree, UndoOwns, CancelOwns, OneCanceller, CapturedFirst,
    ReleasedFirst, Lossless, RowsDiffer, Undoing, Cancelling

LEMMA NextSafe == Safe /\ [Next]_vars => Safe'
<1> SUFFICES ASSUME Safe, [Next]_vars PROVE SafeParts'
  BY NextTypeOK DEF Safe
<1>1. CASE UNCHANGED vars
  BY <1>1 DEF vars, Safe, SafeParts, Admitted, QueuedIsFree, UndoOwns, CancelOwns,
    OneCanceller, CapturedFirst, ReleasedFirst, Lossless, RowsDiffer
<1> QED  BY <1>1, SubmitSafe, CancelSafe, WorkSafe, OtherSafe, RestartSafe DEF Next

LEMMA AlwaysSafe == Spec => []Safe
BY InitSafe, NextSafe, PTL DEF Spec

-----------------------------------------------------------------------------
(* The safety properties of the runs, for every value of the constants *)

(* A task shown COMPLETED has been paid for. *)
THEOREM CompletedIsAlwaysCharged == Spec => []CompletedIsCharged
<1>1. Safe => CompletedIsCharged
  BY DEF Safe, SafeParts, CapturedFirst, CompletedIsCharged
<1> QED  BY <1>1, AlwaysSafe, PTL

(* A cancelled task costs nothing, whatever is replayed or races with it. *)
THEOREM CancelledIsAlwaysFree == Spec => []CancelledIsFree
<1>1. Safe => CancelledIsFree
  BY DEF Safe, SafeParts, ReleasedFirst, CancelledIsFree
<1> QED  BY <1>1, AlwaysSafe, PTL

(* With no journal entry lost, a failed task costs nothing. *)
THEOREM FailedIsAlwaysFree == Spec => []FailedIsFree
<1>1. Safe => FailedIsFree
  BY DEF Safe, SafeParts, Lossless, FailedIsFree
<1> QED  BY <1>1, AlwaysSafe, PTL

(* Of the attempts under one idempotency key at most one is charged. *)
THEOREM KeyIsChargedOnce == Spec => []OneChargePerKey
<1>1. Safe => OneChargePerKey
  BY DEF Safe, SafeParts, QueuedIsFree, RowsDiffer, OneChargePerKey
<1> QED  BY <1>1, AlwaysSafe, PTL

(* What TerminalIsFinal says of a step and the row of attempt r. *)
Final(r) ==
  status[r] \in Terminal /\ status'[r] # status[r] =>
    /\ status[r] # "COMPLETED" /\ status'[r] = "PENDING"
    /\ xfer[r] \in {"voided", "expired"}

LEMMA FinalStep ==
  ASSUME Safe, NEW r \in Subs, [Next]_vars
  PROVE  Final(r)
<1> USE DEF Final, Safe, SafeParts, TypeOK, Terminal
<1>1. ASSUME NEW s \in Subs, Submit(s) \/ SubmitAbort(s) PROVE Final(r)
  <2>1. CASE SubmitCreate(s) \/ SubmitCreateError(s)
    BY <2>1 DEF SubmitCreate, SubmitCreateError, Admitted
  <2>2. CASE HandoffFail(s)
    BY <2>2 DEF HandoffFail, Cas
  <2>3. CASE HandoffRollback(s)
    BY <2>3 DEF HandoffRollback, Cas, UndoOwns, Undoing
  <2> QED  BY <1>1, <2>1, <2>2, <2>3 DEF Submit, SubmitAbort, SubmitReserve, SubmitUndo,
    SubmitCacheRow, SubmitSend, SubmitSendError, HandoffRelease, HandoffEvict
<1>2. ASSUME NEW c \in Cancels, Cancel(c) \/ CancelAbort(c) PROVE Final(r)
  <2>1. CASE CancelPending(c) \/ CancelRunning(c)
    BY <2>1 DEF CancelPending, CancelRunning, Cas
  <2>2. CASE CancelRollback(c)
    BY <2>2 DEF CancelRollback, Cas, CancelOwns, Cancelling
  <2> QED  BY <1>2, <2>1, <2>2 DEF Cancel, CancelAbort, CancelRead, CancelReread,
    CancelRelease, CancelEvict
<1>3. ASSUME NEW s \in Subs, Work(s) PROVE Final(r)
  <2>1. CASE WorkStart(s) \/ WorkMarkCancelled(s) \/ WorkMarkFailed(s)
    BY <2>1 DEF WorkStart, WorkMarkCancelled, WorkMarkFailed, Cas
  <2>2. CASE WorkMarkUncaptured(s) \/ WorkComplete(s) \/ WorkLateComplete(s)
    BY <2>2 DEF WorkMarkUncaptured, WorkComplete, WorkLateComplete, Cas
  <2> QED  BY <1>3, <2>1, <2>2 DEF Work, WorkCompute, WorkReadStatus, WorkRelease,
    WorkEvict, WorkFailRelease, WorkFailEvict, WorkCapture, WorkUncapturedRelease,
      WorkLateRead, WorkCacheResult
<1>4. CASE UNCHANGED vars
  BY <1>4 DEF vars
<1> QED  BY <1>1, <1>2, <1>3, <1>4 DEF Next, Expire, CacheExpire, Poll, PollCache,
  PollRead, PollFill, Topup, TopupTransfer, TopupBalance, TopupMirror, Restart

(* COMPLETED is never left; FAILED and CANCELLED only back to PENDING, when *)
(* the transfer could no longer be released. *)
THEOREM TerminalIsAlwaysFinal == Spec => TerminalIsFinal
<1>1. Safe /\ [Next]_vars => [\A s \in Subs : Final(s)]_vars
  BY FinalStep
<1>2. Spec => [][\A s \in Subs : Final(s)]_vars
  BY <1>1, AlwaysSafe, PTL DEF Spec
<1> QED  BY <1>2 DEF TerminalIsFinal, Final

-----------------------------------------------------------------------------
(* Holds *)

Settlers == {"compute", "readStatus", "release", "markFailed", "failRelease", "capture",
             "markUncaptured", "uncapturedRelease"}

(* Who holds a pending transfer, by the status of its row.  The status tells *)
(* which of request, cancel request and workflow wrote it last.              *)
HeldByStatus(s) ==
  /\ status[s] = "none" => spc[s] \in {"create", "undo", "replay", "aborted"}
  /\ status[s] = "PENDING" =>
       spc[s] \in {"undo", "cacheRow", "send", "handoff", "aborted"} \/ wpc[s] = "start"
  /\ status[s] = "RUNNING" =>
       wpc[s] \in Settlers \/ (lost > 0 /\ wpc[s] \in {"start", "ended"})
  /\ status[s] = "CANCEL_REQUESTED" =>
       wpc[s] \in Settlers \cup {"ended"} \/ (lost > 0 /\ wpc[s] = "start")
  /\ status[s] = "FAILED" =>
       \/ spc[s] \in {"handoffRelease", "aborted"}
       \/ wpc[s] \in {"markFailed", "failRelease", "markUncaptured", "uncapturedRelease"}
       \/ lost > 0 /\ wpc[s] = "ended"
  /\ status[s] = "CANCELLED" =>
       \E c \in Cancels : ctgt[c] = s /\ cpc[c] \in {"release", "aborted"}

Held == \A s \in Subs : xfer[s] = "pending" => HeldByStatus(s)

LEMMA InitHeld == Init => Held
BY DEF Init, Held

LEMMA SubmitHeld ==
  ASSUME Safe, Held, NEW s \in Subs, Submit(s) \/ SubmitAbort(s)
  PROVE  Held'
<1> USE DEF Safe, TypeOK, Held, HeldByStatus, GoSubmit, canVars, pollVars, topVars, wfVars,
  faultVars, tbVars
<1>1. CASE SubmitReserve(s)
  BY <1>1 DEF SubmitReserve, Reserve, SafeParts, Admitted
<1>2. CASE SubmitCreate(s) \/ SubmitCreateError(s)
  BY <1>2 DEF SubmitCreate, SubmitCreateError
<1>3. CASE SubmitUndo(s)
  BY <1>3 DEF SubmitUndo, Release, SettleOk
<1>4. CASE SubmitCacheRow(s)
  BY <1>4 DEF SubmitCacheRow
<1>5. CASE SubmitSend(s) \/ SubmitSendError(s)
  <2>1. wpc[s] = "absent"
    BY <1>5 DEF SubmitSend, SubmitSendError, SafeParts, Admitted
  <2> QED  BY <1>5, <2>1 DEF SubmitSend, SubmitSendError, Settlers
<1>6. CASE HandoffFail(s)
  BY <1>6 DEF HandoffFail, Cas
<1>7. CASE HandoffRelease(s)
  BY <1>7 DEF HandoffRelease, Release, SettleOk
<1>8. CASE HandoffRollback(s)
  <2>1. xfer[s] # "pending"
    BY <1>8 DEF HandoffRollback, SafeParts, UndoOwns, Undoing
  <2> QED  BY <1>8, <2>1 DEF HandoffRollback, Cas
<1>9. CASE HandoffEvict(s)
  BY <1>9 DEF HandoffEvict
<1>10. CASE SubmitAbort(s)
  BY <1>10 DEF SubmitAbort
<1> QED  BY <1>1, <1>2, <1>3, <1>4, <1>5, <1>6, <1>7, <1>8, <1>9, <1>10 DEF Submit

LEMMA CancelHeld ==
  ASSUME Safe, Held, NEW c \in Cancels, Cancel(c) \/ CancelAbort(c)
  PROVE  Held'
<1> USE DEF Safe, TypeOK, Held, HeldByStatus, GoCancel, pollVars, topVars, wfVars,
  faultVars, tbVars
<1>1. CASE CancelRead(c) \/ CancelReread(c) \/ CancelEvict(c)
  BY <1>1 DEF CancelRead, CancelReread, CancelEvict
<1>2. CASE CancelPending(c)
  BY <1>2 DEF CancelPending, Cas
<1>3. CASE CancelRelease(c)
  BY <1>3 DEF CancelRelease, Release, SettleOk
<1>4. CASE CancelRollback(c)
  <2>1. xfer[ctgt[c]] # "pending"
    BY <1>4 DEF CancelRollback, SafeParts, CancelOwns, Cancelling
  <2> QED  BY <1>4, <2>1 DEF CancelRollback, Cas
<1>5. CASE CancelRunning(c)
  BY <1>5 DEF CancelRunning, Cas
<1>6. CASE CancelAbort(c)
  BY <1>6 DEF CancelAbort, CancelInFlight
<1> QED  BY <1>1, <1>2, <1>3, <1>4, <1>5, <1>6 DEF Cancel

LEMMA WorkHeld ==
  ASSUME Safe, Held, NEW s \in Subs, Work(s)
  PROVE  Held'
<1> USE DEF Safe, TypeOK, Held, HeldByStatus, Settlers, Step, Journal, apiVars, canVars,
  faultVars, tbVars
<1>1. CASE WorkStart(s)
  BY <1>1 DEF WorkStart, Cas
<1>2. CASE WorkCompute(s)
  BY <1>2 DEF WorkCompute
<1>3. CASE WorkReadStatus(s)
  BY <1>3 DEF WorkReadStatus, Return, StepIn
<1>4. CASE WorkRelease(s)
  BY <1>4 DEF WorkRelease, Release, SettleOk, Return, StepIn
<1>5. CASE WorkMarkCancelled(s)
  <2>1. xfer[s] # "pending"
    BY <1>5 DEF WorkMarkCancelled, SafeParts, ReleasedFirst
  <2> QED  BY <1>5, <2>1 DEF WorkMarkCancelled, Cas, Return, StepIn
<1>6. CASE WorkEvict(s) \/ WorkFailEvict(s) \/ WorkLateRead(s) \/ WorkCacheResult(s)
  BY <1>6 DEF WorkEvict, WorkFailEvict, WorkLateRead, WorkCacheResult
<1>7. CASE WorkMarkFailed(s)
  <2>1. status[s] = "FAILED" => lost > 0
    BY <1>7 DEF WorkMarkFailed, SafeParts, Lossless, BeforeMark
  <2>2. status[s] \notin {"none", "PENDING"}
    BY <1>7 DEF WorkMarkFailed, SafeParts, QueuedIsFree, Quiet
  <2>3. status[s] = "CANCELLED" => xfer[s] # "pending"
    BY <1>7 DEF WorkMarkFailed, SafeParts, ReleasedFirst, Quiet
  <2> QED  BY <1>7, <2>1, <2>2, <2>3 DEF WorkMarkFailed, Cas
<1>8. CASE WorkFailRelease(s)
  BY <1>8 DEF WorkFailRelease, Release, SettleOk
<1>9. CASE WorkCapture(s)
  BY <1>9 DEF WorkCapture, Capture, SettleOk
<1>10. CASE WorkMarkUncaptured(s)
  BY <1>10 DEF WorkMarkUncaptured, Cas
<1>11. CASE WorkUncapturedRelease(s)
  BY <1>11 DEF WorkUncapturedRelease, Release, SettleOk
<1>12. CASE WorkComplete(s) \/ WorkLateComplete(s)
  <2>1. xfer[s] = "posted"
    BY <1>12 DEF WorkComplete, WorkLateComplete, SafeParts, CapturedFirst, PastCapture
  <2> QED  BY <1>12, <2>1 DEF WorkComplete, WorkLateComplete, Cas
<1> QED  BY <1>1, <1>2, <1>3, <1>4, <1>5, <1>6, <1>7, <1>8, <1>9, <1>10, <1>11,
  <1>12 DEF Work

LEMMA OtherHeld ==
  ASSUME Held, \/ \E p \in Polls : Poll(p)
               \/ \E a \in Topups : Topup(a)
               \/ \E s \in Subs : CacheExpire(s)
  PROVE  Held'
<1> USE DEF Held, HeldByStatus, canVars, wfVars, tbVars
<1>1. ASSUME NEW p \in Polls, Poll(p) PROVE Held'
  BY <1>1 DEF Poll, PollCache, PollRead, PollFill
<1>2. ASSUME NEW a \in Topups, Topup(a) PROVE Held'
  BY <1>2 DEF Topup, TopupTransfer, TopupBalance, TopupMirror
<1>3. ASSUME NEW s \in Subs, CacheExpire(s) PROVE Held'
  BY <1>3 DEF CacheExpire, apiVars
<1> QED  BY <1>1, <1>2, <1>3

LEMMA NextHeld == Safe /\ Held /\ [Next]_vars => Held'
<1> SUFFICES ASSUME Safe, Held, [Next]_vars PROVE Held'
  OBVIOUS
<1>1. ASSUME NEW s \in Subs, Expire(s) PROVE Held'
  BY <1>1 DEF Expire, Safe, TypeOK, Held, HeldByStatus, apiVars, canVars, wfVars
<1>2. CASE Restart
  BY <1>2 DEF Restart, Safe, TypeOK, Held, HeldByStatus, SubmitInFlight, SubmitSteps,
    CancelInFlight, wfVars
<1>3. CASE UNCHANGED vars
  BY <1>3 DEF vars, Held, HeldByStatus
<1> QED  BY <1>1, <1>2, <1>3, SubmitHeld, CancelHeld, WorkHeld, OtherHeld DEF Next

(* Credits are held only while the request, a cancel request or the workflow *)
(* is still to settle the hold, or the one who owed it was cut off.          *)
THEOREM NoHoldIsEverForgotten == Spec => []NoHoldForgotten
<1>1. Safe /\ Held => NoHoldForgotten
  <2> SUFFICES ASSUME Safe, Held, NEW s \in Subs, xfer[s] = "pending"
               PROVE  Owed(s) \/ CutOff(s)
    BY DEF NoHoldForgotten
  <2>1. HeldByStatus(s)
    BY DEF Held
  <2>2. status[s] \in Statuses /\ status[s] # "COMPLETED"
    BY DEF Safe, TypeOK, SafeParts, CapturedFirst
  <2> QED  BY <2>1, <2>2 DEF HeldByStatus, Statuses, Terminal, Owed, CutOff, Settlers
<1>2. Spec => []Held
  BY InitHeld, AlwaysSafe, NextHeld, PTL DEF Spec
<1> QED  BY <1>1, <1>2, AlwaysSafe, PTL

-----------------------------------------------------------------------------
(* The cache *)

(* A result is cached after its row is completed, and a poll caches the row  *)
(* it has read.                                                              *)
Copies ==
  /\ CacheNeverAhead
  /\ \A p \in Polls : ppc[p] = "fill" /\ pview[p] = "COMPLETED"
                        => status[ptgt[p]] = "COMPLETED"
  /\ \A s \in Subs : wpc[s] = "cacheResult" => status[s] = "COMPLETED"

LEMMA CopiesStep ==
  ASSUME Safe, Copies, [Next]_vars
  PROVE  Copies'
<1>1. \A s \in Subs : status[s] = "COMPLETED" => status'[s] = "COMPLETED"
  BY FinalStep DEF Final, Terminal
<1> USE <1>1 DEF Copies, CacheNeverAhead, Safe, TypeOK, Evict, NoEntry, pollVars, wfVars, tbVars
<1>2. ASSUME NEW s \in Subs, Submit(s) \/ SubmitAbort(s) PROVE Copies'
  <2>1. CASE SubmitCacheRow(s)
    BY <2>1 DEF SubmitCacheRow, CacheRow
  <2>2. CASE SubmitSend(s) \/ SubmitSendError(s)
    BY <2>2 DEF SubmitSend, SubmitSendError
  <2>3. CASE HandoffEvict(s)
    BY <2>3 DEF HandoffEvict
  <2> QED  BY <1>2, <2>1, <2>2, <2>3 DEF Submit, SubmitAbort, SubmitReserve, SubmitCreate,
    SubmitCreateError, SubmitUndo, HandoffFail, HandoffRelease, HandoffRollback
<1>3. ASSUME NEW c \in Cancels, Cancel(c) \/ CancelAbort(c) PROVE Copies'
  <2>1. CASE CancelEvict(c)
    BY <2>1 DEF CancelEvict
  <2> QED  BY <1>3, <2>1 DEF Cancel, CancelAbort, CancelRead, CancelPending, CancelReread,
    CancelRelease, CancelRollback, CancelRunning
<1>4. ASSUME NEW p \in Polls, Poll(p) PROVE Copies'
  <2>1. CASE PollCache(p)
    BY <2>1 DEF PollCache
  <2>2. CASE PollRead(p)
    BY <2>2 DEF PollRead
  <2>3. CASE PollFill(p)
    BY <2>3 DEF PollFill, CacheRow
  <2> QED  BY <1>4, <2>1, <2>2, <2>3 DEF Poll
<1>5. ASSUME NEW s \in Subs, Work(s) PROVE Copies'
  <2> USE DEF Step, StepIn, Journal, Return, apiVars
  <2>1. CASE WorkStart(s) \/ WorkCompute(s) \/ WorkReadStatus(s) \/ WorkRelease(s)
    BY <2>1 DEF WorkStart, WorkCompute, WorkReadStatus, WorkRelease
  <2>2. CASE WorkMarkCancelled(s) \/ WorkEvict(s) \/ WorkMarkFailed(s) \/ WorkFailRelease(s)
    BY <2>2 DEF WorkMarkCancelled, WorkEvict, WorkMarkFailed, WorkFailRelease
  <2>3. CASE WorkFailEvict(s) \/ WorkCapture(s) \/ WorkMarkUncaptured(s)
    BY <2>3 DEF WorkFailEvict, WorkCapture, WorkMarkUncaptured
  <2>4. CASE WorkUncapturedRelease(s) \/ WorkLateRead(s)
    BY <2>4 DEF WorkUncapturedRelease, WorkLateRead
  <2>5. CASE WorkComplete(s) \/ WorkLateComplete(s)
    BY <2>5 DEF WorkComplete, WorkLateComplete, Cas
  <2>6. CASE WorkCacheResult(s)
    BY <2>6 DEF WorkCacheResult, CacheResult
  <2> QED  BY <1>5, <2>1, <2>2, <2>3, <2>4, <2>5, <2>6 DEF Work
<1>6. ASSUME NEW s \in Subs, Expire(s) \/ CacheExpire(s) PROVE Copies'
  BY <1>6 DEF Expire, CacheExpire, apiVars
<1>7. ASSUME NEW a \in Topups, Topup(a) PROVE Copies'
  BY <1>7 DEF Topup, TopupTransfer, TopupBalance, TopupMirror
<1>8. ASSUME Restart PROVE Copies'
  BY <1>8 DEF Restart
<1>9. ASSUME UNCHANGED vars PROVE Copies'
  BY <1>9 DEF vars
<1> QED  BY <1>2, <1>3, <1>4, <1>5, <1>6, <1>7, <1>8, <1>9 DEF Next

(* The cache never shows a COMPLETED the tasks table does not have. *)
THEOREM CacheIsNeverAhead == Spec => []CacheNeverAhead
<1>1. Init => Copies
  BY DEF Init, Copies, CacheNeverAhead, NoEntry
<1>2. Safe /\ Copies /\ [Next]_vars => Copies'
  BY CopiesStep
<1>3. Copies => CacheNeverAhead
  BY DEF Copies
<1> QED  BY <1>1, <1>2, <1>3, AlwaysSafe, PTL DEF Spec

-----------------------------------------------------------------------------
(* Accounts *)

(* A step adds credits and takes no transfer, or is a reservation the        *)
(* balance covers.                                                           *)
LEMMA FundsStep ==
  ASSUME TypeOK, [Next]_vars
  PROVE  \/ /\ \A u \in Users : granted'[u] >= granted[u]
            /\ \A u \in Users : Debited(u, xfer') \subseteq Debited(u, xfer)
         \/ \E s \in Subs : ReserveOk(s) /\ Reserve(s) /\ UNCHANGED granted
<1> DEFINE Kept == \A u \in Users : Debited(u, xfer') \subseteq Debited(u, xfer)
           More == \A u \in Users : granted'[u] >= granted[u]
           Goal == \/ More /\ Kept
                   \/ \E s \in Subs : ReserveOk(s) /\ Reserve(s) /\ UNCHANGED granted
<1>1. UNCHANGED granted => More
  BY DEF TypeOK
<1>2. UNCHANGED xfer => Kept
  OBVIOUS
<1>3. ASSUME NEW s \in Subs, NEW x \in {"posted", "voided", "expired"},
             xfer[s] = "pending", xfer' = [xfer EXCEPT ![s] = x]
      PROVE  Kept
  BY <1>3 DEF Debited, TypeOK
<1> HIDE DEF More, Kept
<1> USE DEF tbVars
<1>4. ASSUME NEW s \in Subs, Submit(s) \/ SubmitAbort(s) PROVE Goal
  <2>1. CASE SubmitReserve(s)
    BY <2>1, <1>1, <1>2 DEF SubmitReserve
  <2>2. CASE SubmitUndo(s) \/ HandoffRelease(s)
    BY <2>2, <1>1, <1>2, <1>3 DEF SubmitUndo, HandoffRelease, Release, SettleOk
  <2> QED  BY <1>1, <1>2, <1>4, <2>1, <2>2 DEF Submit, SubmitAbort, SubmitCreate,
    SubmitCreateError, SubmitCacheRow, SubmitSend, SubmitSendError, HandoffFail,
      HandoffRollback, HandoffEvict
<1>5. ASSUME NEW c \in Cancels, Cancel(c) \/ CancelAbort(c) PROVE Goal
  <2>1. CASE CancelRelease(c)
    <3>1. ctgt[c] \in Subs
      BY DEF TypeOK
    <3> QED  BY <2>1, <3>1, <1>1, <1>2, <1>3 DEF CancelRelease, Release, SettleOk
  <2> QED  BY <1>1, <1>2, <1>5, <2>1 DEF Cancel, CancelAbort, CancelRead, CancelPending,
    CancelReread, CancelRollback, CancelEvict, CancelRunning
<1>6. ASSUME NEW s \in Subs, Work(s) PROVE Goal
  <2>1. CASE \/ WorkRelease(s) \/ WorkFailRelease(s)
            \/ WorkUncapturedRelease(s) \/ WorkCapture(s)
    BY <2>1, <1>1, <1>2, <1>3 DEF WorkRelease, WorkFailRelease, WorkUncapturedRelease,
      WorkCapture, Release, Capture, SettleOk
  <2> QED  BY <1>1, <1>2, <1>6, <2>1 DEF Work, WorkStart, WorkCompute, WorkReadStatus,
    WorkMarkCancelled, WorkEvict, WorkMarkFailed, WorkFailEvict, WorkMarkUncaptured,
      WorkComplete, WorkLateRead, WorkLateComplete, WorkCacheResult
<1>7. ASSUME NEW s \in Subs, Expire(s) PROVE Goal
  BY <1>7, <1>1, <1>3 DEF Expire
<1>8. ASSUME NEW a \in Topups, Topup(a) PROVE Goal
  <2>1. TopupUser[a] \in Users /\ TopupAmount \in Nat
    BY ConstantsOK DEF ConstantsOK
  <2>2. granted' = [granted EXCEPT ![TopupUser[a]] = @ + TopupAmount] => More
    BY <2>1 DEF TypeOK, More
  <2> QED  BY <1>1, <1>2, <1>8, <2>2 DEF Topup, TopupTransfer, TopupBalance, TopupMirror
<1>9. ASSUME Restart PROVE Goal
  <2>1. More
    BY <1>9 DEF Restart, Reseeded, TypeOK, More
  <2> QED  BY <1>9, <2>1, <1>2 DEF Restart
<1>10. ASSUME UNCHANGED vars PROVE Goal
  BY <1>10, <1>1, <1>2 DEF vars
<1>11. Goal
  BY <1>1, <1>2, <1>4, <1>5, <1>6, <1>7, <1>8, <1>9, <1>10 DEF Next, CacheExpire, Poll,
    PollCache, PollRead, PollFill
<1> QED  BY <1>11 DEF More, Kept

LEMMA DebitedFinite ==
  ASSUME NEW u \in Users, NEW x
  PROVE  IsFiniteSet(Debited(u, x)) /\ Cardinality(Debited(u, x)) \in Nat
<1>1. IsFiniteSet(Debited(u, x))
  BY ConstantsOK, FS_Subset DEF ConstantsOK, Debited
<1> QED  BY <1>1, FS_CardinalityType

(* Whatever leaves more credits and fewer transfers leaves no smaller balance; *)
(* a reservation leaves what the balance exceeded its cost by.                 *)
LEMMA FundsKept ==
  ASSUME TypeOK, TypeOK', NoOverdraft, [Next]_vars
  PROVE  NoOverdraft'
<1> SUFFICES ASSUME NEW u \in Users PROVE Balance(u)' >= 0
  BY DEF NoOverdraft
<1> DEFINE d == Debited(u, xfer)
           e == Debited(u, xfer')
<1>1. /\ granted[u] \in Nat /\ granted'[u] \in Nat /\ Cost \in Nat \ {0}
      /\ IsFiniteSet(d) /\ Cardinality(d) \in Nat /\ Cardinality(e) \in Nat
      /\ granted[u] - Cost * Cardinality(d) >= 0
  BY ConstantsOK, DebitedFinite DEF ConstantsOK, TypeOK, NoOverdraft, Balance
<1>2. Balance(u)' = granted'[u] - Cost * Cardinality(e)
  BY DEF Balance
<1>3. CASE granted'[u] >= granted[u] /\ e \subseteq d
  <2>1. Cardinality(e) <= Cardinality(d)
    BY <1>1, <1>3, FS_Subset
  <2>2. Cost * Cardinality(e) <= Cost * Cardinality(d)
    BY <1>1, <2>1
  <2> QED  BY <1>1, <1>2, <1>3, <2>2
<1>4. ASSUME NEW s \in Subs, ReserveOk(s), Reserve(s), UNCHANGED granted
      PROVE  Balance(u)' >= 0
  <2>1. CASE OwnerOf[s] = u
    <3>1. e = d \cup {s} /\ s \notin d
      BY <1>4, <2>1 DEF ReserveOk, Reserve, Debited, TypeOK
    <3>2. Cardinality(e) = Cardinality(d) + 1
      BY <1>1, <3>1, FS_AddElement
    <3>3. granted[u] - Cost * Cardinality(d) >= Cost
      BY <1>4, <2>1 DEF ReserveOk, Balance
    <3>4. Cost * Cardinality(e) = Cost * Cardinality(d) + Cost
      BY <1>1, <3>2
    <3> HIDE DEF d, e
    <3>5. Cost * Cardinality(d) \in Nat
      BY <1>1
    <3> QED  BY <1>1, <1>2, <1>4, <3>3, <3>4, <3>5
  <2>2. CASE OwnerOf[s] # u
    <3>1. e = d
      BY <1>4, <2>2 DEF Reserve, Debited, TypeOK
    <3> QED  BY <1>1, <1>2, <1>4, <3>1
  <2> QED  BY <2>1, <2>2
<1> QED  BY <1>3, <1>4, FundsStep

(* debits_must_not_exceed_credits: no account is overdrawn.                  *)
THEOREM NeverOverdrawn == Spec => []NoOverdraft
<1>1. Init => NoOverdraft
  <2> SUFFICES ASSUME Init, NEW u \in Users PROVE Balance(u) >= 0
    BY DEF NoOverdraft
  <2>1. Debited(u, xfer) = {}
    BY DEF Init, Debited
  <2>2. Cardinality(Debited(u, xfer)) = 0
    BY <2>1, FS_EmptySet
  <2>3. granted[u] \in Nat /\ Cost \in Nat
    BY ConstantsOK DEF ConstantsOK, Init
  <2> QED  BY <2>2, <2>3 DEF Balance
<1>2. TypeOK /\ TypeOK' /\ NoOverdraft /\ [Next]_vars => NoOverdraft'
  BY FundsKept
<1> QED  BY <1>1, <1>2, TypeCorrect, PTL DEF Spec

-----------------------------------------------------------------------------
(* Top-ups *)

ToppedFinite == IsFiniteSet(topped)

ToppedOf(u) == {t \in topped : t[2] = u}

(* A transfer that is made for the first time adds one amount and one id; no *)
(* other step but a restart moves grants.                                    *)
LEMMA TopupStep ==
  ASSUME TypeOK, [Next]_vars
  PROVE  \/ UNCHANGED <<granted, topped, restarts>>
         \/ UNCHANGED topped /\ restarts' # 0
         \/ \E a \in Topups :
              /\ <<TopupKey[a], TopupUser[a]>> \notin topped
              /\ topped' = topped \cup {<<TopupKey[a], TopupUser[a]>>}
              /\ granted' = [granted EXCEPT ![TopupUser[a]] = @ + TopupAmount]
              /\ UNCHANGED restarts
<1> DEFINE Still == UNCHANGED <<granted, topped, restarts>>
           Made(a) == /\ <<TopupKey[a], TopupUser[a]>> \notin topped
                      /\ topped' = topped \cup {<<TopupKey[a], TopupUser[a]>>}
                      /\ granted' = [granted EXCEPT ![TopupUser[a]] = @ + TopupAmount]
                      /\ UNCHANGED restarts
<1> USE DEF tbVars, faultVars
<1>1. ASSUME NEW s \in Subs, Submit(s) \/ SubmitAbort(s) PROVE Still
  BY <1>1 DEF Submit, SubmitAbort, SubmitReserve, SubmitUndo, HandoffRelease, SubmitCreate,
    SubmitCreateError, SubmitCacheRow, SubmitSend, SubmitSendError, HandoffFail,
      HandoffRollback, HandoffEvict
<1>2. ASSUME NEW c \in Cancels, Cancel(c) \/ CancelAbort(c) PROVE Still
  BY <1>2 DEF Cancel, CancelAbort, CancelRead, CancelPending, CancelReread, CancelRelease,
    CancelRollback, CancelEvict, CancelRunning
<1>3. ASSUME NEW s \in Subs, Work(s) PROVE Still
  BY <1>3 DEF Work, WorkRelease, WorkFailRelease, WorkUncapturedRelease, WorkCapture,
    WorkStart, WorkCompute, WorkReadStatus, WorkMarkCancelled, WorkEvict, WorkMarkFailed,
      WorkFailEvict, WorkMarkUncaptured, WorkComplete, WorkLateRead, WorkLateComplete,
        WorkCacheResult
<1>4. ASSUME NEW s \in Subs, Expire(s) \/ CacheExpire(s) PROVE Still
  BY <1>4 DEF Expire, CacheExpire
<1>5. ASSUME NEW p \in Polls, Poll(p) PROVE Still
  BY <1>5 DEF Poll, PollCache, PollRead, PollFill
<1>6. CASE Restart
  BY <1>6 DEF Restart, TypeOK
<1>7. CASE UNCHANGED vars
  BY <1>7 DEF vars
<1>8. ASSUME NEW a \in Topups, Topup(a)
      PROVE  Still \/ Made(a)
  <2>1. CASE TopupTransfer(a)
    BY <2>1, ConstantsOK DEF TopupTransfer, ConstantsOK
  <2> QED  BY <1>8, <2>1 DEF Topup, TopupBalance, TopupMirror
<1> QED  BY <1>1, <1>2, <1>3, <1>4, <1>5, <1>6, <1>7, <1>8 DEF Next

LEMMA TopupKept ==
  ASSUME TypeOK, TypeOK', ToppedFinite, TopupsGrantOnce, [Next]_vars, restarts' = 0
  PROVE  TopupsGrantOnce'
<1> SUFFICES ASSUME NEW u \in Users
             PROVE  granted'[u] = SeedCredits[u] + TopupAmount * Cardinality(ToppedOf(u)')
  BY DEF TopupsGrantOnce, ToppedOf
<1>1. ASSUME restarts = 0
      PROVE  granted[u] = SeedCredits[u] + TopupAmount * Cardinality(ToppedOf(u))
  BY <1>1 DEF TopupsGrantOnce, ToppedOf
<1>2. CASE UNCHANGED <<granted, topped, restarts>>
  BY <1>1, <1>2 DEF ToppedOf
<1>3. ASSUME NEW a \in Topups, UNCHANGED restarts,
             <<TopupKey[a], TopupUser[a]>> \notin topped,
             topped' = topped \cup {<<TopupKey[a], TopupUser[a]>>},
             granted' = [granted EXCEPT ![TopupUser[a]] = @ + TopupAmount]
      PROVE  granted'[u] = SeedCredits[u] + TopupAmount * Cardinality(ToppedOf(u)')
  <2> DEFINE made == <<TopupKey[a], TopupUser[a]>>
             n == Cardinality(ToppedOf(u))
  <2>1. IsFiniteSet(ToppedOf(u)) /\ n \in Nat
    BY FS_Subset, FS_CardinalityType DEF ToppedFinite, ToppedOf
  <2>2. TopupAmount \in Nat /\ SeedCredits[u] \in Nat /\ granted[u] \in Nat
    BY ConstantsOK DEF ConstantsOK, TypeOK
  <2>3. CASE TopupUser[a] = u
    <3>1. ToppedOf(u)' = ToppedOf(u) \cup {made} /\ made \notin ToppedOf(u)
      BY <1>3, <2>3 DEF ToppedOf
    <3>2. Cardinality(ToppedOf(u)') = n + 1
      BY <2>1, <3>1, FS_AddElement
    <3>3. TopupAmount * (n + 1) = TopupAmount * n + TopupAmount
      BY <2>1, <2>2
    <3>4. granted'[u] = granted[u] + TopupAmount
      BY <1>3, <2>3 DEF TypeOK
    <3>5. TopupAmount * n \in Nat
      BY <2>1, <2>2
    <3> QED  BY <1>1, <1>3, <2>2, <3>2, <3>3, <3>4, <3>5
  <2>4. CASE TopupUser[a] # u
    <3>1. ToppedOf(u)' = ToppedOf(u)
      BY <1>3, <2>4 DEF ToppedOf
    <3>2. granted'[u] = granted[u]
      BY <1>3, <2>4 DEF TypeOK
    <3> QED  BY <1>1, <1>3, <3>1, <3>2
  <2> QED  BY <2>3, <2>4
<1> QED  BY <1>2, <1>3, TopupStep

(* A retried top-up under one transfer id grants once, until a restart.      *)
THEOREM TopupsAlwaysGrantOnce == Spec => []TopupsGrantOnce
<1>1. Init => ToppedFinite /\ TopupsGrantOnce
  <2> SUFFICES ASSUME Init PROVE ToppedFinite /\ TopupsGrantOnce
    OBVIOUS
  <2>1. ToppedFinite
    BY FS_EmptySet DEF Init, ToppedFinite
  <2>2. ASSUME NEW u \in Users
        PROVE  granted[u] = SeedCredits[u] + TopupAmount * Cardinality(ToppedOf(u))
    <3>1. Cardinality(ToppedOf(u)) = 0
      <4>1. ToppedOf(u) = {}
        BY DEF Init, ToppedOf
      <4> QED  BY <4>1, FS_EmptySet
    <3>2. granted[u] = SeedCredits[u] /\ SeedCredits[u] \in Nat /\ TopupAmount \in Nat
      BY ConstantsOK DEF ConstantsOK, Init
    <3> QED  BY <3>1, <3>2
  <2> QED  BY <2>1, <2>2 DEF TopupsGrantOnce, ToppedOf
<1>2. TypeOK /\ TypeOK' /\ ToppedFinite /\ TopupsGrantOnce /\ [Next]_vars
        => ToppedFinite' /\ TopupsGrantOnce'
  <2> SUFFICES ASSUME TypeOK, TypeOK', ToppedFinite, TopupsGrantOnce, [Next]_vars
               PROVE  ToppedFinite' /\ TopupsGrantOnce'
    OBVIOUS
  <2>1. ToppedFinite'
    BY TopupStep, FS_AddElement DEF ToppedFinite
  <2>2. TopupsGrantOnce'
    BY TopupKept DEF TopupsGrantOnce
  <2> QED  BY <2>1, <2>2
<1> QED  BY <1>1, <1>2, TypeCorrect, PTL DEF Spec

-----------------------------------------------------------------------------
(* DurableTask implements CreditHold *)

(* Both count the same attempts against a user's credits. *)
LEMMA SameTaken ==
  ASSUME NEW u \in Users
  PROVE  Billing!Taken(u, [s \in Subs |-> HoldOf(xfer[s])]) = Debited(u, xfer)
BY DEF Billing!Taken, Debited, HoldOf

LEMMA BillingInit == Init => Billing!Init
BY ConstantsOK DEF ConstantsOK, Init, Billing!Init, HoldOf

(* A step that settles a pending transfer settles its hold. *)
LEMMA SettleMaps ==
  ASSUME TypeOK, NEW s \in Subs, UNCHANGED granted,
         \/ xfer' = xfer
         \/ /\ xfer[s] = "pending"
            /\ \E x \in {"posted", "voided", "expired"} :
                 xfer' = [xfer EXCEPT ![s] = x]
  PROVE  [Billing!Next]_<<granted, [r \in Subs |-> HoldOf(xfer[r])]>>
<1> DEFINE h == [r \in Subs |-> HoldOf(xfer[r])]
<1>1. CASE xfer' = xfer
  BY <1>1
<1>2. ASSUME NEW x \in {"posted", "voided", "expired"}, xfer[s] = "pending",
             xfer' = [xfer EXCEPT ![s] = x]
      PROVE  Billing!Next
  <2>1. h' = [h EXCEPT ![s] = HoldOf(x)] /\ h[s] = "held"
    BY <1>2 DEF TypeOK, HoldOf
  <2>2. HoldOf(x) \in {"captured", "returned"}
    BY <1>2 DEF HoldOf
  <2>3. Billing!Settle(s, HoldOf(x))
    BY <2>1 DEF Billing!Settle
  <2> QED  BY <2>2, <2>3 DEF Billing!Next
<1> QED  BY <1>1, <1>2

LEMMA ReserveMaps ==
  ASSUME TypeOK, NEW s \in Subs, ReserveOk(s), Reserve(s), UNCHANGED granted
  PROVE  Billing!Next
<1> DEFINE h == [r \in Subs |-> HoldOf(xfer[r])]
<1>1. h' = [h EXCEPT ![s] = "held"] /\ h[s] = "none"
  BY DEF TypeOK, Reserve, ReserveOk, HoldOf
<1>2. OwnerOf[s] \in Users
  BY ConstantsOK DEF ConstantsOK
<1>3. Billing!Available(OwnerOf[s]) = Balance(OwnerOf[s])
  <2>1. Billing!Taken(OwnerOf[s], h) = Debited(OwnerOf[s], xfer)
    BY <1>2, SameTaken
  <2>2. Billing!Cardinality(Debited(OwnerOf[s], xfer)) = Cardinality(Debited(OwnerOf[s],
    xfer))
    BY Zenon DEF Billing!Cardinality, Cardinality
  <2> QED  BY <2>1, <2>2 DEF Billing!Available, Balance
<1>4. Billing!Hold(s)
  BY <1>1, <1>3 DEF Billing!Hold, ReserveOk
<1> QED  BY <1>4 DEF Billing!Next

(* Credits are only ever added. *)
LEMMA GrantMaps ==
  ASSUME TypeOK, TypeOK', UNCHANGED xfer, \A u \in Users : granted'[u] >= granted[u]
  PROVE  Billing!Next
BY DEF TypeOK, Billing!Next, Billing!Grant

LEMMA BillingNext ==
  ASSUME TypeOK, [Next]_vars
  PROVE  [Billing!Next]_<<granted, [s \in Subs |-> HoldOf(xfer[s])]>>
<1> DEFINE Goal == [Billing!Next]_<<granted, [s \in Subs |-> HoldOf(xfer[s])]>>
<1> USE DEF tbVars
<1>1. ASSUME NEW s \in Subs, Submit(s) \/ SubmitAbort(s) PROVE Goal
  <2>1. CASE SubmitReserve(s)
    BY <2>1, ReserveMaps DEF SubmitReserve
  <2>2. CASE SubmitUndo(s) \/ HandoffRelease(s)
    BY <2>2, SettleMaps DEF SubmitUndo, HandoffRelease, Release, SettleOk
  <2> QED  BY <1>1, <2>1, <2>2 DEF Submit, SubmitAbort, SubmitCreate, SubmitCreateError,
    SubmitCacheRow, SubmitSend, SubmitSendError, HandoffFail, HandoffRollback, HandoffEvict
<1>2. ASSUME NEW c \in Cancels, Cancel(c) \/ CancelAbort(c) PROVE Goal
  <2>1. CASE CancelRelease(c)
    <3>1. ctgt[c] \in Subs
      BY DEF TypeOK
    <3> QED  BY <2>1, <3>1, SettleMaps DEF CancelRelease, Release, SettleOk
  <2> QED  BY <1>2, <2>1 DEF Cancel, CancelAbort, CancelRead, CancelPending, CancelReread,
    CancelRollback, CancelEvict, CancelRunning
<1>3. ASSUME NEW s \in Subs, Work(s) PROVE Goal
  <2>1. CASE \/ WorkRelease(s) \/ WorkFailRelease(s)
            \/ WorkUncapturedRelease(s) \/ WorkCapture(s)
    BY <2>1, SettleMaps DEF WorkRelease, WorkFailRelease, WorkUncapturedRelease,
      WorkCapture, Release, Capture, SettleOk
  <2> QED  BY <1>3, <2>1 DEF Work, WorkStart, WorkCompute, WorkReadStatus,
    WorkMarkCancelled, WorkEvict, WorkMarkFailed, WorkFailEvict, WorkMarkUncaptured,
      WorkComplete, WorkLateRead, WorkLateComplete, WorkCacheResult
<1>4. ASSUME NEW s \in Subs, Expire(s) PROVE Goal
  BY <1>4, SettleMaps DEF Expire
<1>5. ASSUME NEW a \in Topups, Topup(a) PROVE Goal
  <2>1. CASE TopupTransfer(a)
    <3>1. TopupUser[a] \in Users /\ TopupAmount \in Nat
      BY ConstantsOK DEF ConstantsOK
    <3>2. \A u \in Users : granted'[u] >= granted[u]
      <4>1. CASE granted' = [granted EXCEPT ![TopupUser[a]] = @ + TopupAmount]
        BY <3>1, <4>1 DEF TypeOK
      <4>2. CASE UNCHANGED granted
        BY <4>2 DEF TypeOK
      <4> QED  BY <2>1, <4>1, <4>2 DEF TopupTransfer
    <3> QED  BY <2>1, <3>2, GrantMaps, NextTypeOK DEF TopupTransfer
  <2> QED  BY <1>5, <2>1 DEF Topup, TopupBalance, TopupMirror
<1>6. CASE Restart
  <2>1. \A u \in Users : granted'[u] >= granted[u]
    BY <1>6 DEF Restart, Reseeded, TypeOK
  <2> QED  BY <1>6, <2>1, GrantMaps, NextTypeOK DEF Restart
<1>7. CASE UNCHANGED vars
  BY <1>7 DEF vars
<1> QED  BY <1>1, <1>2, <1>3, <1>4, <1>5, <1>6, <1>7 DEF Next, CacheExpire, Poll,
  PollCache, PollRead, PollFill

(* Every behaviour of solution 4 is one of CreditHold: holds are taken only  *)
(* when the balance covers them and settled once.                            *)
THEOREM ImplementsCreditHold == Spec => BillingSpec
<1>1. Init => Billing!Init
  BY BillingInit
<1>2. TypeOK /\ [Next]_vars
        => [Billing!Next]_<<granted, [s \in Subs |-> HoldOf(xfer[s])]>>
  BY BillingNext
<1> QED  BY <1>1, <1>2, TypeCorrect, PTL DEF Spec, BillingSpec, Billing!Spec

=============================================================================

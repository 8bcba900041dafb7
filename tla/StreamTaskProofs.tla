-------------------------- MODULE StreamTaskProofs --------------------------
(***************************************************************************)
(* Proofs about StreamTask, for any users, tasks, keys, cancels, workers,  *)
(* adjustments, credits and scenes, so for any number of failures.         *)
(*                                                                         *)
(* RowsMove says what a step can do to a task's row and its ledger.  What  *)
(* a request, a cancel, a worker or the reaper has found out about its     *)
(* task stays true through that (Safe), and one of them at most is to give *)
(* back what a task held (OneEnds).  Two sets carry the proofs about Redis: *)
(* the tasks that owe a user's balance their cost (Owing) and those that   *)
(* hold one of the user's slots (Holding).  A task enters them when the    *)
(* script admits it and leaves them no later than it is refunded or its    *)
(* slot is given back, so that balance and counter move with their sizes.  *)
(***************************************************************************)
EXTENDS StreamTask, TLAPS, FiniteSetTheorems

-----------------------------------------------------------------------------
(* What the actors know *)

(* No row before the transaction, and no compensation after it. *)
RowsFollow ==
  \A t \in Tasks :
    /\ rpc[t] \in {"idle", "hydrate", "fill", "again", "mark", "persist"} => status[t] = "none"
    /\ rpc[t] \in {"undo", "unadmit"} => status[t] = "none" \/ UserOf[t] \in suspect
    /\ rpc[t] = "clear" => status[t] # "none"
    /\ rpc[t] \in {"idle", "hydrate", "fill", "again", "mark"} => t \notin marker

WorkersKnow ==
  \A w \in Workers : wpc[w] # "idle" =>
    /\ job[w] \in Tasks
    /\ wpc[w] \in {"published", "finished"} => status[job[w]] = "COMPLETED"
    /\ wpc[w] \in {"refund", "release", "failed"} => status[job[w]] = "FAILED"

CancelsKnow ==
  \A c \in Cancels : cpc[c] \in {"refund", "release", "cache"} => status[CancelOf[c]] = "CANCELLED"

(* An orphan's request has ended without a row. *)
ReaperKnows ==
  /\ xpc \in {"refund", "release", "forget", "stuckRefund", "stuckRelease"} => xjob \in Tasks
  /\ xpc \in {"refund", "release", "forget"} =>
       \/ status[xjob] = "none" /\ rpc[xjob] \in RequestEnds
       \/ UserOf[xjob] \in suspect
  /\ xpc \in {"stuckRefund", "stuckRelease"} => status[xjob] = "FAILED"
  /\ xpc \in {"snapshot", "clean", "restore", "reconcile"} => xjob \in Users
  /\ xpc \in {"snapshot", "restore", "reconcile"} => xread \in Int

CachesTrue ==
  \A t \in Tasks :
    /\ hash[t] \in Terminal => status[t] \in {hash[t], "EXPIRED"}
    /\ result[t] # "none" => status[t] \in {result[t], "EXPIRED"}

-----------------------------------------------------------------------------
(* Who has ended a task and has still to give back what it held *)

CancelDue(c, t) == CancelOf[c] = t /\ cpc[c] \in {"refund", "release"}
WorkDue(w, t) == job[w] = t /\ wpc[w] \in {"refund", "release", "published", "finished"}
StuckDue(t) == xjob = t /\ xpc \in {"stuckRefund", "stuckRelease"}

OneEnds ==
  \A t \in Tasks :
    /\ \A c, d \in Cancels : CancelDue(c, t) /\ CancelDue(d, t) => c = d
    /\ \A v, w \in Workers : WorkDue(v, t) /\ WorkDue(w, t) => v = w
    /\ \A c \in Cancels, w \in Workers : ~(CancelDue(c, t) /\ WorkDue(w, t))
    /\ StuckDue(t) => /\ \A c \in Cancels : ~CancelDue(c, t)
                      /\ \A w \in Workers : ~WorkDue(w, t)

Safe ==
  /\ TypeOK /\ RowsFollow /\ WorkersKnow /\ CancelsKnow /\ ReaperKnows
  /\ CachesTrue /\ OneEnds /\ LedgerMatchesStatus

-----------------------------------------------------------------------------
(* The credits a user has out *)

RequestOwes(t) == rpc[t] \in {"mark", "persist", "undo"}
CancelOwes(t) == \E c \in Cancels : CancelOf[c] = t /\ cpc[c] = "refund"
WorkOwes(t) == \E w \in Workers : job[w] = t /\ wpc[w] = "refund"
ReapOwes(t) == xjob = t /\ xpc \in {"refund", "stuckRefund"}
OrphanOwes(t) == Orphan(t) /\ ~(xjob = t /\ xpc \in {"release", "forget"})

Owes(t) ==
  \/ RequestOwes(t) \/ ledger[t] = -Cost
  \/ CancelOwes(t) \/ WorkOwes(t) \/ ReapOwes(t) \/ OrphanOwes(t)

Owing(u) == {t \in Tasks : UserOf[t] = u /\ Owes(t)}

Covered(u) ==
  IF bal[u] = NoBalance
  THEN Owing(u) = {} /\ (snap[u] # NoBalance => snap[u] <= stored[u])
  ELSE bal[u] <= stored[u] - Cost * Cardinality(Owing(u))

(* A balance that someone is about to write is not above users.credits. *)
ReadsCovered ==
  /\ \A t \in Tasks : rpc[t] = "fill" =>
       read[t] \in Int /\ (UserOf[t] \notin suspect => read[t] <= stored[UserOf[t]])
  /\ \A a \in Adjusts : apc[a] = "sync" /\ AdjustUser[a] \notin suspect =>
       new[a] <= stored[AdjustUser[a]]
  /\ xpc = "restore" /\ bal[xjob] = NoBalance /\ xjob \notin suspect => xread <= stored[xjob]
  /\ xpc \in {"snapshot", "clean", "reconcile"} => bal[xjob] # NoBalance

CreditsCovered == ReadsCovered /\ \A u \in Users \ suspect : Covered(u)

-----------------------------------------------------------------------------
(* The slots a user has taken *)

RequestHolds(t) == rpc[t] \in {"mark", "persist", "undo", "unadmit"}
CancelHolds(t) == \E c \in Cancels : CancelDue(c, t)
WorkHolds(t) == \E w \in Workers : WorkDue(w, t)
ReapHolds(t) == xjob = t /\ xpc \in {"refund", "release", "stuckRefund", "stuckRelease"}
OrphanHolds(t) == Orphan(t) /\ ~(xjob = t /\ xpc = "forget")

Holds(t) ==
  \/ RequestHolds(t) \/ status[t] \in Cancellable
  \/ CancelHolds(t) \/ WorkHolds(t) \/ ReapHolds(t) \/ OrphanHolds(t)

Holding(u) == {t \in Tasks : UserOf[t] = u /\ Holds(t)}

SlotsCounted ==
  /\ \A u \in Users \ suspect : Cardinality(Holding(u)) <= active[u]
  /\ \A u \in Users : active[u] <= MaxConcurrent

-----------------------------------------------------------------------------
(* What a step can do to the row and the ledger of a task *)

RowMoves(t) ==
  \/ status'[t] = status[t] /\ ledger'[t] = ledger[t]
  \/ /\ status[t] = "none" /\ status'[t] = "PENDING" /\ ledger'[t] = ledger[t] - Cost
     /\ rpc[t] = "persist"
     /\ rpc'[t] = "clear" \/ (rpc'[t] = "undo" /\ UserOf[t] \in suspect')
  \/ status[t] = "PENDING" /\ status'[t] = "RUNNING" /\ ledger'[t] = ledger[t]
  \/ status[t] = "RUNNING" /\ status'[t] = "COMPLETED" /\ ledger'[t] = ledger[t]
  \/ /\ status[t] \in Cancellable /\ status'[t] \in {"FAILED", "CANCELLED"}
     /\ ledger'[t] = ledger[t] + Cost
  \/ /\ status[t] \in Terminal /\ status'[t] = "EXPIRED" /\ ledger'[t] = ledger[t]
     /\ rpc[t] \in RequestEnds /\ ~Busy(t) /\ xjob # t
     /\ \A c \in Cancels : CancelOf[c] = t => cpc[c] \in {"idle", "ended"}

RowsMove == \A t \in Tasks : RowMoves(t)

LEMMA StillMoves == UNCHANGED rowVars => RowsMove
BY DEF rowVars, RowsMove, RowMoves

LEMMA EndMoves ==
  ASSUME TypeOK, NEW t \in Tasks, NEW st \in {"FAILED", "CANCELLED"}, EndWithRefund(t, st)
  PROVE  RowsMove
BY DEF TypeOK, EndWithRefund, SetStatus, RowsMove, RowMoves

LEMMA CancelOfTask == \A c \in Cancels : CancelOf[c] \in Tasks /\ UserOf[CancelOf[c]] \in Users
BY ConstantsOK DEF ConstantsOK

LEMMA UserOfTask == \A t \in Tasks : UserOf[t] \in Users
BY ConstantsOK DEF ConstantsOK

-----------------------------------------------------------------------------
(* Whose step it is *)

RequestActs(t) ==
  Request(t) \/ GateLost(t) \/ PersistError(t) \/ UnadmitError(t) \/ RequestAbort(t)
CancelActs(c) ==
  \/ CancelRead(c) \/ CancelTransact(c) \/ CancelRefund(c) \/ CancelRelease(c)
  \/ CancelCache(c) \/ CancelAbort(c) \/ CancelRetry(c)
AdjustActs == \E a \in Adjusts : Adjust(a) \/ AdjustSync(a) \/ AdjustAbort(a)
WorkerActs(w) ==
  \/ \E t \in Tasks : WorkRead(w, t) \/ WorkClaim(w, t)
  \/ Work(w) \/ WorkRaise(w)
  \/ WorkError(w) \/ WorkFailError(w) \/ WorkGiveUp(w) \/ WorkRetry(w) \/ WorkCrash(w)
ReaperActs ==
  \/ \E t \in Tasks : ReapMarker(t) \/ ReapStuck(t)
  \/ \E u \in Users : FlushRead(u) \/ AuditRead(u)
  \/ ReapStep \/ ReapAbort \/ ReapRetry
RestActs ==
  \/ \E t \in Tasks : MarkerExpire(t) \/ ReapStuckLost(t) \/ Expire(t)
  \/ UNCHANGED vars

LEMMA WhoActs ==
  ASSUME [Next]_vars
  PROVE  \/ \E t \in Tasks : RequestActs(t)
         \/ \E c \in Cancels : CancelActs(c)
         \/ AdjustActs
         \/ \E w \in Workers : WorkerActs(w)
         \/ ReaperActs
         \/ RestActs
BY DEF Next, RequestActs, CancelActs, AdjustActs, WorkerActs, ReaperActs, RestActs

LEMMA RequestFrame ==
  ASSUME TypeOK, NEW t \in Tasks, RequestActs(t)
  PROVE  /\ UNCHANGED <<cpc, adminVars, workVars, reapVars, stored, snap>>
         /\ \A s \in Tasks \ {t} :
              /\ rpc'[s] = rpc[s] /\ read'[s] = read[s] /\ hash'[s] = hash[s]
              /\ status'[s] = status[s] /\ ledger'[s] = ledger[s]
              /\ s \in marker' <=> s \in marker
         /\ result' = result
<1>1. /\ UNCHANGED <<cpc, adminVars, workVars, reapVars, stored, snap, result>>
  BY DEF RequestActs, Request, Gate, Admit, GateLost, HydrateRead, HydrateFill, MarkPending,
         Persist, PersistError, Undo, Unadmit, UnadmitError, Accept, RequestAbort, GoRequest,
         creditVars, balanceVars, cacheVars, adminVars, workVars, reapVars, Credit, GiveSlotBack,
         Decrement, Overwrite
<1>2. ASSUME NEW s \in Tasks \ {t}
      PROVE  rpc'[s] = rpc[s] /\ read'[s] = read[s]
  BY DEF TypeOK, RequestActs, Request, Gate, GateLost, HydrateRead, HydrateFill, MarkPending,
         Persist, PersistError, Undo, Unadmit, UnadmitError, Accept, RequestAbort, GoRequest
<1>3. ASSUME NEW s \in Tasks \ {t}
      PROVE  hash'[s] = hash[s] /\ (s \in marker' <=> s \in marker)
  BY DEF TypeOK, RequestActs, Request, Gate, GateLost, HydrateRead, HydrateFill, MarkPending,
         Persist, PersistError, Undo, Unadmit, UnadmitError, Accept, RequestAbort, Admit,
         cacheVars, admissionVars
<1>4. ASSUME NEW s \in Tasks \ {t}
      PROVE  status'[s] = status[s] /\ ledger'[s] = ledger[s]
  BY DEF TypeOK, RequestActs, Request, Gate, GateLost, HydrateRead, HydrateFill, MarkPending,
         Persist, PersistError, Undo, Unadmit, UnadmitError, Accept, RequestAbort, Insert,
         SetStatus, rowVars
<1> QED  BY <1>1, <1>2, <1>3, <1>4

LEMMA CancelFrame ==
  ASSUME TypeOK, NEW c \in Cancels, CancelActs(c)
  PROVE  /\ UNCHANGED <<rpc, read, adminVars, workVars, reapVars, stored, snap, result>>
         /\ \A d \in Cancels \ {c} : cpc'[d] = cpc[d]
         /\ marker' \subseteq marker
<1>1. UNCHANGED <<rpc, read, adminVars, workVars, reapVars, stored, snap, result>>
  BY DEF CancelActs, CancelRead, CancelTransact, CancelRefund, CancelRelease, CancelCache,
         CancelAbort, CancelRetry, GoCancel, creditVars, balanceVars, cacheVars, adminVars,
         workVars, reapVars, Credit, GiveSlotBack, Decrement
<1>2. ASSUME NEW d \in Cancels \ {c} PROVE cpc'[d] = cpc[d]
  BY DEF TypeOK, CancelActs, CancelRead, CancelTransact, CancelRefund, CancelRelease, CancelCache,
         CancelAbort, CancelRetry, GoCancel
<1>3. marker' \subseteq marker
  BY DEF CancelActs, CancelRead, CancelTransact, CancelRefund, CancelRelease, CancelCache,
         CancelAbort, CancelRetry, admissionVars
<1> QED  BY <1>1, <1>2, <1>3

LEMMA AdjustFrame ==
  ASSUME AdjustActs
  PROVE  /\ UNCHANGED <<rpc, read, cpc, workVars, reapVars, snap, cacheVars, marker, rowVars, active>>
         /\ suspect \subseteq suspect'
BY DEF AdjustActs, Adjust, AdjustSync, AdjustAbort, GoAdjust, creditVars, balanceVars,
       admissionVars, Overwrite, faultVars, Fault

LEMMA WorkerFrame ==
  ASSUME TypeOK, NEW w \in Workers, WorkerActs(w)
  PROVE  /\ UNCHANGED <<requestVars, reapVars, stored, snap, marker>>
         /\ \A v \in Workers \ {w} : wpc'[v] = wpc[v] /\ job'[v] = job[v]
<1>1. UNCHANGED <<requestVars, reapVars>>
  BY DEF WorkerActs, WorkRead, WorkClaim, Work, WorkStart, WorkLook, WorkMark, WorkComplete,
         WorkPublish, WorkFinish, WorkFail, WorkRefund, WorkRelease, WorkAck, WorkRaise, WorkError,
         WorkFailError, WorkGiveUp, WorkRetry, WorkCrash
<1>2. UNCHANGED <<stored, snap, marker>>
  BY DEF WorkerActs, WorkRead, WorkClaim, Work, WorkStart, WorkLook, WorkMark, WorkComplete,
         WorkPublish, WorkFinish, WorkFail, WorkRefund, WorkRelease, WorkAck, WorkRaise, WorkError,
         WorkFailError, WorkGiveUp, WorkRetry, WorkCrash, creditVars, balanceVars, admissionVars,
         Credit, GiveSlotBack, Decrement
<1>3. ASSUME NEW v \in Workers \ {w} PROVE wpc'[v] = wpc[v] /\ job'[v] = job[v]
  BY DEF TypeOK, WorkerActs, WorkRead, WorkClaim, Work, WorkStart, WorkLook, WorkMark,
         WorkComplete, WorkPublish, WorkFinish, WorkFail, WorkRefund, WorkRelease, WorkAck,
         WorkRaise, WorkError, WorkFailError, WorkGiveUp, WorkRetry, WorkCrash, workVars, GoWork,
         Leave, Take
<1> QED  BY <1>1, <1>2, <1>3

LEMMA ReaperFrame ==
  ASSUME ReaperActs
  PROVE  UNCHANGED <<requestVars, workVars, stored, cacheVars>> /\ marker' \subseteq marker
<1>1. UNCHANGED <<requestVars, workVars, cacheVars>>
  BY DEF ReaperActs, ReapMarker, ReapStuck, FlushRead, AuditRead, ReapStep, ReapRefund,
         ReapRelease, ReapForget, WriteSnapshot, FlushClean, AuditRestore, ReapAbort, ReapRetry
<1>2. UNCHANGED stored /\ marker' \subseteq marker
  BY DEF ReaperActs, ReapMarker, ReapStuck, FlushRead, AuditRead, ReapStep, ReapRefund,
         ReapRelease, ReapForget, WriteSnapshot, FlushClean, AuditRestore, ReapAbort, ReapRetry,
         creditVars, balanceVars, admissionVars, Credit, GiveSlotBack, Decrement, Overwrite
<1> QED  BY <1>1, <1>2

LEMMA RestFrame ==
  ASSUME RestActs
  PROVE  /\ UNCHANGED <<requestVars, workVars, reapVars, creditVars, cacheVars, suspect>>
         /\ marker' \subseteq marker
BY DEF RestActs, MarkerExpire, ReapStuckLost, Expire, vars, requestVars, workVars, reapVars,
       admissionVars, rowVars, cacheVars, creditVars, faultVars, Fault

(* Nobody is taken off the list. *)
LEMMA SuspectGrows ==
  ASSUME [Next]_vars
  PROVE  suspect \subseteq suspect'
<1>1. ASSUME NEW t \in Tasks, RequestActs(t) PROVE suspect \subseteq suspect'
  BY <1>1 DEF RequestActs, Request, Gate, GateLost, HydrateRead, HydrateFill, MarkPending,
              Persist, PersistError, Undo, Unadmit, UnadmitError, Accept, RequestAbort, faultVars,
              Fault, Misled, Overwrite
<1>2. ASSUME NEW c \in Cancels, CancelActs(c) PROVE suspect \subseteq suspect'
  BY <1>2 DEF CancelActs, CancelRead, CancelTransact, CancelRefund, CancelRelease, CancelCache,
              CancelAbort, CancelRetry, faultVars, Fault, Misled
<1>3. ASSUME NEW w \in Workers, WorkerActs(w) PROVE suspect \subseteq suspect'
  BY <1>3 DEF WorkerActs, WorkRead, WorkClaim, Work, WorkStart, WorkLook, WorkMark, WorkComplete,
              WorkPublish, WorkFinish, WorkFail, WorkRefund, WorkRelease, WorkAck, WorkRaise,
              WorkError, WorkFailError, WorkGiveUp, WorkRetry, WorkCrash, faultVars, Fault, Misled
<1>4. ReaperActs => suspect \subseteq suspect'
  BY DEF ReaperActs, ReapMarker, ReapStuck, FlushRead, AuditRead, ReapStep, ReapRefund,
         ReapRelease, ReapForget, WriteSnapshot, FlushClean, AuditRestore, ReapAbort, ReapRetry,
         faultVars, Fault, Misled, Overwrite
<1> QED  BY <1>1, <1>2, <1>3, <1>4, WhoActs, AdjustFrame, RestFrame

LEMMA RequestMoves ==
  ASSUME Safe, NEW t \in Tasks, RequestActs(t)
  PROVE  RowsMove
<1> USE DEF Safe, TypeOK
<1>1. CASE UNCHANGED rowVars
  BY <1>1, StillMoves
<1>2. CASE Persist(t) /\ Insert(t)
  <2>1. rpc'[t] = "clear" /\ rpc[t] = "persist" /\ status[t] = "none"
    BY <1>2 DEF Persist, GoRequest, Insert, SetStatus, RowsFollow
  <2> QED  BY <1>2, <2>1 DEF Insert, SetStatus, RowsMove, RowMoves
<1>3. CASE PersistError(t) /\ Insert(t) /\ Misled(UserOf[t])
  <2>1. rpc'[t] = "undo" /\ rpc[t] = "persist" /\ status[t] = "none" /\ UserOf[t] \in suspect'
    BY <1>3 DEF PersistError, GoRequest, Insert, SetStatus, RowsFollow, Misled
  <2> QED  BY <1>3, <2>1 DEF Insert, SetStatus, RowsMove, RowMoves
<1> QED
  BY <1>1, <1>2, <1>3
  DEF RequestActs, Request, Gate, GateLost, HydrateRead, HydrateFill, MarkPending, Persist,
      PersistError, Undo, Unadmit, UnadmitError, Accept, RequestAbort

LEMMA CancelMoves ==
  ASSUME Safe, NEW c \in Cancels, CancelActs(c)
  PROVE  RowsMove
<1>1. CASE UNCHANGED rowVars
  BY <1>1, StillMoves
<1>2. CASE EndWithRefund(CancelOf[c], "CANCELLED")
  BY <1>2, EndMoves, CancelOfTask DEF Safe
<1> QED
  BY <1>1, <1>2
  DEF CancelActs, CancelRead, CancelTransact, CancelRefund, CancelRelease, CancelCache,
      CancelAbort, CancelRetry

LEMMA WorkMoves ==
  ASSUME Safe, NEW w \in Workers, WorkerActs(w)
  PROVE  RowsMove
<1> USE DEF Safe
<1>1. CASE UNCHANGED rowVars
  BY <1>1, StillMoves
<1>2. CASE /\ wpc[w] # "idle" /\ UNCHANGED ledger
           /\ \/ status[job[w]] = "PENDING" /\ SetStatus(job[w], "RUNNING")
              \/ status[job[w]] = "RUNNING" /\ SetStatus(job[w], "COMPLETED")
  <2>1. job[w] \in Tasks
    BY <1>2 DEF WorkersKnow
  <2> QED  BY <1>2, <2>1 DEF TypeOK, SetStatus, RowsMove, RowMoves
<1>3. CASE wpc[w] # "idle" /\ EndWithRefund(job[w], "FAILED")
  <2>1. job[w] \in Tasks
    BY <1>3 DEF WorkersKnow
  <2> QED  BY <1>3, <2>1, EndMoves
<1>4. CASE WorkStart(w) \/ WorkComplete(w) \/ WorkError(w)
  BY <1>1, <1>2, <1>4 DEF WorkStart, WorkComplete, WorkError, rowVars
<1>5. CASE WorkFail(w) \/ WorkFailError(w)
  BY <1>1, <1>3, <1>5 DEF WorkFail, WorkFailError
<1> QED
  BY <1>1, <1>4, <1>5
  DEF WorkerActs, WorkRead, WorkClaim, Work, WorkLook, WorkMark, WorkPublish, WorkFinish,
      WorkRefund, WorkRelease, WorkAck, WorkRaise, WorkGiveUp, WorkRetry, WorkCrash

LEMMA ReaperMoves ==
  ASSUME Safe, ReaperActs
  PROVE  RowsMove
<1>1. ASSUME NEW t \in Tasks, ReapStuck(t) PROVE RowsMove
  BY <1>1, EndMoves DEF Safe, ReapStuck
<1> QED
  BY <1>1, StillMoves
  DEF ReaperActs, ReapMarker, FlushRead, AuditRead, ReapStep, ReapRefund, ReapRelease, ReapForget,
      WriteSnapshot, FlushClean, AuditRestore, ReapAbort, ReapRetry

LEMMA RestMoves ==
  ASSUME Safe, RestActs
  PROVE  RowsMove
<1>1. ASSUME NEW t \in Tasks, ReapStuckLost(t) PROVE RowsMove
  BY <1>1, EndMoves DEF Safe, ReapStuckLost
<1>2. ASSUME NEW t \in Tasks, Expire(t) PROVE RowsMove
  BY <1>2 DEF Safe, TypeOK, Expire, SetStatus, RowsMove, RowMoves
<1> QED  BY <1>1, <1>2, StillMoves DEF RestActs, MarkerExpire, vars

LEMMA NextMoves ==
  ASSUME Safe, [Next]_vars
  PROVE  RowsMove
BY WhoActs, RequestMoves, CancelMoves, AdjustFrame, StillMoves, WorkMoves, ReaperMoves, RestMoves

-----------------------------------------------------------------------------
(* What stays true *)

LEMMA LedgerNext ==
  ASSUME Safe, RowsMove
  PROVE  LedgerMatchesStatus'
<1>1. Cost \in Nat
  BY ConstantsOK DEF ConstantsOK
<1> SUFFICES ASSUME NEW t \in Tasks
             PROVE  /\ status'[t] = "none" => ledger'[t] = 0
                    /\ status'[t] \in Cancellable \cup {"COMPLETED"} => ledger'[t] = -Cost
                    /\ status'[t] \in {"FAILED", "CANCELLED"} => ledger'[t] = 0
                    /\ status'[t] = "EXPIRED" => ledger'[t] \in {0, -Cost}
  BY DEF LedgerMatchesStatus
<1>2. RowMoves(t) /\ ledger[t] \in Int
  BY DEF RowsMove, Safe, TypeOK
<1>3. /\ status[t] = "none" => ledger[t] = 0
      /\ status[t] \in Cancellable \cup {"COMPLETED"} => ledger[t] = -Cost
      /\ status[t] \in {"FAILED", "CANCELLED"} => ledger[t] = 0
      /\ status[t] = "EXPIRED" => ledger[t] \in {0, -Cost}
  BY DEF Safe, LedgerMatchesStatus
<1> QED  BY <1>1, <1>2, <1>3 DEF RowMoves, Cancellable, Terminal

(* An outcome stays until it is too old, when nobody is at work on it. *)
LEMMA OutcomesStay ==
  ASSUME Safe, RowsMove, NEW t \in Tasks
  PROVE  /\ status[t] # "none" => status'[t] # "none"
         /\ status[t] \in Terminal => status'[t] \in {status[t], "EXPIRED"}
         /\ \/ \E c \in Cancels : CancelOf[c] = t /\ cpc[c] \in CancelSteps
            \/ \E w \in Workers : job[w] = t
            \/ xjob = t
            => (status[t] \in Terminal => status'[t] = status[t])
BY DEF RowsMove, RowMoves, Terminal, Cancellable, Busy, CancelSteps

LEMMA RequestsGo ==
  ASSUME Safe, NEW t \in Tasks, RequestActs(t)
  PROVE  /\ rpc'[t] \in {"idle", "hydrate", "fill", "again", "mark"} =>
              rpc[t] \in {"idle", "hydrate", "fill", "again"} /\ (t \in marker' <=> t \in marker)
         /\ rpc'[t] = "persist" => rpc[t] = "mark"
         /\ rpc'[t] \in {"undo", "unadmit"} => rpc[t] \in {"persist", "undo"}
         /\ rpc'[t] = "clear" => rpc[t] = "persist" /\ status'[t] # "none"
         /\ rpc[t] \notin RequestEnds
BY DEF Safe, TypeOK, RequestActs, Request, Gate, GateLost, HydrateRead, HydrateFill, MarkPending,
       Persist, PersistError, Undo, Unadmit, UnadmitError, Accept, RequestAbort, GoRequest, Insert,
       SetStatus, RequestEnds, RequestSteps, Admit, admissionVars

LEMMA RowsFollowNext ==
  ASSUME Safe, RowsMove, [Next]_vars
  PROVE  RowsFollow'
<1> SUFFICES ASSUME NEW s \in Tasks
             PROVE  /\ rpc'[s] \in {"idle", "hydrate", "fill", "again", "mark", "persist"} =>
                         status'[s] = "none"
                    /\ rpc'[s] \in {"undo", "unadmit"} =>
                         status'[s] = "none" \/ UserOf[s] \in suspect'
                    /\ rpc'[s] = "clear" => status'[s] # "none"
                    /\ rpc'[s] \in {"idle", "hydrate", "fill", "again", "mark"} => s \notin marker'
  BY DEF RowsFollow
<1>1. RowMoves(s) /\ suspect \subseteq suspect'
  BY SuspectGrows DEF RowsMove
<1>2. /\ rpc[s] \in {"idle", "hydrate", "fill", "again", "mark", "persist"} => status[s] = "none"
      /\ rpc[s] \in {"undo", "unadmit"} => status[s] = "none" \/ UserOf[s] \in suspect
      /\ rpc[s] = "clear" => status[s] # "none"
      /\ rpc[s] \in {"idle", "hydrate", "fill", "again", "mark"} => s \notin marker
  BY DEF Safe, RowsFollow
<1>3. CASE rpc'[s] = rpc[s] /\ (s \in marker' => s \in marker)
  BY <1>1, <1>2, <1>3 DEF RowMoves, Cancellable, Terminal
<1>4. CASE RequestActs(s)
  <2>1. status[s] = "none" /\ rpc'[s] \notin {"clear", "undo"} => status'[s] = "none"
    BY <1>1 DEF RowMoves, Cancellable, Terminal
  <2>2. rpc[s] = "persist" /\ rpc'[s] = "undo" => status'[s] = "none" \/ UserOf[s] \in suspect'
    BY <1>1, <1>2 DEF RowMoves, Cancellable, Terminal
  <2> QED  BY <1>1, <1>2, <1>4, <2>1, <2>2, RequestsGo DEF RowMoves, Cancellable, Terminal
<1>5. ASSUME NEW t \in Tasks, RequestActs(t), t # s
      PROVE  rpc'[s] = rpc[s] /\ (s \in marker' => s \in marker)
  BY <1>5, RequestFrame DEF Safe
<1>6. \/ \E t \in Tasks : RequestActs(t)
      \/ rpc'[s] = rpc[s] /\ (s \in marker' => s \in marker)
  BY WhoActs, CancelFrame, AdjustFrame, WorkerFrame, ReaperFrame, RestFrame DEF Safe, requestVars
<1> QED  BY <1>3, <1>4, <1>5, <1>6

WorkerKnows(w) ==
  wpc[w] # "idle" =>
    /\ job[w] \in Tasks
    /\ wpc[w] \in {"published", "finished"} => status[job[w]] = "COMPLETED"
    /\ wpc[w] \in {"refund", "release", "failed"} => status[job[w]] = "FAILED"

LEMMA WorkerKnowsOn ==
  ASSUME Safe, RowsMove, NEW w \in Workers, job'[w] = job[w],
         wpc'[w] \in {"published", "finished"} => wpc[w] \in {"published", "finished"},
         wpc'[w] \in {"refund", "release", "failed"} => wpc[w] \in {"refund", "release", "failed"},
         wpc[w] = "idle" => wpc'[w] = "idle"
  PROVE  WorkerKnows(w)'
<1>1. WorkerKnows(w)
  BY DEF Safe, WorkersKnow, WorkerKnows
<1>2. CASE wpc'[w] = "idle"
  BY <1>2 DEF WorkerKnows
<1>3. CASE wpc'[w] # "idle"
  <2>1. job[w] \in Tasks
    BY <1>1, <1>3 DEF WorkerKnows
  <2>2. status[job[w]] \in Terminal => status'[job[w]] = status[job[w]]
    BY <2>1, OutcomesStay
  <2> QED  BY <1>1, <1>3, <2>1, <2>2 DEF WorkerKnows, Terminal
<1> QED  BY <1>2, <1>3

LEMMA OwnWork ==
  ASSUME Safe, RowsMove, NEW w \in Workers, WorkerActs(w)
  PROVE  WorkerKnows(w)'
<1> USE DEF Safe, TypeOK
<1>1. CASE \E t \in Tasks : WorkRead(w, t) \/ WorkClaim(w, t)
  BY <1>1 DEF WorkRead, WorkClaim, Take, WorkerKnows
<1>2. CASE wpc'[w] = "idle"
  BY <1>2 DEF WorkerKnows
<1>3. CASE WorkLook(w) \/ WorkAck(w) \/ WorkCrash(w)
  BY <1>2, <1>3 DEF WorkLook, WorkAck, WorkCrash, Leave
<1>4. CASE WorkComplete(w) /\ wpc'[w] = "published"
  <2>1. job[w] \in Tasks /\ job' = job
    BY <1>4 DEF WorkComplete, WorkersKnow, GoWork
  <2>2. status'[job[w]] = "COMPLETED"
    BY <1>4, <2>1 DEF WorkComplete, SetStatus, GoWork
  <2> QED  BY <1>4, <2>1, <2>2 DEF WorkerKnows
<1>5. CASE WorkFail(w) /\ wpc'[w] = "refund"
  <2>1. job[w] \in Tasks /\ job' = job
    BY <1>5 DEF WorkFail, WorkersKnow, GoWork
  <2>2. status'[job[w]] = "FAILED"
    BY <1>5, <2>1 DEF WorkFail, EndWithRefund, SetStatus, GoWork
  <2> QED  BY <1>5, <2>1, <2>2 DEF WorkerKnows
<1>6. CASE \/ WorkStart(w) \/ WorkMark(w) \/ WorkRaise(w) \/ WorkError(w) \/ WorkFailError(w)
           \/ WorkComplete(w) /\ wpc'[w] # "published"
           \/ WorkFail(w) /\ wpc'[w] # "refund"
  <2>1. /\ job' = job /\ wpc[w] # "idle"
        /\ wpc'[w] \notin {"published", "finished", "refund", "release", "failed"}
    BY <1>6 DEF WorkStart, WorkMark, WorkRaise, WorkError, WorkFailError, WorkComplete, WorkFail,
                GoWork
  <2> QED  BY <2>1, WorkerKnowsOn
<1>7. CASE \/ WorkPublish(w) \/ WorkFinish(w) \/ WorkRefund(w) \/ WorkRelease(w)
           \/ WorkGiveUp(w) \/ WorkRetry(w)
  <2>1. /\ job' = job /\ wpc[w] # "idle"
        /\ wpc'[w] \in {"published", "finished"} => wpc[w] \in {"published", "finished"}
        /\ wpc'[w] \in {"refund", "release", "failed"} => wpc[w] \in {"refund", "release", "failed"}
    BY <1>7 DEF WorkPublish, WorkFinish, WorkRefund, WorkRelease, WorkGiveUp, WorkRetry, GoWork,
                workVars
  <2> QED  BY <2>1, WorkerKnowsOn
<1> QED  BY <1>1, <1>3, <1>4, <1>5, <1>6, <1>7 DEF WorkerActs, Work

LEMMA WorkersKnowNext ==
  ASSUME Safe, RowsMove, [Next]_vars
  PROVE  WorkersKnow'
<1>1. ASSUME NEW v \in Workers PROVE WorkerKnows(v)'
  <2>1. CASE UNCHANGED workVars
    BY <2>1, WorkerKnowsOn DEF workVars
  <2>2. ASSUME NEW w \in Workers, WorkerActs(w) PROVE WorkerKnows(v)'
    <3>1. CASE v = w
      BY <2>2, <3>1, OwnWork
    <3>2. CASE v # w
      BY <2>2, <3>2, WorkerFrame, WorkerKnowsOn DEF Safe
    <3> QED  BY <3>1, <3>2
  <2> QED  BY <2>1, <2>2, WhoActs, RequestFrame, CancelFrame, AdjustFrame, ReaperFrame, RestFrame
           DEF Safe
<1> QED  BY <1>1 DEF WorkerKnows, WorkersKnow

(* How far cancels get in a step. *)
LEMMA CancelsGo ==
  ASSUME Safe, NEW c \in Cancels, CancelActs(c)
  PROVE  /\ cpc'[c] \in {"refund", "release"} =>
              \/ cpc[c] \in {"refund", "release"} /\ UNCHANGED rowVars
              \/ EndWithRefund(CancelOf[c], "CANCELLED") /\ cpc'[c] = "refund"
         /\ cpc'[c] = "cache" => cpc[c] = "release" /\ UNCHANGED rowVars
         /\ cpc'[c] = "refund" /\ cpc[c] = "release" => UserOf[CancelOf[c]] \in suspect'
         /\ cpc[c] # "ended"
BY DEF Safe, TypeOK, CancelActs, CancelRead, CancelTransact, CancelRefund, CancelRelease,
       CancelCache, CancelAbort, CancelRetry, GoCancel, CancelSteps, Misled

LEMMA CancelsKnowNext ==
  ASSUME Safe, RowsMove, [Next]_vars
  PROVE  CancelsKnow'
<1> SUFFICES ASSUME NEW d \in Cancels, cpc'[d] \in {"refund", "release", "cache"}
             PROVE  status'[CancelOf[d]] = "CANCELLED"
  BY DEF CancelsKnow
<1>1. CASE cpc[d] \in {"refund", "release", "cache"}
  <2>1. status[CancelOf[d]] = "CANCELLED"
    BY <1>1 DEF Safe, CancelsKnow
  <2> QED  BY <1>1, <2>1, CancelOfTask, OutcomesStay DEF CancelSteps, Terminal
<1>2. ASSUME cpc[d] \notin {"refund", "release", "cache"}, CancelActs(d)
      PROVE  status'[CancelOf[d]] = "CANCELLED"
  <2>1. EndWithRefund(CancelOf[d], "CANCELLED")
    BY <1>2, CancelsGo
  <2> QED  BY <2>1, CancelOfTask DEF Safe, TypeOK, EndWithRefund, SetStatus
<1>3. CASE cpc'[d] = cpc[d]
  BY <1>1, <1>3
<1> QED
  BY <1>1, <1>2, <1>3, WhoActs, RequestFrame, CancelFrame, AdjustFrame, WorkerFrame, ReaperFrame,
     RestFrame DEF Safe, requestVars

LEMMA ReaperKnowsNext ==
  ASSUME Safe, RowsMove, [Next]_vars
  PROVE  ReaperKnows'
<1> USE DEF Safe, TypeOK
<1>1. suspect \subseteq suspect'
  BY SuspectGrows
<1>2. ASSUME NEW t \in Tasks, ReapMarker(t), xpc' # "idle" PROVE ReaperKnows'
  <2>1. /\ xpc' = "refund" /\ xjob' = t /\ UNCHANGED rpc /\ UNCHANGED status /\ status[t] = "none"
        /\ rpc[t] \in RequestEnds \/ UserOf[t] \in suspect'
    BY <1>2 DEF ReapMarker, GoReap, Misled, requestVars, rowVars, reapVars
  <2> QED  BY <2>1 DEF ReaperKnows
<1>3. ASSUME NEW t \in Tasks, ReapStuck(t) PROVE ReaperKnows'
  <2>1. xpc' = "stuckRefund" /\ xjob' = t /\ status'[t] = "FAILED"
    BY <1>3 DEF ReapStuck, GoReap, EndWithRefund, SetStatus
  <2> QED  BY <2>1 DEF ReaperKnows
<1>4. ASSUME NEW u \in Users, FlushRead(u) \/ AuditRead(u), xpc' # "idle" PROVE ReaperKnows'
  <2>1. xpc' \in {"snapshot", "restore", "reconcile"} /\ xjob' = u /\ xread' \in Int
    BY <1>4 DEF FlushRead, AuditRead, GoReap, reapVars, Balance
  <2> QED  BY <2>1 DEF ReaperKnows
<1>5. CASE xpc' = "idle"
  BY <1>5 DEF ReaperKnows
<1>6. ASSUME \/ xpc' \in {"refund", "release", "forget"} /\ xpc \in {"refund", "release"}
             \/ xpc' \in {"stuckRefund", "stuckRelease"} /\ xpc \in {"stuckRefund", "stuckRelease"}
             \/ xpc' = "clean" /\ xpc = "snapshot",
             xjob' = xjob, UNCHANGED rpc, UNCHANGED rowVars
      PROVE  ReaperKnows'
  BY <1>1, <1>6 DEF ReaperKnows, rowVars
<1>7. ASSUME ReapStep \/ ReapAbort \/ ReapRetry, xpc' # "idle" PROVE ReaperKnows'
  BY <1>6, <1>7 DEF ReapStep, ReapRefund, ReapRelease, ReapForget, WriteSnapshot, FlushClean,
                    AuditRestore, ReapAbort, ReapRetry, GoReap, Rest, requestVars
<1>8. CASE UNCHANGED reapVars /\ ~ReaperActs
  <2>1. CASE xpc \in {"refund", "release", "forget", "stuckRefund", "stuckRelease"}
    <3>1. xjob \in Tasks
      BY <2>1 DEF ReaperKnows
    <3>2. rpc[xjob] \in RequestEnds => rpc'[xjob] = rpc[xjob]
      BY <1>8, <3>1, WhoActs, RequestsGo, RequestFrame, CancelFrame, AdjustFrame, WorkerFrame,
         RestFrame DEF requestVars
    <3>3. RowMoves(xjob)
      BY <3>1 DEF RowsMove
    <3>4. status[xjob] = "none" /\ rpc[xjob] \in RequestEnds => status'[xjob] = "none"
      BY <3>3 DEF RowMoves, RequestEnds, Cancellable, Terminal
    <3>5. status[xjob] = "FAILED" => status'[xjob] = "FAILED"
      BY <3>3 DEF RowMoves, Cancellable, Terminal
    <3> QED  BY <1>1, <1>8, <2>1, <3>1, <3>2, <3>4, <3>5 DEF ReaperKnows, reapVars
  <2>2. CASE xpc \notin {"refund", "release", "forget", "stuckRefund", "stuckRelease"}
    BY <1>8, <2>2 DEF ReaperKnows, reapVars
  <2> QED  BY <2>1, <2>2
<1>9. CASE ReaperActs
  BY <1>2, <1>3, <1>4, <1>5, <1>7, <1>9 DEF ReaperActs
<1> QED
  BY <1>8, <1>9, WhoActs, RequestFrame, CancelFrame, AdjustFrame, WorkerFrame, RestFrame

(* A store is told of an outcome only by who has seen it in the row. *)
CacheMoves(t) ==
  /\ \/ hash'[t] = hash[t]
     \/ hash'[t] \notin Terminal
     \/ hash'[t] = status[t] /\ status'[t] = status[t]
  /\ \/ result'[t] = result[t]
     \/ result'[t] = status[t] /\ status'[t] = status[t]

LEMMA NextCaches ==
  ASSUME Safe, RowsMove, [Next]_vars, NEW s \in Tasks
  PROVE  CacheMoves(s)
<1> USE DEF Safe, TypeOK
<1>1. CASE UNCHANGED cacheVars
  BY <1>1 DEF CacheMoves, cacheVars
<1>2. ASSUME NEW t \in Tasks, RequestActs(t) PROVE CacheMoves(s)
  <2>1. hash'[t] \notin Terminal \/ hash'[t] = hash[t]
    BY <1>2 DEF RequestActs, Request, Gate, GateLost, HydrateRead, HydrateFill, MarkPending,
                Persist, PersistError, Undo, Unadmit, UnadmitError, Accept, RequestAbort, Admit,
                cacheVars, Terminal
  <2> QED  BY <1>2, <2>1, RequestFrame DEF CacheMoves
<1>3. ASSUME NEW c \in Cancels, CancelActs(c) PROVE CacheMoves(s)
  <2>1. CASE CancelCache(c)
    <3>1. status[CancelOf[c]] = "CANCELLED"
      BY <2>1 DEF CancelCache, CancelsKnow
    <3> QED  BY <2>1, <3>1, CancelOfTask DEF CancelCache, rowVars, CacheMoves
  <2>2. CASE ~CancelCache(c)
    BY <1>1, <1>3, <2>2 DEF CancelActs, CancelRead, CancelTransact, CancelRefund, CancelRelease,
                            CancelAbort, CancelRetry
  <2> QED  BY <2>1, <2>2
<1>4. ASSUME NEW w \in Workers, WorkerActs(w) PROVE CacheMoves(s)
  <2>1. CASE WorkPublish(w)
    <3>1. /\ job[w] \in Tasks
          /\ status[job[w]] = IF wpc[w] = "failed" THEN "FAILED" ELSE "COMPLETED"
      BY <2>1 DEF WorkPublish, WorkersKnow
    <3> QED  BY <2>1, <3>1 DEF WorkPublish, Cache, rowVars, CacheMoves
  <2>2. CASE WorkLook(w) \/ WorkMark(w)
    <3>1. job[w] \in Tasks
      BY <2>2 DEF WorkLook, WorkMark, WorkersKnow
    <3> QED  BY <2>2, <3>1 DEF WorkLook, WorkMark, CacheMoves, Terminal
  <2>3. CASE ~WorkPublish(w) /\ ~WorkLook(w) /\ ~WorkMark(w)
    BY <1>1, <1>4, <2>3 DEF WorkerActs, WorkRead, WorkClaim, Work, WorkStart, WorkComplete,
                            WorkFinish, WorkFail, WorkRefund, WorkRelease, WorkAck, WorkRaise,
                            WorkError, WorkFailError, WorkGiveUp, WorkRetry, WorkCrash
  <2> QED  BY <2>1, <2>2, <2>3
<1> QED  BY <1>1, <1>2, <1>3, <1>4, WhoActs, AdjustFrame, ReaperFrame, RestFrame

LEMMA CachesTrueNext ==
  ASSUME Safe, RowsMove, [Next]_vars
  PROVE  CachesTrue'
<1> SUFFICES ASSUME NEW t \in Tasks
             PROVE  /\ hash'[t] \in Terminal => status'[t] \in {hash'[t], "EXPIRED"}
                    /\ result'[t] # "none" => status'[t] \in {result'[t], "EXPIRED"}
  BY DEF CachesTrue
<1>1. CacheMoves(t) /\ RowMoves(t)
  BY NextCaches DEF RowsMove
<1>2. /\ hash[t] \in Terminal => status[t] \in {hash[t], "EXPIRED"}
      /\ result[t] # "none" => status[t] \in {result[t], "EXPIRED"}
      /\ result[t] \in {"none", "COMPLETED", "FAILED"}
  BY DEF Safe, TypeOK, CachesTrue
<1> QED  BY <1>1, <1>2 DEF CacheMoves, RowMoves, Terminal, Cancellable

-----------------------------------------------------------------------------
(* One of cancel, worker and reaper ends a task *)

NobodyDue(t) ==
  /\ \A c \in Cancels : ~CancelDue(c, t)
  /\ \A w \in Workers : ~WorkDue(w, t)
  /\ ~StuckDue(t)

LEMMA OpenUndue ==
  ASSUME Safe, NEW t \in Tasks, status[t] \notin Terminal
  PROVE  NobodyDue(t)
BY DEF Safe, WorkersKnow, CancelsKnow, ReaperKnows, NobodyDue, CancelDue, WorkDue, StuckDue, Terminal

LEMMA CancelDueGrows ==
  ASSUME Safe, NEW c \in Cancels, CancelActs(c), NEW t \in Tasks
  PROVE  CancelDue(c, t)' => CancelDue(c, t) \/ status[t] \in Cancellable
BY CancelsGo DEF CancelDue, EndWithRefund

LEMMA WorkDueGrows ==
  ASSUME Safe, NEW w \in Workers, WorkerActs(w), NEW t \in Tasks
  PROVE  WorkDue(w, t)' => WorkDue(w, t) \/ status[t] \in Cancellable
<1> USE DEF Safe, TypeOK
<1>1. CASE wpc'[w] \notin {"refund", "release", "published", "finished"}
  BY <1>1 DEF WorkDue
<1>2. CASE \E s \in Tasks : WorkRead(w, s) \/ WorkClaim(w, s)
  BY <1>1, <1>2 DEF WorkRead, WorkClaim, Take
<1>3. CASE WorkComplete(w) \/ WorkFail(w)
  BY <1>3 DEF WorkComplete, WorkFail, GoWork, EndWithRefund, WorkDue, Cancellable
<1>4. CASE WorkPublish(w) \/ WorkFinish(w) \/ WorkRefund(w) \/ WorkRelease(w) \/ WorkGiveUp(w)
           \/ WorkRetry(w)
  BY <1>4 DEF WorkPublish, WorkFinish, WorkRefund, WorkRelease, WorkGiveUp, WorkRetry, GoWork,
              workVars, WorkDue
<1>5. CASE WorkStart(w) \/ WorkMark(w) \/ WorkRaise(w) \/ WorkError(w) \/ WorkFailError(w)
  BY <1>1, <1>5 DEF WorkStart, WorkMark, WorkRaise, WorkError, WorkFailError, GoWork
<1>6. CASE WorkLook(w) \/ WorkAck(w) \/ WorkCrash(w)
  BY <1>1, <1>6 DEF WorkLook, WorkAck, WorkCrash, Leave
<1> QED  BY <1>2, <1>3, <1>4, <1>5, <1>6 DEF WorkerActs, Work

LEMMA StuckDueGrows ==
  ASSUME Safe, ReaperActs, NEW t \in Tasks
  PROVE  StuckDue(t)' => StuckDue(t) \/ status[t] \in Cancellable
BY DEF ReaperActs, ReapMarker, ReapStuck, FlushRead, AuditRead, ReapStep, ReapRefund, ReapRelease,
       ReapForget, WriteSnapshot, FlushClean, AuditRestore, ReapAbort, ReapRetry, GoReap, Rest,
       reapVars, EndWithRefund, StuckDue

LEMMA OneEndsNext ==
  ASSUME Safe, [Next]_vars
  PROVE  OneEnds'
<1>1. SUFFICES ASSUME NEW t \in Tasks
               PROVE  /\ \A c, d \in Cancels : CancelDue(c, t)' /\ CancelDue(d, t)' => c = d
                      /\ \A v, w \in Workers : WorkDue(v, t)' /\ WorkDue(w, t)' => v = w
                      /\ \A c \in Cancels, w \in Workers : ~(CancelDue(c, t)' /\ WorkDue(w, t)')
                      /\ StuckDue(t)' => /\ \A c \in Cancels : ~CancelDue(c, t)'
                                         /\ \A w \in Workers : ~WorkDue(w, t)'
  BY DEF OneEnds
<1>2. /\ \A c, d \in Cancels : CancelDue(c, t) /\ CancelDue(d, t) => c = d
      /\ \A v, w \in Workers : WorkDue(v, t) /\ WorkDue(w, t) => v = w
      /\ \A c \in Cancels, w \in Workers : ~(CancelDue(c, t) /\ WorkDue(w, t))
      /\ StuckDue(t) => /\ \A c \in Cancels : ~CancelDue(c, t)
                        /\ \A w \in Workers : ~WorkDue(w, t)
  BY DEF Safe, OneEnds
<1>3. status[t] \in Cancellable => NobodyDue(t)
  BY OpenUndue DEF Terminal, Cancellable
<1>4. UNCHANGED cpc => \A c \in Cancels : CancelDue(c, t)' <=> CancelDue(c, t)
  BY DEF CancelDue
<1>5. UNCHANGED workVars => \A w \in Workers : WorkDue(w, t)' <=> WorkDue(w, t)
  BY DEF WorkDue, workVars
<1>6. UNCHANGED reapVars => (StuckDue(t)' <=> StuckDue(t))
  BY DEF StuckDue, reapVars
<1>7. CASE UNCHANGED <<cpc, workVars, reapVars>>
  BY <1>2, <1>4, <1>5, <1>6, <1>7
<1>8. ASSUME NEW c \in Cancels, CancelActs(c)
      PROVE  /\ UNCHANGED <<workVars, reapVars>>
             /\ \A d \in Cancels \ {c} : CancelDue(d, t)' <=> CancelDue(d, t)
             /\ CancelDue(c, t)' => CancelDue(c, t) \/ NobodyDue(t)
  BY <1>3, <1>8, CancelFrame, CancelDueGrows DEF Safe, CancelDue
<1>9. ASSUME NEW w \in Workers, WorkerActs(w)
      PROVE  /\ UNCHANGED <<cpc, reapVars>>
             /\ \A v \in Workers \ {w} : WorkDue(v, t)' <=> WorkDue(v, t)
             /\ WorkDue(w, t)' => WorkDue(w, t) \/ NobodyDue(t)
  BY <1>3, <1>9, WorkerFrame, WorkDueGrows DEF Safe, WorkDue, requestVars
<1>10. ReaperActs => /\ UNCHANGED <<cpc, workVars>>
                     /\ StuckDue(t)' => StuckDue(t) \/ NobodyDue(t)
  BY <1>3, ReaperFrame, StuckDueGrows DEF requestVars
<1>11. \/ UNCHANGED <<cpc, workVars, reapVars>>
       \/ \E c \in Cancels : CancelActs(c)
       \/ \E w \in Workers : WorkerActs(w)
       \/ ReaperActs
  BY WhoActs, RequestFrame, AdjustFrame, RestFrame DEF Safe, requestVars
<1>12. CASE \E c \in Cancels : CancelActs(c)
  BY <1>2, <1>5, <1>6, <1>8, <1>12 DEF NobodyDue
<1>13. CASE \E w \in Workers : WorkerActs(w)
  BY <1>2, <1>4, <1>6, <1>9, <1>13 DEF NobodyDue
<1>14. CASE ReaperActs
  BY <1>2, <1>4, <1>5, <1>10, <1>14 DEF NobodyDue
<1> QED  BY <1>7, <1>11, <1>12, <1>13, <1>14

-----------------------------------------------------------------------------
(* Types *)

LEMMA Constants ==
  /\ Cost \in Nat /\ Cost > 0 /\ Cost \in Int /\ MaxConcurrent \in Nat
  /\ \A a \in Adjusts : AdjustUser[a] \in Users /\ AdjustBy[a] \in Int
  /\ NoBalance \notin Int
BY ConstantsOK DEF ConstantsOK

BalancesTyped ==
  /\ stored \in [Users -> Nat] /\ bal \in [Users -> Balance] /\ snap \in [Users -> Balance]
  /\ dirty \subseteq Users /\ active \in [Users -> Nat]

AdmissionTyped ==
  /\ idem \subseteq Tasks /\ marker \subseteq Tasks
  /\ msg \in [Tasks -> {"none", "queued", "pending", "acked"}]

RowsTyped == status \in [Tasks -> Statuses] /\ ledger \in [Tasks -> Int]

CachesTyped == hash \in [Tasks -> Statuses] /\ result \in [Tasks -> {"none", "COMPLETED", "FAILED"}]

RequestsTyped ==
  /\ scene \in Scenes
  /\ rpc \in [Tasks -> {"idle"} \cup RequestSteps \cup RequestEnds]
  /\ read \in [Tasks -> Balance]
  /\ cpc \in [Cancels -> {"idle", "ended"} \cup CancelSteps]
  /\ apc \in [Adjusts -> {"idle", "sync", "ended"}]
  /\ new \in [Adjusts -> Nat]

WorkersTyped == wpc \in [Workers -> {"idle"} \cup WorkSteps] /\ job \in [Workers -> Tasks \cup {NoTask}]

ReaperTyped ==
  /\ xpc \in {"idle"} \cup ReapSteps /\ xjob \in Tasks \cup Users \cup {NoTask}
  /\ xread \in Balance

FaultsTyped == suspect \subseteq Users /\ faults \in Nat

LEMMA TypeParts ==
  ASSUME BalancesTyped', AdmissionTyped', RowsTyped', CachesTyped', RequestsTyped', WorkersTyped',
         ReaperTyped', FaultsTyped'
  PROVE  TypeOK'
BY DEF TypeOK, BalancesTyped, AdmissionTyped, RowsTyped, CachesTyped, RequestsTyped, WorkersTyped,
       ReaperTyped, FaultsTyped

LEMMA SameTypes ==
  ASSUME TypeOK
  PROVE  /\ UNCHANGED creditVars => BalancesTyped'
         /\ UNCHANGED admissionVars => AdmissionTyped'
         /\ UNCHANGED rowVars => RowsTyped'
         /\ UNCHANGED cacheVars => CachesTyped'
         /\ UNCHANGED requestVars => RequestsTyped'
         /\ UNCHANGED workVars => WorkersTyped'
         /\ UNCHANGED reapVars => ReaperTyped'
         /\ UNCHANGED faultVars => FaultsTyped'
BY DEF TypeOK, BalancesTyped, AdmissionTyped, RowsTyped, CachesTyped, RequestsTyped, WorkersTyped,
       ReaperTyped, FaultsTyped, creditVars, balanceVars, admissionVars, rowVars, cacheVars,
       requestVars, adminVars, workVars, reapVars, faultVars

(* The calls on Redis and Postgres, whoever makes them. *)
LEMMA CallTypes ==
  ASSUME TypeOK, NEW u \in Users, NEW t \in Tasks, NEW st \in Statuses
  PROVE  /\ Credit(u) => BalancesTyped'
         /\ GiveSlotBack(u) => BalancesTyped'
         /\ Decrement(u) /\ UNCHANGED dirty => BalancesTyped'
         /\ EndWithRefund(t, st) => RowsTyped'
         /\ SetStatus(t, st) /\ UNCHANGED ledger => RowsTyped'
         /\ Fault => FaultsTyped'
         /\ Misled(u) => FaultsTyped'
<1> USE Constants DEF TypeOK, BalancesTyped
<1>1. Credit(u) => BalancesTyped'
  BY DEF Credit, Balance
<1>2. (GiveSlotBack(u) \/ (Decrement(u) /\ UNCHANGED dirty)) => BalancesTyped'
  BY DEF GiveSlotBack, Decrement
<1>3. EndWithRefund(t, st) \/ (SetStatus(t, st) /\ UNCHANGED ledger) => RowsTyped'
  BY DEF EndWithRefund, SetStatus, RowsTyped
<1>4. Fault \/ Misled(u) => FaultsTyped'
  BY DEF Fault, Misled, FaultsTyped
<1> QED  BY <1>1, <1>2, <1>3, <1>4

LEMMA StepTypes ==
  ASSUME TypeOK
  PROVE  /\ \A t \in Tasks, step \in RequestSteps \cup RequestEnds :
              GoRequest(t, step) /\ read' \in [Tasks -> Balance] => RequestsTyped'
         /\ \A c \in Cancels, step \in {"ended"} \cup CancelSteps :
              GoCancel(c, step) => RequestsTyped'
         /\ \A w \in Workers, step \in WorkSteps : GoWork(w, step) => WorkersTyped'
         /\ \A w \in Workers : Leave(w) => WorkersTyped'
         /\ \A w \in Workers, t \in Tasks : Take(w, t) => WorkersTyped'
         /\ \A step \in ReapSteps, j \in Tasks \cup Users, n \in Balance :
              GoReap(step, j, n) => ReaperTyped'
         /\ Rest => ReaperTyped'
<1> USE DEF TypeOK
<1>1. ASSUME NEW t \in Tasks, NEW step \in RequestSteps \cup RequestEnds, GoRequest(t, step),
             read' \in [Tasks -> Balance]
      PROVE  RequestsTyped'
  BY <1>1 DEF GoRequest, adminVars, RequestsTyped
<1>2. ASSUME NEW c \in Cancels, NEW step \in {"ended"} \cup CancelSteps, GoCancel(c, step)
      PROVE  RequestsTyped'
  BY <1>2 DEF GoCancel, adminVars, RequestsTyped
<1>3. ASSUME NEW w \in Workers, NEW step \in WorkSteps, GoWork(w, step) PROVE WorkersTyped'
  BY <1>3 DEF GoWork, WorkersTyped
<1>4. ASSUME NEW w \in Workers, Leave(w) PROVE WorkersTyped'
  BY <1>4 DEF Leave, WorkersTyped
<1>5. ASSUME NEW w \in Workers, NEW t \in Tasks, Take(w, t) PROVE WorkersTyped'
  BY <1>5 DEF Take, WorkersTyped, WorkSteps
<1>6. ASSUME NEW step \in ReapSteps, NEW j \in Tasks \cup Users, NEW n \in Balance,
             GoReap(step, j, n)
      PROVE  ReaperTyped'
  BY <1>6 DEF GoReap, ReaperTyped
<1>7. Rest => ReaperTyped'
  BY DEF Rest, GoReap, ReaperTyped, Balance
<1> QED  BY <1>1, <1>2, <1>3, <1>4, <1>5, <1>6, <1>7

LEMMA RequestTypes ==
  ASSUME TypeOK, NEW t \in Tasks, RequestActs(t)
  PROVE  TypeOK'
<1> USE UserOfTask, Constants
<1>1. RequestsTyped'
  <2>1. read' \in [Tasks -> Balance]
    BY DEF TypeOK, Balance, RequestActs, Request, Gate, GateLost, HydrateRead, HydrateFill,
           MarkPending, Persist, PersistError, Undo, Unadmit, UnadmitError, Accept, RequestAbort
  <2>2. \E step \in RequestSteps \cup RequestEnds : GoRequest(t, step)
    BY DEF RequestActs, Request, Gate, GateLost, HydrateRead, HydrateFill, MarkPending, Persist,
           PersistError, Undo, Unadmit, UnadmitError, Accept, RequestAbort, RequestSteps,
           RequestEnds
  <2> QED  BY <2>1, <2>2, StepTypes
<1>2. Admit(t) => BalancesTyped' /\ AdmissionTyped' /\ CachesTyped'
  BY DEF Admit, Admission, TypeOK, BalancesTyped, AdmissionTyped, CachesTyped, Statuses,
         Cancellable, Balance
<1>3. Insert(t) => RowsTyped'
  BY DEF Insert, SetStatus, TypeOK, RowsTyped, Statuses, Cancellable
<1>4. UNCHANGED <<workVars, reapVars>>
  BY RequestFrame
<1> USE TypeParts, SameTypes
<1>5. CASE Gate(t) \/ GateLost(t)
  <2>1. FaultsTyped' /\ RowsTyped'
    BY <1>5, CallTypes DEF Gate, GateLost, Statuses
  <2> QED  BY <1>1, <1>2, <1>4, <1>5, <2>1 DEF Gate, GateLost
<1>6. CASE HydrateRead(t)
  BY <1>1, <1>4, <1>6 DEF HydrateRead
<1>7. CASE HydrateFill(t)
  BY <1>1, <1>4, <1>7 DEF HydrateFill, Overwrite, TypeOK, BalancesTyped, FaultsTyped
<1>8. CASE MarkPending(t)
  BY <1>1, <1>4, <1>8 DEF MarkPending, TypeOK, AdmissionTyped
<1>9. CASE Persist(t)
  BY <1>1, <1>3, <1>4, <1>9 DEF Persist
<1>10. CASE PersistError(t)
  <2>1. FaultsTyped'
    BY <1>10, CallTypes DEF PersistError, Statuses
  <2> QED  BY <1>1, <1>3, <1>4, <1>10, <2>1 DEF PersistError
<1>11. CASE Undo(t)
  BY <1>1, <1>4, <1>11, CallTypes DEF Undo, Statuses
<1>12. CASE Unadmit(t)
  <2>1. BalancesTyped'
    BY <1>12, CallTypes DEF Unadmit, Statuses
  <2>2. AdmissionTyped' /\ CachesTyped'
    BY <1>12 DEF Unadmit, ForgetKey, TypeOK, AdmissionTyped, CachesTyped, Statuses
  <2> QED  BY <1>1, <1>4, <1>12, <2>1, <2>2 DEF Unadmit
<1>13. CASE UnadmitError(t)
  <2>1. BalancesTyped' /\ FaultsTyped'
    BY <1>13, CallTypes DEF UnadmitError, Statuses
  <2> QED  BY <1>1, <1>4, <1>13, <2>1 DEF UnadmitError
<1>14. CASE Accept(t) \/ RequestAbort(t)
  <2>1. FaultsTyped'
    BY <1>14, CallTypes DEF Accept, RequestAbort, Statuses
  <2>2. AdmissionTyped'
    BY <1>14 DEF Accept, RequestAbort, TypeOK, AdmissionTyped
  <2> QED  BY <1>1, <1>4, <1>14, <2>1, <2>2 DEF Accept, RequestAbort
<1> QED
  BY <1>5, <1>6, <1>7, <1>8, <1>9, <1>10, <1>11, <1>12, <1>13, <1>14 DEF RequestActs, Request

LEMMA CancelTypes ==
  ASSUME TypeOK, NEW c \in Cancels, CancelActs(c)
  PROVE  TypeOK'
<1> USE CancelOfTask
<1>1. RequestsTyped'
  <2>1. \E step \in {"ended"} \cup CancelSteps : GoCancel(c, step)
    BY DEF CancelActs, CancelRead, CancelTransact, CancelRefund, CancelRelease, CancelCache,
           CancelAbort, CancelRetry, CancelSteps
  <2> QED  BY <2>1, StepTypes
<1>2. WorkersTyped' /\ ReaperTyped'
  BY CancelFrame, SameTypes
<1>3. FaultsTyped'
  BY SameTypes, CallTypes
  DEF CancelActs, CancelRead, CancelTransact, CancelRefund, CancelRelease, CancelCache,
      CancelAbort, CancelRetry, Statuses
<1>4. RowsTyped'
  BY SameTypes, CallTypes
  DEF CancelActs, CancelRead, CancelTransact, CancelRefund, CancelRelease, CancelCache,
      CancelAbort, CancelRetry, Statuses, Terminal, rowVars
<1>5. BalancesTyped'
  BY SameTypes, CallTypes
  DEF CancelActs, CancelRead, CancelTransact, CancelRefund, CancelRelease, CancelCache,
      CancelAbort, CancelRetry, Statuses
<1>6. AdmissionTyped' /\ CachesTyped'
  <2>1. CASE CancelCache(c)
    BY <2>1 DEF CancelCache, TypeOK, AdmissionTyped, CachesTyped, Statuses, Terminal
  <2>2. CASE ~CancelCache(c)
    BY <2>2, SameTypes DEF CancelActs, CancelRead, CancelTransact, CancelRefund, CancelRelease,
                           CancelAbort, CancelRetry
  <2> QED  BY <2>1, <2>2
<1> QED  BY <1>1, <1>2, <1>3, <1>4, <1>5, <1>6, TypeParts

LEMMA AdjustTypes ==
  ASSUME TypeOK, AdjustActs
  PROVE  TypeOK'
<1> USE Constants DEF TypeOK
<1>1. /\ AdmissionTyped' /\ RowsTyped' /\ CachesTyped' /\ WorkersTyped' /\ ReaperTyped'
  BY SameTypes DEF AdjustActs, Adjust, AdjustSync, AdjustAbort
<1>2. BalancesTyped'
  BY DEF AdjustActs, Adjust, AdjustSync, AdjustAbort, Overwrite, BalancesTyped, Balance, creditVars,
         balanceVars
<1>3. FaultsTyped'
  BY DEF AdjustActs, Adjust, AdjustSync, AdjustAbort, Overwrite, Fault, FaultsTyped
<1>4. RequestsTyped'
  BY DEF AdjustActs, Adjust, AdjustSync, AdjustAbort, GoAdjust, RequestsTyped
<1> QED  BY <1>1, <1>2, <1>3, <1>4, TypeParts

LEMMA WorkTypes ==
  ASSUME TypeOK, WorkersKnow, NEW w \in Workers, WorkerActs(w)
  PROVE  TypeOK'
<1>1. CASE \E t \in Tasks : WorkRead(w, t) \/ WorkClaim(w, t)
  <2>1. WorkersTyped'
    BY <1>1, StepTypes DEF WorkRead, WorkClaim
  <2>2. FaultsTyped'
    BY <1>1, SameTypes DEF WorkRead, WorkClaim, Fault, TypeOK, FaultsTyped
  <2>3. AdmissionTyped'
    BY <1>1, SameTypes DEF WorkRead, WorkClaim, TypeOK, AdmissionTyped
  <2> QED  BY <1>1, <2>1, <2>2, <2>3, SameTypes, TypeParts DEF WorkRead, WorkClaim
<1>2. CASE wpc[w] # "idle"
  <2> DEFINE t == job[w]
  <2>1. t \in Tasks /\ UserOf[t] \in Users
    BY <1>2, UserOfTask DEF WorkersKnow
  <2>2. WorkersTyped'
    BY <1>2, StepTypes, SameTypes
    DEF WorkerActs, WorkRead, WorkClaim, Work, WorkStart, WorkLook, WorkMark, WorkComplete,
        WorkPublish, WorkFinish, WorkFail, WorkRefund, WorkRelease, WorkAck, WorkRaise, WorkError,
        WorkFailError, WorkGiveUp, WorkRetry, WorkCrash, WorkSteps
  <2>3. RowsTyped'
    BY <1>2, <2>1, CallTypes, SameTypes
    DEF WorkerActs, WorkRead, WorkClaim, Work, WorkStart, WorkLook, WorkMark, WorkComplete,
        WorkPublish, WorkFinish, WorkFail, WorkRefund, WorkRelease, WorkAck, WorkRaise, WorkError,
        WorkFailError, WorkGiveUp, WorkRetry, WorkCrash, Statuses, Terminal, Cancellable, rowVars
  <2>4. FaultsTyped'
    <3>1. suspect' = suspect \/ suspect' = suspect \cup {UserOf[t]}
      BY <1>2
      DEF WorkerActs, WorkRead, WorkClaim, Work, WorkStart, WorkLook, WorkMark, WorkComplete,
          WorkPublish, WorkFinish, WorkFail, WorkRefund, WorkRelease, WorkAck, WorkRaise, WorkError,
          WorkFailError, WorkGiveUp, WorkRetry, WorkCrash, Fault, Misled, faultVars
    <3>2. faults' = faults \/ faults' = faults + 1
      BY <1>2
      DEF WorkerActs, WorkRead, WorkClaim, Work, WorkStart, WorkLook, WorkMark, WorkComplete,
          WorkPublish, WorkFinish, WorkFail, WorkRefund, WorkRelease, WorkAck, WorkRaise, WorkError,
          WorkFailError, WorkGiveUp, WorkRetry, WorkCrash, Fault, Misled, faultVars
    <3> QED  BY <2>1, <3>1, <3>2 DEF TypeOK, FaultsTyped
  <2>5. BalancesTyped'
    BY <1>2, <2>1, CallTypes, SameTypes
    DEF WorkerActs, WorkRead, WorkClaim, Work, WorkStart, WorkLook, WorkMark, WorkComplete,
        WorkPublish, WorkFinish, WorkFail, WorkRefund, WorkRelease, WorkAck, WorkRaise, WorkError,
        WorkFailError, WorkGiveUp, WorkRetry, WorkCrash, Statuses
  <2>6. AdmissionTyped'
    BY <1>2, <2>1, SameTypes
    DEF WorkerActs, WorkRead, WorkClaim, Work, WorkStart, WorkLook, WorkMark, WorkComplete,
        WorkPublish, WorkFinish, WorkFail, WorkRefund, WorkRelease, WorkAck, WorkRaise, WorkError,
        WorkFailError, WorkGiveUp, WorkRetry, WorkCrash, Ack, TypeOK, AdmissionTyped
  <2>7. CachesTyped'
    BY <1>2, <2>1, SameTypes
    DEF WorkerActs, WorkRead, WorkClaim, Work, WorkStart, WorkLook, WorkMark, WorkComplete,
        WorkPublish, WorkFinish, WorkFail, WorkRefund, WorkRelease, WorkAck, WorkRaise, WorkError,
        WorkFailError, WorkGiveUp, WorkRetry, WorkCrash, Cache, TypeOK, CachesTyped, Statuses,
        Terminal, Cancellable, cacheVars
  <2> QED  BY <2>2, <2>3, <2>4, <2>5, <2>6, <2>7, WorkerFrame, SameTypes, TypeParts
<1> QED
  BY <1>1, <1>2
  DEF WorkerActs, Work, WorkStart, WorkLook, WorkMark, WorkComplete, WorkPublish, WorkFinish,
      WorkFail, WorkRefund, WorkRelease, WorkAck, WorkRaise, WorkError, WorkFailError, WorkGiveUp,
      WorkRetry, WorkCrash

LEMMA ReaperTypes ==
  ASSUME TypeOK, ReaperKnows, ReaperActs
  PROVE  TypeOK'
<1> USE UserOfTask
<1>1. RequestsTyped' /\ WorkersTyped' /\ CachesTyped'
  BY ReaperFrame, SameTypes
<1>2. ASSUME NEW t \in Tasks, ReapMarker(t) PROVE TypeOK'
  <2>1. AdmissionTyped'
    BY <1>2 DEF ReapMarker, TypeOK, AdmissionTyped
  <2>2. ReaperTyped'
    BY <1>2, StepTypes, SameTypes DEF ReapMarker, ReapSteps, Balance
  <2>3. FaultsTyped'
    BY <1>2, SameTypes, CallTypes DEF ReapMarker, Statuses
  <2> QED  BY <1>1, <1>2, <2>1, <2>2, <2>3, SameTypes, TypeParts DEF ReapMarker
<1>3. ASSUME NEW t \in Tasks, ReapStuck(t) PROVE TypeOK'
  <2>1. RowsTyped' /\ ReaperTyped'
    BY <1>3, StepTypes, CallTypes DEF ReapStuck, ReapSteps, Balance, Statuses, Terminal
  <2> QED  BY <1>1, <1>3, <2>1, SameTypes, TypeParts DEF ReapStuck
<1>4. ASSUME NEW u \in Users, FlushRead(u) \/ AuditRead(u) PROVE TypeOK'
  <2>1. ReaperTyped'
    BY <1>4, StepTypes, SameTypes DEF FlushRead, AuditRead, ReapSteps, TypeOK
  <2>2. BalancesTyped'
    BY <1>4, SameTypes DEF FlushRead, AuditRead, TypeOK, BalancesTyped
  <2> QED  BY <1>1, <1>4, <2>1, <2>2, SameTypes, TypeParts DEF FlushRead, AuditRead
<1>5. CASE ReapRefund \/ ReapRelease \/ ReapRetry
  <2>1. xjob \in Tasks
    BY <1>5 DEF ReapRefund, ReapRelease, ReapRetry, ReaperKnows
  <2>2. ReaperTyped'
    BY <1>5, <2>1, StepTypes DEF ReapRefund, ReapRelease, ReapRetry, ReapSteps, Balance
  <2>3. BalancesTyped' /\ FaultsTyped'
    BY <1>5, <2>1, CallTypes, SameTypes DEF ReapRefund, ReapRelease, ReapRetry, Statuses
  <2> QED  BY <1>1, <1>5, <2>2, <2>3, SameTypes, TypeParts DEF ReapRefund, ReapRelease, ReapRetry
<1>6. CASE ReapForget
  <2>1. AdmissionTyped' /\ ReaperTyped'
    BY <1>6, StepTypes DEF ReapForget, ForgetKey, TypeOK, AdmissionTyped
  <2> QED  BY <1>1, <1>6, <2>1, SameTypes, TypeParts DEF ReapForget
<1>7. CASE WriteSnapshot \/ FlushClean
  <2>1. xjob \in Users /\ (xpc \in {"snapshot", "reconcile"} => xread \in Int)
    BY <1>7 DEF WriteSnapshot, FlushClean, ReaperKnows
  <2>2. ReaperTyped'
    BY <1>7, <2>1, StepTypes DEF WriteSnapshot, FlushClean, ReapSteps, Balance
  <2>3. BalancesTyped'
    BY <1>7, <2>1 DEF WriteSnapshot, FlushClean, TypeOK, BalancesTyped, Balance
  <2> QED  BY <1>1, <1>7, <2>2, <2>3, SameTypes, TypeParts DEF WriteSnapshot, FlushClean
<1>8. CASE AuditRestore
  <2>1. xjob \in Users /\ xread \in Int
    BY <1>8 DEF AuditRestore, ReaperKnows
  <2>2. BalancesTyped' /\ FaultsTyped'
    BY <1>8, <2>1 DEF AuditRestore, Overwrite, TypeOK, BalancesTyped, FaultsTyped, Balance
  <2>3. ReaperTyped'
    BY <1>8, StepTypes DEF AuditRestore
  <2> QED  BY <1>1, <1>8, <2>2, <2>3, SameTypes, TypeParts DEF AuditRestore
<1>9. CASE ReapAbort
  <2>1. FaultsTyped' /\ ReaperTyped'
    BY <1>9, StepTypes DEF ReapAbort, Fault, Misled, ReaperKnows, TypeOK, FaultsTyped
  <2> QED  BY <1>1, <1>9, <2>1, SameTypes, TypeParts DEF ReapAbort
<1> QED  BY <1>2, <1>3, <1>4, <1>5, <1>6, <1>7, <1>8, <1>9 DEF ReaperActs, ReapStep

LEMMA RestTypes ==
  ASSUME TypeOK, RestActs
  PROVE  TypeOK'
<1>1. /\ BalancesTyped' /\ CachesTyped' /\ RequestsTyped' /\ WorkersTyped' /\ ReaperTyped'
  BY RestFrame, SameTypes
<1>2. AdmissionTyped'
  BY SameTypes DEF RestActs, MarkerExpire, ReapStuckLost, Expire, vars, TypeOK, AdmissionTyped
<1>3. RowsTyped'
  BY SameTypes, CallTypes, UserOfTask
  DEF RestActs, MarkerExpire, ReapStuckLost, Expire, vars, Statuses, Terminal
<1>4. FaultsTyped'
  BY SameTypes DEF RestActs, MarkerExpire, ReapStuckLost, Expire, vars, Fault, TypeOK, FaultsTyped
<1> QED  BY <1>1, <1>2, <1>3, <1>4, TypeParts

-----------------------------------------------------------------------------
(* Safe is inductive *)

LEMMA InitSafe == Init => Safe
<1> SUFFICES ASSUME Init PROVE Safe
  OBVIOUS
<1>1. TypeOK
  <2>1. SeedCredits \in [Users -> Nat]
    BY ConstantsOK DEF ConstantsOK
  <2> QED  BY <2>1 DEF Init, TypeOK, Balance, Statuses
<1>2. RowsFollow /\ WorkersKnow /\ CancelsKnow /\ ReaperKnows
  BY CancelOfTask DEF Init, RowsFollow, WorkersKnow, CancelsKnow, ReaperKnows
<1>3. CachesTrue /\ OneEnds
  BY DEF Init, CachesTrue, OneEnds, CancelDue, WorkDue, StuckDue, Terminal
<1>4. LedgerMatchesStatus
  BY DEF Init, LedgerMatchesStatus, Cancellable
<1> QED  BY <1>1, <1>2, <1>3, <1>4 DEF Safe

LEMMA NextSafe ==
  ASSUME Safe, [Next]_vars
  PROVE  Safe'
<1>1. RowsMove
  BY NextMoves
<1>2. TypeOK'
  BY WhoActs, RequestTypes, CancelTypes, AdjustTypes, WorkTypes, ReaperTypes, RestTypes DEF Safe
<1>3. RowsFollow' /\ WorkersKnow' /\ CancelsKnow' /\ ReaperKnows'
  BY <1>1, RowsFollowNext, WorkersKnowNext, CancelsKnowNext, ReaperKnowsNext
<1>4. CachesTrue' /\ OneEnds' /\ LedgerMatchesStatus'
  BY <1>1, CachesTrueNext, OneEndsNext, LedgerNext
<1> QED  BY <1>2, <1>3, <1>4 DEF Safe

(* The inductive invariant of rows, ledger, caches and of what the actors     *)
(* know of them.                                                              *)
THEOREM AlwaysSafe == Spec => []Safe
BY InitSafe, NextSafe, PTL DEF Spec

(* Every variable keeps its type: no step writes a balance, a counter, a      *)
(* status or a program counter of another kind.                               *)
THEOREM TypeCorrect == Spec => []TypeOK
<1>1. Safe => TypeOK
  BY DEF Safe
<1> QED  BY <1>1, AlwaysSafe, PTL

(* The ledger charges a task that runs or has completed, and refunds one that *)
(* failed or was cancelled once (update_task_failed and update_task_cancelled *)
(* with their credit_transactions row), whoever of the workers, the cancels   *)
(* and the reaper ends it.                                                    *)
THEOREM LedgerAlwaysMatches == Spec => []LedgerMatchesStatus
<1>1. Safe => LedgerMatchesStatus
  BY DEF Safe
<1> QED  BY <1>1, AlwaysSafe, PTL

(* An outcome in the task hash or the result cache, and one a poll reports,   *)
(* is that of the row, though the caches are written after it, by several     *)
(* processes.                                                                 *)
THEOREM CachedOutcomesAlwaysTrue == Spec => []CachedOutcomesTrue
<1>1. Safe => CachedOutcomesTrue
  BY DEF Safe, TypeOK, CachesTrue, CachedOutcomesTrue, Polled, PollResult, PollState, PollRow,
         Terminal
<1> QED  BY <1>1, AlwaysSafe, PTL

-----------------------------------------------------------------------------
(* Who comes to hold a slot, or to owe credits *)

Enters(t) == rpc'[t] = "mark" /\ rpc[t] # "mark"

(* A request that ends with its marker left, and no row, still held its slot. *)
LEMMA RequestEndsHolding ==
  ASSUME Safe, NEW t \in Tasks, RequestActs(t), rpc'[t] \in RequestEnds, t \in marker',
         status'[t] = "none", UserOf[t] \notin suspect'
  PROVE  RequestOwes(t)
<1> USE DEF Safe, TypeOK
<1>1. /\ rpc[t] \in {"idle", "hydrate", "fill", "again", "mark"} => t \notin marker
      /\ rpc[t] = "clear" => status[t] # "none"
  BY DEF RowsFollow
<1>2. CASE Gate(t) \/ GateLost(t)
  <2>1. t \in marker
    BY <1>2 DEF Gate, GateLost, Admit, admissionVars
  <2> QED  BY <1>1, <1>2, <2>1 DEF Gate, GateLost
<1>3. CASE Unadmit(t) \/ UnadmitError(t)
  BY <1>3 DEF Unadmit, UnadmitError, Misled
<1>4. CASE Accept(t)
  BY <1>1, <1>4 DEF Accept, rowVars
<1>5. CASE RequestAbort(t)
  BY <1>1, <1>5 DEF RequestAbort, rowVars, RequestSteps, RequestOwes
<1>6. CASE HydrateRead(t) \/ HydrateFill(t) \/ MarkPending(t) \/ Persist(t) \/ PersistError(t)
           \/ Undo(t)
  BY <1>6 DEF HydrateRead, HydrateFill, MarkPending, Persist, PersistError, Undo, GoRequest,
              RequestEnds
<1> QED  BY <1>2, <1>3, <1>4, <1>5, <1>6 DEF RequestActs, Request

LEMMA OrphanGrows ==
  ASSUME Safe, RowsMove, [Next]_vars, NEW t \in Tasks, UserOf[t] \notin suspect', Orphan(t)'
  PROVE  Orphan(t) \/ RequestOwes(t)
<1>1. status[t] = "none"
  BY DEF Orphan, RowsMove, RowMoves, Cancellable, Terminal
<1>2. CASE RequestActs(t)
  <2>1. CASE rpc[t] \in RequestEnds
    BY <1>2, <2>1, RequestsGo
  <2>2. CASE rpc[t] \notin RequestEnds
    BY <1>2, RequestEndsHolding DEF Orphan
  <2> QED  BY <2>1, <2>2
<1>3. CASE ~RequestActs(t)
  <2>1. rpc'[t] = rpc[t] /\ (t \in marker' => t \in marker)
    BY <1>3, WhoActs, RequestFrame, CancelFrame, AdjustFrame, WorkerFrame, ReaperFrame, RestFrame
       DEF Safe, requestVars
  <2> QED  BY <1>1, <2>1 DEF Orphan
<1> QED  BY <1>2, <1>3

LEMMA RequestHoldsGrows ==
  ASSUME Safe, [Next]_vars, NEW t \in Tasks
  PROVE  /\ RequestHolds(t)' => RequestHolds(t) \/ Enters(t)
         /\ RequestOwes(t)' => RequestOwes(t) \/ Enters(t)
<1>1. CASE RequestActs(t)
  BY <1>1, RequestsGo DEF RequestHolds, RequestOwes, Enters
<1>2. CASE ~RequestActs(t)
  <2>1. rpc'[t] = rpc[t]
    BY <1>2, WhoActs, RequestFrame, CancelFrame, AdjustFrame, WorkerFrame, ReaperFrame, RestFrame
       DEF Safe, requestVars
  <2> QED  BY <2>1 DEF RequestHolds, RequestOwes
<1> QED  BY <1>1, <1>2

LEMMA CancelHoldsGrows ==
  ASSUME Safe, [Next]_vars, NEW t \in Tasks, UserOf[t] \notin suspect'
  PROVE  /\ CancelHolds(t)' => CancelHolds(t) \/ status[t] \in Cancellable
         /\ CancelOwes(t)' => CancelOwes(t) \/ status[t] \in Cancellable
<1>1. ASSUME NEW d \in Cancels, CancelOf[d] = t
      PROVE  /\ CancelDue(d, t)' => CancelDue(d, t) \/ status[t] \in Cancellable
             /\ cpc'[d] = "refund" => cpc[d] = "refund" \/ status[t] \in Cancellable
  <2>1. CASE CancelActs(d)
    BY <1>1, <2>1, CancelsGo DEF CancelDue, EndWithRefund
  <2>2. CASE ~CancelActs(d)
    <3>1. cpc'[d] = cpc[d]
      BY <2>2, WhoActs, RequestFrame, CancelFrame, AdjustFrame, WorkerFrame, ReaperFrame, RestFrame
         DEF Safe, requestVars
    <3> QED  BY <3>1 DEF CancelDue
  <2> QED  BY <2>1, <2>2
<1>2. CancelHolds(t)' => CancelHolds(t) \/ status[t] \in Cancellable
  BY <1>1 DEF CancelHolds, CancelDue
<1>3. CancelOwes(t)' => CancelOwes(t) \/ status[t] \in Cancellable
  BY <1>1 DEF CancelOwes
<1> QED  BY <1>2, <1>3

LEMMA WorkRefundsGrow ==
  ASSUME Safe, NEW w \in Workers, WorkerActs(w), NEW t \in Tasks, job'[w] = t, wpc'[w] = "refund",
         UserOf[t] \notin suspect'
  PROVE  job[w] = t /\ (wpc[w] = "refund" \/ status[t] \in Cancellable)
<1> USE DEF Safe, TypeOK
<1>1. CASE \E s \in Tasks : WorkRead(w, s) \/ WorkClaim(w, s)
  BY <1>1 DEF WorkRead, WorkClaim, Take
<1>2. CASE WorkFail(w)
  BY <1>2 DEF WorkFail, GoWork, EndWithRefund
<1>3. CASE WorkRetry(w)
  BY <1>3 DEF WorkRetry, GoWork, workVars, Misled
<1>4. CASE WorkLook(w) \/ WorkAck(w) \/ WorkCrash(w)
  BY <1>4 DEF WorkLook, WorkAck, WorkCrash, Leave
<1>5. CASE \/ WorkStart(w) \/ WorkMark(w) \/ WorkRaise(w) \/ WorkError(w) \/ WorkFailError(w)
           \/ WorkComplete(w) \/ WorkPublish(w) \/ WorkFinish(w) \/ WorkRefund(w) \/ WorkRelease(w)
           \/ WorkGiveUp(w)
  BY <1>5 DEF WorkStart, WorkMark, WorkRaise, WorkError, WorkFailError, WorkComplete, WorkPublish,
              WorkFinish, WorkRefund, WorkRelease, WorkGiveUp, GoWork
<1> QED  BY <1>1, <1>2, <1>3, <1>4, <1>5 DEF WorkerActs, Work

LEMMA WorkHoldsGrows ==
  ASSUME Safe, [Next]_vars, NEW t \in Tasks, UserOf[t] \notin suspect'
  PROVE  /\ WorkHolds(t)' => WorkHolds(t) \/ status[t] \in Cancellable
         /\ WorkOwes(t)' => WorkOwes(t) \/ status[t] \in Cancellable
<1>1. ASSUME NEW v \in Workers
      PROVE  /\ WorkDue(v, t)' => WorkDue(v, t) \/ status[t] \in Cancellable
             /\ job'[v] = t /\ wpc'[v] = "refund" =>
                  job[v] = t /\ (wpc[v] = "refund" \/ status[t] \in Cancellable)
  <2>1. CASE WorkerActs(v)
    BY <2>1, WorkDueGrows, WorkRefundsGrow
  <2>2. CASE ~WorkerActs(v)
    <3>1. wpc'[v] = wpc[v] /\ job'[v] = job[v]
      BY <2>2, WhoActs, RequestFrame, CancelFrame, AdjustFrame, WorkerFrame, ReaperFrame, RestFrame
         DEF Safe, workVars
    <3> QED  BY <3>1 DEF WorkDue
  <2> QED  BY <2>1, <2>2
<1>2. WorkHolds(t)' => WorkHolds(t) \/ status[t] \in Cancellable
  BY <1>1 DEF WorkHolds
<1>3. WorkOwes(t)' => WorkOwes(t) \/ status[t] \in Cancellable
  BY <1>1 DEF WorkOwes
<1> QED  BY <1>2, <1>3

(* How the reaper goes on with a task. *)
LEMMA ReaperGoes ==
  ASSUME Safe, ReaperActs, NEW t \in Tasks, UserOf[t] \notin suspect'
  PROVE  /\ xjob' = t /\ xpc' = "refund" =>
              \/ xjob = t /\ xpc = "refund"
              \/ Orphan(t) /\ xpc = "idle"
         /\ xjob' = t /\ xpc' = "release" => xjob = t /\ xpc = "refund"
         /\ xjob' = t /\ xpc' = "stuckRefund" =>
              \/ xjob = t /\ xpc = "stuckRefund"
              \/ status[t] \in Cancellable
         /\ xjob' = t /\ xpc' = "stuckRelease" => xjob = t /\ xpc = "stuckRefund"
         /\ xjob = t /\ xpc = "release" => xjob' = t /\ xpc' = "forget"
         /\ xjob = t /\ xpc = "forget" => t \notin marker'
<1>1. ASSUME NEW s \in Tasks, ReapMarker(s) \/ ReapStuck(s)
      PROVE  /\ xjob' = t /\ xpc' = "refund" => Orphan(t) /\ xpc = "idle"
             /\ xjob' = t /\ xpc' = "stuckRefund" => status[t] \in Cancellable
             /\ xpc = "idle" /\ xpc' \in {"idle", "refund", "stuckRefund"}
  BY <1>1 DEF ReapMarker, ReapStuck, EndWithRefund, GoReap, reapVars, Orphan, Misled
<1>2. ASSUME NEW u \in Users, FlushRead(u) \/ AuditRead(u)
      PROVE  xpc = "idle" /\ xpc' \in {"idle", "snapshot", "restore", "reconcile"}
  BY <1>2 DEF FlushRead, AuditRead, GoReap, reapVars
<1>3. CASE WriteSnapshot \/ FlushClean \/ AuditRestore
  BY <1>3 DEF WriteSnapshot, FlushClean, AuditRestore, GoReap, Rest
<1>4. CASE ReapRefund \/ ReapRelease \/ ReapForget
  BY <1>4 DEF ReapRefund, ReapRelease, ReapForget, GoReap, Rest
<1>5. CASE ReapAbort \/ ReapRetry
  BY <1>5 DEF ReapAbort, ReapRetry, GoReap, Rest, Misled
<1> QED  BY <1>1, <1>2, <1>3, <1>4, <1>5 DEF ReaperActs, ReapStep

LEMMA ReapHoldsGrows ==
  ASSUME Safe, RowsMove, [Next]_vars, NEW t \in Tasks, UserOf[t] \notin suspect'
  PROVE  /\ ReapHolds(t)' => ReapHolds(t) \/ status[t] \in Cancellable \/ OrphanHolds(t)
         /\ ReapOwes(t)' => ReapOwes(t) \/ status[t] \in Cancellable \/ OrphanOwes(t)
         /\ OrphanHolds(t)' => OrphanHolds(t) \/ RequestHolds(t)
         /\ OrphanOwes(t)' => OrphanOwes(t) \/ RequestOwes(t)
<1>1. Orphan(t)' => Orphan(t) \/ RequestOwes(t)
  BY OrphanGrows
<1>2. RequestOwes(t) => RequestHolds(t)
  BY DEF RequestOwes, RequestHolds
<1>3. CASE ReaperActs
  BY <1>1, <1>2, <1>3, ReaperGoes DEF ReapHolds, ReapOwes, OrphanHolds, OrphanOwes, Orphan
<1>4. CASE ~ReaperActs
  <2>1. UNCHANGED reapVars
    BY <1>4, WhoActs, RequestFrame, CancelFrame, AdjustFrame, WorkerFrame, RestFrame
       DEF Safe, reapVars
  <2> QED  BY <1>1, <1>2, <2>1 DEF reapVars, ReapHolds, ReapOwes, OrphanHolds, OrphanOwes
<1> QED  BY <1>3, <1>4

LEMMA HoldsGrows ==
  ASSUME Safe, RowsMove, [Next]_vars, NEW t \in Tasks, UserOf[t] \notin suspect', Holds(t)'
  PROVE  Holds(t) \/ Enters(t)
<1>1. status'[t] \in Cancellable => status[t] \in Cancellable \/ RequestHolds(t)
  BY DEF RowsMove, RowMoves, Cancellable, Terminal, RequestHolds
<1> QED  BY <1>1, RequestHoldsGrows, CancelHoldsGrows, WorkHoldsGrows, ReapHoldsGrows DEF Holds

LEMMA OwesGrows ==
  ASSUME Safe, RowsMove, [Next]_vars, NEW t \in Tasks, UserOf[t] \notin suspect', Owes(t)'
  PROVE  Owes(t) \/ Enters(t)
<1>1. status[t] \in Cancellable => ledger[t] = -Cost
  BY DEF Safe, LedgerMatchesStatus
<1>2. ledger'[t] = -Cost => ledger[t] = -Cost \/ RequestOwes(t)
  <2>1. status[t] \in Cancellable => ledger[t] + Cost = 0
    BY <1>1, Constants
  <2> QED  BY <2>1, Constants DEF RowsMove, RowMoves, RequestOwes
<1> QED  BY <1>1, <1>2, RequestHoldsGrows, CancelHoldsGrows, WorkHoldsGrows, ReapHoldsGrows DEF Owes

-----------------------------------------------------------------------------
(* Who no longer holds a slot, or owes credits *)

(* A task that has ended, and whose end has been seen to. *)
LEMMA EndedFree ==
  ASSUME Safe', NEW t \in Tasks, UserOf[t] \notin suspect', status'[t] \in Terminal
  PROVE  /\ NobodyDue(t)' => ~Holds(t)'
         /\ /\ status'[t] # "COMPLETED" /\ ~CancelOwes(t)' /\ ~WorkOwes(t)'
            /\ ~(xjob' = t /\ xpc' = "stuckRefund")
            => ~Owes(t)'
<1>1. ~RequestHolds(t)' /\ ~RequestOwes(t)'
  BY DEF Safe, RowsFollow, RequestHolds, RequestOwes, Terminal
<1>2. ~Orphan(t)' /\ status'[t] \notin Cancellable
  BY DEF Orphan, Terminal, Cancellable
<1>3. ~(xjob' = t /\ xpc' \in {"refund", "release"})
  BY DEF Safe, ReaperKnows, Terminal
<1>4. status'[t] # "COMPLETED" => ledger'[t] # -Cost
  BY Constants DEF Safe, LedgerMatchesStatus, Terminal
<1>5. NobodyDue(t)' => ~CancelHolds(t)' /\ ~WorkHolds(t)' /\ ~ReapHolds(t)'
  BY <1>3 DEF NobodyDue, CancelHolds, WorkHolds, ReapHolds, StuckDue
<1> QED  BY <1>1, <1>2, <1>3, <1>4, <1>5 DEF Holds, Owes, OrphanHolds, OrphanOwes, ReapOwes

(* A task that never had a row. *)
LEMMA RowlessFree ==
  ASSUME Safe', NEW t \in Tasks, UserOf[t] \notin suspect', status'[t] = "none"
  PROVE  /\ ~RequestHolds(t)' /\ ~ReapHolds(t)' /\ ~OrphanHolds(t)' => ~Holds(t)'
         /\ ~RequestOwes(t)' /\ ~ReapOwes(t)' /\ ~OrphanOwes(t)' => ~Owes(t)'
<1>1. NobodyDue(t)'
  BY DEF Safe, WorkersKnow, CancelsKnow, ReaperKnows, NobodyDue, CancelDue, WorkDue, StuckDue
<1>2. ~CancelHolds(t)' /\ ~WorkHolds(t)' /\ ~CancelOwes(t)' /\ ~WorkOwes(t)'
  BY <1>1 DEF NobodyDue, CancelHolds, WorkHolds, CancelOwes, WorkOwes, CancelDue, WorkDue
<1>3. ledger'[t] # -Cost
  BY Constants DEF Safe, LedgerMatchesStatus
<1> QED  BY <1>2, <1>3 DEF Holds, Owes, Cancellable

(* The reaper is not about the marker of a task whose request goes on. *)
LEMMA RequestAlone ==
  ASSUME Safe, NEW t \in Tasks, rpc[t] \in RequestSteps, UserOf[t] \notin suspect
  PROVE  ~(xjob = t /\ xpc \in {"refund", "release", "forget"})
BY DEF Safe, ReaperKnows, RequestSteps, RequestEnds

LEMMA UndoFrees ==
  ASSUME Safe, Safe', NEW t \in Tasks, UserOf[t] \notin suspect', suspect \subseteq suspect'
  PROVE  /\ Undo(t) => Owes(t) /\ ~Owes(t)'
         /\ Unadmit(t) => Holds(t) /\ ~Holds(t)'
<1> USE DEF Safe, TypeOK
<1>1. ASSUME rpc[t] \in {"undo", "unadmit"}, UNCHANGED rowVars, UNCHANGED reapVars
      PROVE  /\ status'[t] = "none"
             /\ ~(xjob' = t /\ xpc' \in {"refund", "release", "forget"})
             /\ ~StuckDue(t)'
  <2>1. status[t] = "none"
    BY <1>1 DEF RowsFollow
  <2>2. ~(xjob = t /\ xpc \in {"refund", "release", "forget"})
    BY <1>1, RequestAlone DEF RequestSteps
  <2>3. ~StuckDue(t)
    BY <2>1 DEF StuckDue, ReaperKnows
  <2> QED  BY <1>1, <2>1, <2>2, <2>3 DEF rowVars, reapVars, StuckDue
<1>2. CASE Undo(t)
  <2>1. rpc[t] = "undo" /\ rpc'[t] = "unadmit" /\ UNCHANGED rowVars /\ UNCHANGED reapVars
    BY <1>2 DEF Undo, GoRequest
  <2>2. ~RequestOwes(t)' /\ ~ReapOwes(t)' /\ ~OrphanOwes(t)'
    BY <1>1, <2>1 DEF RequestOwes, ReapOwes, OrphanOwes, Orphan, RequestEnds, StuckDue
  <2>3. Owes(t)
    BY <2>1 DEF Owes, RequestOwes
  <2>4. ~Unadmit(t)
    BY <2>1 DEF Unadmit
  <2> QED  BY <1>1, <2>1, <2>2, <2>3, <2>4, RowlessFree
<1>3. CASE Unadmit(t)
  <2>1. /\ rpc[t] = "unadmit" /\ rpc'[t] = "failed" /\ UNCHANGED rowVars /\ UNCHANGED reapVars
        /\ t \notin marker'
    BY <1>3 DEF Unadmit, GoRequest
  <2>2. ~RequestHolds(t)' /\ ~ReapHolds(t)' /\ ~OrphanHolds(t)'
    BY <1>1, <2>1 DEF RequestHolds, ReapHolds, OrphanHolds, Orphan, StuckDue
  <2>3. Holds(t)
    BY <2>1 DEF Holds, RequestHolds
  <2>4. ~Undo(t)
    BY <2>1 DEF Undo
  <2> QED  BY <1>1, <2>1, <2>2, <2>3, <2>4, RowlessFree
<1> QED  BY <1>2, <1>3

LEMMA CancelFrees ==
  ASSUME Safe, Safe', NEW c \in Cancels, UserOf[CancelOf[c]] \notin suspect'
  PROVE  /\ CancelRefund(c) => Owes(CancelOf[c]) /\ ~Owes(CancelOf[c])'
         /\ CancelRelease(c) => Holds(CancelOf[c]) /\ ~Holds(CancelOf[c])'
<1> DEFINE t == CancelOf[c]
<1> SUFFICES ASSUME CancelRefund(c) \/ CancelRelease(c)
             PROVE  /\ CancelRefund(c) => Owes(t) /\ ~Owes(t)'
                    /\ CancelRelease(c) => Holds(t) /\ ~Holds(t)'
  OBVIOUS
<1>1. t \in Tasks
  BY CancelOfTask
<1>2. /\ CancelDue(c, t) /\ UNCHANGED <<rowVars, workVars, reapVars>>
      /\ cpc'[c] \in {"release", "cache"} /\ \A d \in Cancels \ {c} : cpc'[d] = cpc[d]
  BY DEF Safe, TypeOK, CancelRefund, CancelRelease, GoCancel, CancelDue
<1>3. status[t] = "CANCELLED"
  BY <1>2 DEF CancelDue, Safe, CancelsKnow
<1>4. /\ \A d \in Cancels \ {c} : ~CancelDue(d, t)
      /\ \A w \in Workers : ~WorkDue(w, t)
      /\ ~StuckDue(t)
  BY <1>1, <1>2 DEF Safe, OneEnds
<1>5. /\ \A d \in Cancels \ {c} : ~CancelDue(d, t)'
      /\ \A w \in Workers : ~WorkDue(w, t)'
      /\ ~StuckDue(t)' /\ status'[t] = "CANCELLED"
  BY <1>2, <1>3, <1>4 DEF CancelDue, WorkDue, StuckDue, rowVars, workVars, reapVars
<1>6. CASE CancelRefund(c)
  <2>1. cpc[c] = "refund" /\ cpc'[c] = "release"
    BY <1>6 DEF Safe, TypeOK, CancelRefund, GoCancel
  <2>2. ~CancelOwes(t)' /\ ~WorkOwes(t)' /\ ~(xjob' = t /\ xpc' = "stuckRefund")
    BY <1>5, <2>1 DEF CancelOwes, WorkOwes, CancelDue, WorkDue, StuckDue
  <2>3. Owes(t)
    BY <2>1 DEF Owes, CancelOwes
  <2>4. ~CancelRelease(c)
    BY <2>1 DEF CancelRelease
  <2> QED  BY <1>1, <1>5, <2>2, <2>3, <2>4, EndedFree DEF Terminal
<1>7. CASE CancelRelease(c)
  <2>1. cpc[c] = "release" /\ cpc'[c] = "cache"
    BY <1>7 DEF Safe, TypeOK, CancelRelease, GoCancel
  <2>2. NobodyDue(t)'
    BY <1>5, <2>1 DEF NobodyDue, CancelDue
  <2>3. Holds(t)
    BY <1>2 DEF Holds, CancelHolds
  <2>4. ~CancelRefund(c)
    BY <2>1 DEF CancelRefund
  <2> QED  BY <1>1, <1>5, <2>2, <2>3, <2>4, EndedFree DEF Terminal
<1> QED  BY <1>6, <1>7

LEMMA WorkFrees ==
  ASSUME Safe, Safe', NEW w \in Workers, NEW t \in Tasks, job[w] = t, UserOf[t] \notin suspect',
         WorkRefund(w) \/ WorkRelease(w) \/ WorkFinish(w)
  PROVE  /\ WorkRefund(w) => Owes(t) /\ ~Owes(t)'
         /\ WorkRelease(w) \/ WorkFinish(w) => Holds(t) /\ ~Holds(t)'
<1>1. WorkDue(w, t)
  BY DEF WorkRefund, WorkRelease, WorkFinish, WorkDue
<1>2. /\ UNCHANGED <<rowVars, cpc, reapVars, job>>
      /\ wpc'[w] = IF WorkRefund(w) THEN "release" ELSE IF WorkRelease(w) THEN "failed" ELSE "ack"
      /\ \A v \in Workers \ {w} : wpc'[v] = wpc[v]
  BY DEF Safe, TypeOK, WorkRefund, WorkRelease, WorkFinish, GoWork, requestVars
<1>3. status[t] \in {"FAILED", "COMPLETED"} /\ (WorkRefund(w) => status[t] = "FAILED")
  BY DEF Safe, WorkersKnow, WorkRefund, WorkRelease, WorkFinish
<1>4. /\ \A c \in Cancels : ~CancelDue(c, t)
      /\ \A v \in Workers \ {w} : ~WorkDue(v, t)
      /\ ~StuckDue(t)
  BY <1>1 DEF Safe, OneEnds
<1>5. /\ \A c \in Cancels : ~CancelDue(c, t)'
      /\ \A v \in Workers \ {w} : ~WorkDue(v, t)'
      /\ ~StuckDue(t)'
      /\ job'[w] = t /\ status'[t] = status[t]
  BY <1>2, <1>4 DEF CancelDue, WorkDue, StuckDue, rowVars, reapVars
<1>6. CASE WorkRefund(w)
  <2>1. wpc[w] = "refund" /\ wpc'[w] = "release"
    BY <1>2, <1>6 DEF WorkRefund
  <2>2. ~CancelOwes(t)' /\ ~WorkOwes(t)' /\ ~(xjob' = t /\ xpc' = "stuckRefund")
    BY <1>5, <2>1 DEF CancelOwes, WorkOwes, CancelDue, WorkDue, StuckDue
  <2>3. Owes(t)
    BY <1>1, <2>1 DEF Owes, WorkOwes, WorkDue
  <2>4. ~WorkRelease(w) /\ ~WorkFinish(w)
    BY <2>1 DEF WorkRelease, WorkFinish
  <2> QED  BY <1>3, <1>5, <1>6, <2>2, <2>3, <2>4, EndedFree DEF Terminal
<1>7. CASE WorkRelease(w) \/ WorkFinish(w)
  <2>1. wpc'[w] \in {"failed", "ack"} /\ ~WorkRefund(w)
    BY <1>2, <1>7 DEF WorkRelease, WorkFinish, WorkRefund
  <2>2. NobodyDue(t)'
    BY <1>5, <2>1 DEF NobodyDue, WorkDue
  <2>3. Holds(t)
    BY <1>1 DEF Holds, WorkHolds
  <2> QED  BY <1>3, <1>5, <2>1, <2>2, <2>3, EndedFree DEF Terminal
<1> QED  BY <1>6, <1>7

LEMMA ReapFrees ==
  ASSUME Safe, Safe', NEW t \in Tasks, xjob = t, UserOf[t] \notin suspect',
         suspect \subseteq suspect', ReapRefund \/ ReapRelease
  PROVE  /\ ReapRefund => Owes(t) /\ ~Owes(t)'
         /\ ReapRelease => Holds(t) /\ ~Holds(t)'
<1>2. UNCHANGED <<rowVars, rpc, cpc, workVars>>
  BY DEF ReapRefund, ReapRelease, requestVars
<1>3. /\ xpc = "refund" => ReapRefund /\ xpc' = "release" /\ xjob' = t
      /\ xpc = "release" => ReapRelease /\ xpc' = "forget" /\ xjob' = t
      /\ xpc = "stuckRefund" => ReapRefund /\ xpc' = "stuckRelease" /\ xjob' = t
      /\ xpc = "stuckRelease" => ReapRelease /\ xpc' = "idle"
      /\ \/ xpc \in {"refund", "stuckRefund"} /\ ~ReapRelease
         \/ xpc \in {"release", "stuckRelease"} /\ ~ReapRefund
  BY DEF ReapRefund, ReapRelease, GoReap, Rest
<1>4. (xpc \in {"refund", "stuckRefund"} => Owes(t)) /\ Holds(t)
  BY <1>3 DEF Owes, Holds, ReapOwes, ReapHolds
<1>5. CASE xpc \in {"refund", "release"}
  <2>1. status[t] = "none" /\ rpc[t] \in RequestEnds
    BY <1>5 DEF Safe, ReaperKnows
  <2>2. status'[t] = "none" /\ ~RequestOwes(t)' /\ ~RequestHolds(t)'
    BY <1>2, <2>1 DEF rowVars, RequestOwes, RequestHolds, RequestEnds
  <2>3. CASE xpc = "refund"
    <3>1. ~ReapOwes(t)' /\ ~OrphanOwes(t)'
      BY <1>3, <2>3 DEF ReapOwes, OrphanOwes
    <3> QED  BY <1>3, <1>4, <2>2, <2>3, <3>1, RowlessFree
  <2>4. CASE xpc = "release"
    <3>1. ~ReapHolds(t)' /\ ~OrphanHolds(t)'
      BY <1>3, <2>4 DEF ReapHolds, OrphanHolds
    <3> QED  BY <1>3, <1>4, <2>2, <2>4, <3>1, RowlessFree
  <2> QED  BY <1>5, <2>3, <2>4
<1>6. CASE xpc \in {"stuckRefund", "stuckRelease"}
  <2>1. StuckDue(t) /\ status[t] = "FAILED"
    BY <1>6 DEF Safe, ReaperKnows, StuckDue
  <2>2. (\A c \in Cancels : ~CancelDue(c, t)) /\ \A w \in Workers : ~WorkDue(w, t)
    BY <2>1 DEF Safe, OneEnds
  <2>3. /\ \A c \in Cancels : ~CancelDue(c, t)'
        /\ \A w \in Workers : ~WorkDue(w, t)'
        /\ status'[t] = "FAILED"
    BY <1>2, <2>1, <2>2 DEF CancelDue, WorkDue, rowVars, workVars
  <2>4. CASE xpc = "stuckRefund"
    <3>1. ~CancelOwes(t)' /\ ~WorkOwes(t)' /\ ~(xjob' = t /\ xpc' = "stuckRefund")
      BY <1>3, <2>3, <2>4 DEF CancelOwes, WorkOwes, CancelDue, WorkDue
    <3> QED  BY <1>3, <1>4, <2>3, <2>4, <3>1, EndedFree DEF Terminal
  <2>5. CASE xpc = "stuckRelease"
    <3>1. NobodyDue(t)'
      BY <1>3, <2>3, <2>5 DEF NobodyDue, StuckDue
    <3> QED  BY <1>3, <1>4, <2>3, <2>5, <3>1, EndedFree DEF Terminal
  <2> QED  BY <1>6, <2>4, <2>5
<1> QED  BY <1>3, <1>5, <1>6

-----------------------------------------------------------------------------
(* Sets and their sizes *)

LEMMA SetSizes ==
  ASSUME NEW u \in Users
  PROVE  /\ IsFiniteSet(Owing(u)) /\ IsFiniteSet(Owing(u)')
         /\ IsFiniteSet(Holding(u)) /\ IsFiniteSet(Holding(u)')
         /\ Cardinality(Owing(u)) \in Nat /\ Cardinality(Owing(u)') \in Nat
         /\ Cardinality(Holding(u)) \in Nat /\ Cardinality(Holding(u)') \in Nat
<1>1. IsFiniteSet(Tasks)
  BY ConstantsOK DEF ConstantsOK
<1>2. /\ Owing(u) \subseteq Tasks /\ Owing(u)' \subseteq Tasks
      /\ Holding(u) \subseteq Tasks /\ Holding(u)' \subseteq Tasks
  BY DEF Owing, Holding
<1> HIDE DEF Owing, Holding
<1> QED  BY <1>1, <1>2, FS_Subset, FS_CardinalityType

LEMMA SizeGrows ==
  ASSUME NEW S, IsFiniteSet(S), NEW x, NEW T, T \subseteq S \cup {x}
  PROVE  Cardinality(T) <= Cardinality(S) + 1
<1>1. IsFiniteSet(S \cup {x}) /\ Cardinality(S \cup {x}) <= Cardinality(S) + 1
  <2>1. /\ IsFiniteSet(S \cup {x})
        /\ \/ Cardinality(S \cup {x}) = Cardinality(S)
           \/ Cardinality(S \cup {x}) = Cardinality(S) + 1
    BY FS_AddElement, Zenon
  <2>2. Cardinality(S) \in Nat
    BY FS_CardinalityType
  <2> QED  BY <2>1, <2>2
<1>2. IsFiniteSet(T) /\ Cardinality(T) <= Cardinality(S \cup {x})
  BY <1>1, FS_Subset
<1> QED  BY <1>1, <1>2, FS_CardinalityType

LEMMA SizeShrinks ==
  ASSUME NEW S, IsFiniteSet(S), NEW x \in S, NEW T, T \subseteq S \ {x}
  PROVE  Cardinality(T) <= Cardinality(S) - 1
<1>1. IsFiniteSet(S \ {x}) /\ Cardinality(S \ {x}) = Cardinality(S) - 1
  BY FS_RemoveElement
<1> QED  BY <1>1, FS_Subset

-----------------------------------------------------------------------------
(* What a step can do to a user's slots and balance *)

Admits(t) == (Gate(t) \/ GateLost(t)) /\ Admit(t)

LEMMA EntersAdmits ==
  ASSUME Safe, [Next]_vars, NEW t \in Tasks, Enters(t)
  PROVE  Admits(t)
<1>1. RequestActs(t)
  BY WhoActs, RequestFrame, CancelFrame, AdjustFrame, WorkerFrame, ReaperFrame, RestFrame
     DEF Safe, Enters, requestVars
<1>2. ~(Gate(t) \/ GateLost(t)) => rpc'[t] # "mark"
  BY <1>1 DEF Safe, TypeOK, RequestActs, Request, HydrateRead, HydrateFill, MarkPending, Persist,
              PersistError, Undo, Unadmit, UnadmitError, Accept, RequestAbort, GoRequest
<1>3. Gate(t) => Admit(t)
  BY DEF Enters, Gate, GoRequest, Safe, TypeOK
<1> QED  BY <1>2, <1>3 DEF Enters, Admits, GateLost

LEMMA OneEnters ==
  ASSUME Safe, NEW t \in Tasks, Admits(t)
  PROVE  \A s \in Tasks \ {t} : ~Enters(s)
<1>1. RequestActs(t)
  BY DEF Admits, RequestActs, Request
<1> QED  BY <1>1, RequestFrame DEF Safe, Enters

Less(n) == IF n > 0 THEN n - 1 ELSE 0

SlotKept(u) == active'[u] = active[u] /\ Holding(u)' \subseteq Holding(u)

SlotTaken(u) ==
  /\ active[u] < MaxConcurrent /\ active'[u] = active[u] + 1
  /\ \E t \in Tasks : Holding(u)' \subseteq Holding(u) \cup {t}

SlotGiven(u) ==
  /\ active'[u] = Less(active[u])
  /\ \E t \in Holding(u) : Holding(u)' \subseteq Holding(u) \ {t}

CreditKept(u) == bal'[u] = bal[u] /\ Owing(u)' \subseteq Owing(u)

CreditTaken(u) ==
  /\ bal[u] # NoBalance /\ bal'[u] = bal[u] - Cost
  /\ \E t \in Tasks : Owing(u)' \subseteq Owing(u) \cup {t}

CreditGiven(u) ==
  /\ bal'[u] = IF bal[u] = NoBalance THEN Cost ELSE bal[u] + Cost
  /\ \E t \in Owing(u) : Owing(u)' \subseteq Owing(u) \ {t}

CreditFilled(u) ==
  /\ bal[u] = NoBalance /\ Owing(u)' \subseteq Owing(u)
  /\ bal'[u] \in Int /\ bal'[u] <= stored'[u]

LEMMA Shrinking ==
  ASSUME Safe, RowsMove, [Next]_vars, NEW u \in Users \ suspect',
         \A t \in Tasks : ~Admits(t)
  PROVE  Holding(u)' \subseteq Holding(u) /\ Owing(u)' \subseteq Owing(u)
<1>1. \A t \in Tasks : ~Enters(t)
  BY EntersAdmits
<1> QED  BY <1>1, HoldsGrows, OwesGrows DEF Holding, Owing

LEMMA AdmitsChange ==
  ASSUME Safe, NEW t \in Tasks, Admits(t)
  PROVE  /\ UserOf[t] \in Users
         /\ bal[UserOf[t]] \in Int /\ active[UserOf[t]] < MaxConcurrent
         /\ bal' = [bal EXCEPT ![UserOf[t]] = @ - Cost]
         /\ active' = [active EXCEPT ![UserOf[t]] = @ + 1]
         /\ bal' # bal /\ active' # active
<1> DEFINE u == UserOf[t]
<1>1. u \in Users
  BY UserOfTask
<1>2. /\ bal' = [bal EXCEPT ![u] = @ - Cost] /\ active' = [active EXCEPT ![u] = @ + 1]
      /\ bal[u] # NoBalance /\ ~(active[u] >= MaxConcurrent)
  BY DEF Admits, Admit, Admission
<1>3. bal \in [Users -> Balance] /\ active \in [Users -> Nat] /\ bal[u] \in Int
  BY <1>1, <1>2 DEF Safe, TypeOK, Balance
<1> HIDE DEF u
<1>4. bal'[u] = bal[u] - Cost /\ active'[u] = active[u] + 1 /\ active[u] \in Nat
  BY <1>1, <1>2, <1>3
<1>5. bal'[u] # bal[u] /\ active'[u] # active[u] /\ active[u] < MaxConcurrent
  BY <1>2, <1>3, <1>4, Constants
<1> QED  BY <1>1, <1>2, <1>3, <1>5 DEF u

(* A refund, a slot given back, and a SET; what they mean for a user for whom *)
(* only what the code accounts for has happened.                              *)
Refunds(t) ==
  /\ bal' = [bal EXCEPT ![UserOf[t]] = IF @ = NoBalance THEN Cost ELSE @ + Cost]
  /\ active' = active
  /\ UserOf[t] \notin suspect' => Owes(t) /\ ~Owes(t)'

Releases(t) ==
  /\ active' = [active EXCEPT ![UserOf[t]] = Less(@)]
  /\ bal' = bal
  /\ UserOf[t] \notin suspect' => Holds(t) /\ ~Holds(t)'

Fills(u) ==
  /\ \E n \in Int : /\ bal' = [bal EXCEPT ![u] = n]
                    /\ u \notin suspect' => bal[u] = NoBalance /\ n <= stored'[u]
  /\ active' = active

Accounts ==
  \/ bal' = bal /\ active' = active
  \/ \E t \in Tasks : Admits(t) \/ Refunds(t) \/ Releases(t)
  \/ \E u \in Users : Fills(u)

LEMMA CallsAccount ==
  ASSUME NEW t \in Tasks
  PROVE  /\ Credit(UserOf[t]) /\ (UserOf[t] \notin suspect' => Owes(t) /\ ~Owes(t)') => Refunds(t)
         /\ Decrement(UserOf[t]) /\ (UserOf[t] \notin suspect' => Holds(t) /\ ~Holds(t)')
            => Releases(t)
         /\ GiveSlotBack(UserOf[t]) => Decrement(UserOf[t])
BY DEF Credit, Decrement, GiveSlotBack, Refunds, Releases, Less

LEMMA RequestAccounts ==
  ASSUME Safe, Safe', ReadsCovered, suspect \subseteq suspect', NEW t \in Tasks, RequestActs(t)
  PROVE  Accounts
<1>1. CASE Gate(t) \/ GateLost(t)
  BY <1>1 DEF Gate, GateLost, Admits, Accounts, creditVars, balanceVars
<1>2. CASE HydrateFill(t)
  <2>1. /\ read[t] \in Int /\ bal' = [bal EXCEPT ![UserOf[t]] = read[t]] /\ UNCHANGED <<stored, active>>
        /\ UserOf[t] \notin suspect' => bal[UserOf[t]] = NoBalance
    BY <1>2 DEF HydrateFill, ReadsCovered, Overwrite
  <2>2. UserOf[t] \notin suspect' => read[t] <= stored'[UserOf[t]]
    BY <1>2, <2>1 DEF HydrateFill, ReadsCovered
  <2> QED  BY <2>1, <2>2, UserOfTask DEF Accounts, Fills
<1>3. CASE Undo(t)
  BY <1>3, UndoFrees, CallsAccount DEF Undo, Accounts
<1>4. CASE Unadmit(t)
  BY <1>4, UndoFrees, CallsAccount DEF Unadmit, Accounts
<1>5. CASE UnadmitError(t)
  <2>1. UserOf[t] \in suspect'
    BY <1>5 DEF UnadmitError, Misled
  <2> QED  BY <1>5, <2>1, CallsAccount DEF UnadmitError, Accounts, creditVars, balanceVars
<1> QED
  BY <1>1, <1>2, <1>3, <1>4, <1>5
  DEF RequestActs, Request, HydrateRead, MarkPending, Persist, PersistError, Accept, RequestAbort,
      Accounts, creditVars, balanceVars

LEMMA CancelAccounts ==
  ASSUME Safe, Safe', NEW c \in Cancels, CancelActs(c)
  PROVE  Accounts
<1>1. CancelOf[c] \in Tasks
  BY CancelOfTask
<1>2. CASE CancelRefund(c) \/ CancelRelease(c)
  BY <1>1, <1>2, CancelFrees, CallsAccount DEF CancelRefund, CancelRelease, Accounts
<1>3. CASE CancelRetry(c)
  <2>1. UserOf[CancelOf[c]] \in suspect'
    BY <1>3 DEF CancelRetry, Misled
  <2> QED  BY <1>1, <1>3, <2>1, CallsAccount DEF CancelRetry, Accounts, creditVars, balanceVars
<1> QED
  BY <1>2, <1>3
  DEF CancelActs, CancelRead, CancelTransact, CancelCache, CancelAbort, Accounts, creditVars,
      balanceVars

LEMMA AdjustAccounts ==
  ASSUME Safe, ReadsCovered, suspect \subseteq suspect', AdjustActs
  PROVE  Accounts
<1>1. ASSUME NEW a \in Adjusts, AdjustSync(a) PROVE Accounts
  <2> DEFINE u == AdjustUser[a]
  <2>1. u \in Users /\ new[a] \in Int
    BY Constants DEF Safe, TypeOK
  <2>2. /\ bal' = [bal EXCEPT ![u] = new[a]] /\ UNCHANGED <<stored, active>>
        /\ u \notin suspect' => bal[u] = NoBalance /\ new[a] <= stored'[u]
    BY <1>1 DEF AdjustSync, ReadsCovered, Overwrite
  <2> HIDE DEF u
  <2> QED  BY <2>1, <2>2 DEF Accounts, Fills
<1> QED  BY <1>1 DEF AdjustActs, Adjust, AdjustAbort, Accounts, creditVars, balanceVars

LEMMA WorkerAccounts ==
  ASSUME Safe, Safe', NEW w \in Workers, WorkerActs(w)
  PROVE  Accounts
<1>1. CASE WorkRefund(w) \/ WorkRelease(w) \/ WorkFinish(w)
  <2>1. job[w] \in Tasks
    BY <1>1 DEF WorkRefund, WorkRelease, WorkFinish, Safe, WorkersKnow
  <2>2. PICK t \in Tasks : job[w] = t
    BY <2>1
  <2> QED  BY <1>1, <2>2, WorkFrees, CallsAccount DEF WorkRefund, WorkRelease, WorkFinish, Accounts
<1>2. CASE WorkRetry(w)
  <2>1. job[w] \in Tasks /\ UserOf[job[w]] \in suspect'
    BY <1>2 DEF WorkRetry, Misled, Safe, WorkersKnow
  <2> QED  BY <1>2, <2>1, CallsAccount DEF WorkRetry, Accounts, creditVars, balanceVars
<1> QED
  BY <1>1, <1>2
  DEF WorkerActs, WorkRead, WorkClaim, Work, WorkStart, WorkLook, WorkMark, WorkComplete,
      WorkPublish, WorkFail, WorkAck, WorkRaise, WorkError, WorkFailError, WorkGiveUp, WorkCrash,
      Accounts, creditVars, balanceVars

LEMMA ReaperAccounts ==
  ASSUME Safe, Safe', ReadsCovered, suspect \subseteq suspect', ReaperActs
  PROVE  Accounts
<1>1. CASE ReapRefund \/ ReapRelease
  <2>1. PICK t \in Tasks : xjob = t
    BY <1>1 DEF ReapRefund, ReapRelease, Safe, ReaperKnows
  <2> QED  BY <1>1, <2>1, ReapFrees, CallsAccount DEF ReapRefund, ReapRelease, Accounts
<1>2. CASE ReapRetry
  <2>1. xjob \in Tasks /\ UserOf[xjob] \in suspect'
    BY <1>2 DEF ReapRetry, Misled, Safe, ReaperKnows
  <2> QED  BY <1>2, <2>1, CallsAccount DEF ReapRetry, Accounts, creditVars, balanceVars
<1>3. CASE AuditRestore
  <2>1. xjob \in Users /\ xread \in Int
    BY <1>3 DEF AuditRestore, Safe, ReaperKnows
  <2>2. /\ bal' = [bal EXCEPT ![xjob] = xread] /\ UNCHANGED <<stored, active>>
        /\ xjob \notin suspect' => bal[xjob] = NoBalance /\ xread <= stored'[xjob]
    BY <1>3 DEF AuditRestore, ReadsCovered, Overwrite
  <2> QED  BY <2>1, <2>2 DEF Accounts, Fills
<1> QED
  BY <1>1, <1>2, <1>3
  DEF ReaperActs, ReapMarker, ReapStuck, FlushRead, AuditRead, ReapStep, ReapForget, WriteSnapshot,
      FlushClean, ReapAbort, Accounts, creditVars, balanceVars

LEMMA NextAccounts ==
  ASSUME Safe, Safe', ReadsCovered, [Next]_vars
  PROVE  Accounts
<1>1. RestActs => Accounts
  BY RestFrame DEF Accounts, creditVars, balanceVars
<1> QED
  BY <1>1, WhoActs, SuspectGrows, RequestAccounts, CancelAccounts, AdjustAccounts, WorkerAccounts,
     ReaperAccounts

LEMMA AdmitKeeps ==
  ASSUME Safe, Safe', RowsMove, [Next]_vars, NEW u \in Users \ suspect',
         NEW t \in Tasks, Admits(t)
  PROVE  /\ UserOf[t] = u => SlotTaken(u) /\ CreditTaken(u)
         /\ UserOf[t] # u => SlotKept(u) /\ CreditKept(u)
<1>1. \A s \in Tasks \ {t} : ~Enters(s)
  BY OneEnters
<1>2. \A s \in Tasks : UserOf[s] = u =>
        /\ Holds(s)' => Holds(s) \/ s = t
        /\ Owes(s)' => Owes(s) \/ s = t
  BY <1>1, HoldsGrows, OwesGrows
<1>3. /\ Holding(u)' \subseteq Holding(u) \cup {t} /\ Owing(u)' \subseteq Owing(u) \cup {t}
      /\ UserOf[t] # u => Holding(u)' \subseteq Holding(u) /\ Owing(u)' \subseteq Owing(u)
  BY <1>2 DEF Holding, Owing
<1>4. bal \in [Users -> Balance] /\ active \in [Users -> Nat]
  BY DEF Safe, TypeOK
<1> HIDE DEF Holding, Owing
<1>5. CASE UserOf[t] = u
  BY <1>3, <1>4, <1>5, AdmitsChange, Constants DEF SlotTaken, CreditTaken
<1>6. CASE UserOf[t] # u
  BY <1>3, <1>4, <1>6, AdmitsChange DEF SlotKept, CreditKept
<1> QED  BY <1>5, <1>6

LEMMA GivesKeep ==
  ASSUME Safe, Safe', RowsMove, [Next]_vars, NEW u \in Users \ suspect',
         NEW t \in Tasks, Refunds(t) \/ Releases(t)
  PROVE  /\ SlotKept(u) \/ SlotGiven(u)
         /\ CreditKept(u) \/ CreditGiven(u)
<1>1. bal \in [Users -> Balance] /\ active \in [Users -> Nat]
  BY DEF Safe, TypeOK
<1>2. \A s \in Tasks : ~Admits(s)
  <2>1. bal' = bal \/ active' = active
    BY DEF Refunds, Releases
  <2> QED  BY <2>1, AdmitsChange
<1>3. Holding(u)' \subseteq Holding(u) /\ Owing(u)' \subseteq Owing(u)
  BY <1>2, Shrinking
<1>4. /\ Refunds(t) /\ UserOf[t] = u => t \in Owing(u) /\ t \notin Owing(u)'
      /\ Releases(t) /\ UserOf[t] = u => t \in Holding(u) /\ t \notin Holding(u)'
  BY DEF Refunds, Releases, Owing, Holding
<1> HIDE DEF Holding, Owing
<1>5. CASE Refunds(t)
  BY <1>1, <1>3, <1>4, <1>5 DEF Refunds, SlotKept, CreditKept, CreditGiven
<1>6. CASE Releases(t)
  BY <1>1, <1>3, <1>4, <1>6 DEF Releases, SlotKept, SlotGiven, CreditKept
<1> QED  BY <1>5, <1>6

LEMMA RestKeeps ==
  ASSUME Safe, Safe', RowsMove, [Next]_vars, NEW u \in Users \ suspect',
         active' = active, bal' = bal \/ \E v \in Users : Fills(v)
  PROVE  /\ SlotKept(u)
         /\ CreditKept(u) \/ CreditFilled(u)
<1>1. bal \in [Users -> Balance]
  BY DEF Safe, TypeOK
<1>2. \A s \in Tasks : ~Admits(s)
  BY AdmitsChange
<1>3. Holding(u)' \subseteq Holding(u) /\ Owing(u)' \subseteq Owing(u)
  BY <1>2, Shrinking
<1> HIDE DEF Holding, Owing
<1>4. ASSUME NEW v \in Users, Fills(v)
      PROVE  CreditKept(u) \/ CreditFilled(u)
  BY <1>1, <1>3, <1>4 DEF Fills, CreditKept, CreditFilled
<1> QED  BY <1>3, <1>4 DEF SlotKept, CreditKept

(* The slots and the balance of a user for whom only what the code accounts  *)
(* for has happened.                                                         *)
LEMMA SlotsAndCredits ==
  ASSUME Safe, Safe', ReadsCovered, [Next]_vars, NEW u \in Users \ suspect'
  PROVE  /\ SlotKept(u) \/ SlotTaken(u) \/ SlotGiven(u)
         /\ CreditKept(u) \/ CreditTaken(u) \/ CreditGiven(u) \/ CreditFilled(u)
<1>1. Accounts /\ RowsMove
  BY NextAccounts, NextMoves
<1>2. (\E v \in Users : Fills(v)) => active' = active
  BY DEF Fills
<1> QED  BY <1>1, <1>2, AdmitKeeps, GivesKeep, RestKeeps DEF Accounts

-----------------------------------------------------------------------------
(* What a step can do to any user's balance, credits and snapshot *)

LEMMA BalanceStays ==
  ASSUME Safe, Safe', ReadsCovered, [Next]_vars, NEW u \in Users
  PROVE  /\ bal[u] # NoBalance => bal'[u] # NoBalance
         /\ active'[u] <= active[u] \/ active'[u] <= MaxConcurrent
<1>1. bal \in [Users -> Balance] /\ active \in [Users -> Nat] /\ active' \in [Users -> Nat]
  BY DEF Safe, TypeOK
<1>2. CASE bal' = bal /\ active' = active
  BY <1>1, <1>2
<1>3. ASSUME NEW t \in Tasks, Admits(t)
      PROVE  /\ bal[u] # NoBalance => bal'[u] # NoBalance
             /\ active'[u] <= active[u] \/ active'[u] <= MaxConcurrent
  <2>1. CASE UserOf[t] = u
    BY <1>1, <1>3, <2>1, AdmitsChange, Constants DEF Balance
  <2>2. CASE UserOf[t] # u
    BY <1>1, <1>3, <2>2, AdmitsChange
  <2> QED  BY <2>1, <2>2
<1>4. ASSUME NEW t \in Tasks, Refunds(t)
      PROVE  /\ bal[u] # NoBalance => bal'[u] # NoBalance
             /\ active'[u] <= active[u]
  BY <1>1, <1>4, Constants DEF Refunds, Balance
<1>5. ASSUME NEW t \in Tasks, Releases(t)
      PROVE  /\ bal[u] # NoBalance => bal'[u] # NoBalance
             /\ active'[u] <= active[u]
  BY <1>1, <1>5 DEF Releases, Less
<1>6. ASSUME NEW v \in Users, Fills(v)
      PROVE  /\ bal[u] # NoBalance => bal'[u] # NoBalance
             /\ active'[u] <= active[u]
  BY <1>1, <1>6, Constants DEF Fills
<1> QED  BY <1>2, <1>3, <1>4, <1>5, <1>6, NextAccounts DEF Accounts

LEMMA StoredGrows ==
  ASSUME Safe, [Next]_vars, NEW u \in Users \ suspect'
  PROVE  stored'[u] \in Int /\ stored'[u] >= stored[u]
<1>1. stored \in [Users -> Nat]
  BY DEF Safe, TypeOK
<1>2. ASSUME NEW a \in Adjusts, Adjust(a) PROVE stored'[u] \in Int /\ stored'[u] >= stored[u]
  <2>1. CASE AdjustUser[a] = u
    <3>1. stored'[u] = stored[u] + AdjustBy[a]
      BY <1>1, <1>2, <2>1 DEF Adjust
    <3>2. AdjustBy[a] >= 0
      BY <1>2, <2>1, Constants DEF Adjust
    <3> QED  BY <1>1, <3>1, <3>2, Constants
  <2>2. CASE AdjustUser[a] # u
    BY <1>1, <1>2, <2>2 DEF Adjust
  <2> QED  BY <2>1, <2>2
<1>3. (\E a \in Adjusts : Adjust(a)) \/ UNCHANGED stored
  <2>1. AdjustActs => (\E a \in Adjusts : Adjust(a)) \/ UNCHANGED stored
    BY DEF AdjustActs, AdjustSync, AdjustAbort, Overwrite, creditVars, balanceVars
  <2> QED
    BY <2>1, WhoActs, RequestFrame, CancelFrame, WorkerFrame, ReaperFrame, RestFrame
    DEF Safe, creditVars, balanceVars
<1> QED  BY <1>1, <1>2, <1>3

LEMMA SnapshotsFollow ==
  ASSUME Safe, ReadsCovered, [Next]_vars, NEW u \in Users, bal[u] = NoBalance
  PROVE  snap'[u] = snap[u]
<1>1. CASE ReaperActs /\ ~WriteSnapshot
  BY <1>1 DEF ReaperActs, ReapMarker, ReapStuck, FlushRead, AuditRead, ReapStep, ReapRefund,
              ReapRelease, ReapForget, FlushClean, AuditRestore, ReapAbort, ReapRetry,
              creditVars, balanceVars, Credit, GiveSlotBack, Decrement, Overwrite
<1>2. CASE WriteSnapshot
  <2>1. xjob # u
    BY <1>2 DEF WriteSnapshot, ReadsCovered
  <2> QED  BY <1>2, <2>1 DEF WriteSnapshot, Safe, TypeOK
<1>3. CASE ~ReaperActs
  BY <1>3, WhoActs, RequestFrame, CancelFrame, AdjustFrame, WorkerFrame, RestFrame
  DEF Safe, creditVars, balanceVars
<1> QED  BY <1>1, <1>2, <1>3

-----------------------------------------------------------------------------
(* Balances and counters move with the sizes of the two sets *)

LEMMA CostsGrow ==
  ASSUME NEW c \in Nat, NEW m \in Nat, NEW n \in Nat
  PROVE  /\ c * m \in Int /\ c * (m + 1) = c * m + c
         /\ m <= n => c * m <= c * n
         /\ m <= n - 1 => c * m <= c * n - c
         /\ n <= m + 1 => c * n <= c * m + c
<1>1. \A i, j \in Int : c * (i + j) = c * i + c * j /\ c * i \in Int
  OBVIOUS
<1>2. \A i \in Nat : c * i >= 0
  OBVIOUS
<1>3. c * (m + 1) = c * m + c
  BY <1>1
<1>4. ASSUME m <= n PROVE c * m <= c * n
  <2>1. n - m \in Nat /\ n = m + (n - m)
    BY <1>4
  <2>2. c * n = c * m + c * (n - m)
    BY <1>1, <2>1
  <2> QED  BY <1>1, <1>2, <2>1, <2>2
<1>5. ASSUME m <= n - 1 PROVE c * m <= c * n - c
  <2>1. n - (m + 1) \in Nat /\ n = (m + 1) + (n - (m + 1))
    BY <1>5
  <2>2. c * n = c * (m + 1) + c * (n - (m + 1))
    BY <1>1, <2>1
  <2> QED  BY <1>1, <1>2, <1>3, <2>1, <2>2
<1>6. ASSUME n <= m + 1 PROVE c * n <= c * m + c
  <2>1. (m + 1) - n \in Nat /\ m + 1 = n + ((m + 1) - n)
    BY <1>6
  <2>2. c * (m + 1) = c * n + c * ((m + 1) - n)
    BY <1>1, <2>1
  <2> QED  BY <1>1, <1>2, <1>3, <2>1, <2>2
<1> QED  BY <1>1, <1>3, <1>4, <1>5, <1>6

LEMMA CoveredNext ==
  ASSUME Safe, Safe', ReadsCovered, [Next]_vars, NEW u \in Users \ suspect', Covered(u)
  PROVE  Covered(u)'
<1> DEFINE O == Owing(u)
           P == Owing(u)'
           m == Cardinality(O)
           n == Cardinality(P)
<1>1. IsFiniteSet(O) /\ IsFiniteSet(P) /\ m \in Nat /\ n \in Nat
  BY SetSizes
<1>2. CreditKept(u) \/ CreditTaken(u) \/ CreditGiven(u) \/ CreditFilled(u)
  BY SlotsAndCredits
<1>3. stored'[u] \in Int /\ stored'[u] >= stored[u] /\ stored[u] \in Int
  BY StoredGrows DEF Safe, TypeOK
<1>4. bal[u] = NoBalance => snap'[u] = snap[u]
  BY SnapshotsFollow
<1>5. (bal[u] # NoBalance => bal[u] \in Int) /\ (snap[u] # NoBalance => snap[u] \in Int)
  BY DEF Safe, TypeOK, Balance
<1>6. IF bal[u] = NoBalance THEN O = {} /\ (snap[u] # NoBalance => snap[u] <= stored[u])
      ELSE bal[u] <= stored[u] - Cost * m
  BY DEF Covered
<1>7. SUFFICES IF bal'[u] = NoBalance THEN P = {} /\ (snap'[u] # NoBalance => snap'[u] <= stored'[u])
               ELSE bal'[u] <= stored'[u] - Cost * n
  BY DEF Covered
<1>8. /\ Cost * m \in Int /\ Cost * n \in Int
      /\ n <= m => Cost * n <= Cost * m
      /\ n <= m - 1 => Cost * n <= Cost * m - Cost
      /\ n <= m + 1 => Cost * n <= Cost * m + Cost
  BY <1>1, Constants, CostsGrow
<1>9. CASE CreditKept(u)
  <2>1. bal'[u] = bal[u] /\ P \subseteq O
    BY <1>9 DEF CreditKept
  <2>2. n <= m
    BY <1>1, <2>1, FS_Subset
  <2> HIDE DEF O, P, m, n
  <2> QED  BY <1>3, <1>4, <1>5, <1>6, <1>8, <2>1, <2>2
<1>10. CASE CreditTaken(u)
  <2>1. PICK t \in Tasks : P \subseteq O \cup {t}
    BY <1>10 DEF CreditTaken
  <2>2. n <= m + 1
    BY <1>1, <2>1, SizeGrows
  <2>3. bal[u] # NoBalance /\ bal'[u] = bal[u] - Cost
    BY <1>10 DEF CreditTaken
  <2> HIDE DEF O, P, m, n
  <2> QED  BY <1>3, <1>5, <1>6, <1>8, <2>2, <2>3, Constants
<1>11. CASE CreditGiven(u)
  <2>1. PICK t \in O : P \subseteq O \ {t}
    BY <1>11 DEF CreditGiven
  <2>2. n <= m - 1
    BY <1>1, <2>1, SizeShrinks
  <2>3. bal[u] # NoBalance /\ bal'[u] = bal[u] + Cost
    BY <1>6, <1>11, <2>1 DEF CreditGiven
  <2> HIDE DEF O, P, m, n
  <2> QED  BY <1>3, <1>5, <1>6, <1>8, <2>2, <2>3, Constants
<1>12. CASE CreditFilled(u)
  <2>1. P = {} /\ bal'[u] \in Int /\ bal'[u] <= stored'[u]
    BY <1>6, <1>12 DEF CreditFilled
  <2>2. n = 0
    BY <2>1, FS_EmptySet
  <2>3. Cost * n = 0
    BY <2>2, Constants
  <2> HIDE DEF O, P, m, n
  <2> QED  BY <1>3, <2>1, <2>3, Constants
<1> QED  BY <1>2, <1>9, <1>10, <1>11, <1>12

LEMMA SlotsCountedNext ==
  ASSUME Safe, Safe', ReadsCovered, [Next]_vars, SlotsCounted
  PROVE  SlotsCounted'
<1>1. ASSUME NEW u \in Users \ suspect'
      PROVE  Cardinality(Holding(u)') <= active'[u]
  <2> DEFINE H == Holding(u)
             G == Holding(u)'
  <2>1. /\ IsFiniteSet(H) /\ IsFiniteSet(G)
        /\ Cardinality(H) \in Nat /\ Cardinality(G) \in Nat
    BY SetSizes
  <2>2. Cardinality(H) <= active[u] /\ active[u] \in Nat
    BY SuspectGrows DEF SlotsCounted, Safe, TypeOK
  <2>3. SlotKept(u) \/ SlotTaken(u) \/ SlotGiven(u)
    BY SlotsAndCredits
  <2>4. CASE SlotKept(u)
    <3>1. Cardinality(G) <= Cardinality(H) /\ active'[u] = active[u]
      BY <2>1, <2>4, FS_Subset DEF SlotKept
    <3> QED  BY <2>1, <2>2, <3>1
  <2>5. CASE SlotTaken(u)
    <3>1. Cardinality(G) <= Cardinality(H) + 1 /\ active'[u] = active[u] + 1
      BY <2>1, <2>5, SizeGrows DEF SlotTaken
    <3> QED  BY <2>1, <2>2, <3>1
  <2>6. CASE SlotGiven(u)
    <3>1. Cardinality(G) <= Cardinality(H) - 1 /\ active'[u] = Less(active[u])
      BY <2>1, <2>6, SizeShrinks DEF SlotGiven
    <3> QED  BY <2>1, <2>2, <3>1 DEF Less
  <2> QED  BY <2>3, <2>4, <2>5, <2>6
<1>2. ASSUME NEW u \in Users
      PROVE  active'[u] <= MaxConcurrent
  <2>1. active[u] \in Nat /\ active'[u] \in Nat /\ active[u] <= MaxConcurrent
    BY DEF Safe, TypeOK, SlotsCounted
  <2> QED  BY <2>1, BalanceStays, Constants
<1> QED  BY <1>1, <1>2 DEF SlotsCounted

-----------------------------------------------------------------------------
(* The balances that are about to be written *)

LEMMA FillsCovered ==
  ASSUME Safe, Safe', ReadsCovered, [Next]_vars, NEW t \in Tasks, rpc'[t] = "fill"
  PROVE  /\ read'[t] \in Int
         /\ UserOf[t] \notin suspect' => read'[t] <= stored'[UserOf[t]]
<1>1. UserOf[t] \in Users /\ stored \in [Users -> Nat] /\ stored' \in [Users -> Nat]
  BY UserOfTask DEF Safe, TypeOK
<1>2. CASE RequestActs(t)
  <2>1. HydrateRead(t)
    BY <1>2 DEF Safe, TypeOK, RequestActs, Request, Gate, GateLost, HydrateFill, MarkPending,
                Persist, PersistError, Undo, Unadmit, UnadmitError, Accept, RequestAbort, GoRequest
  <2>2. read'[t] = stored[UserOf[t]] /\ stored' = stored
    BY <2>1 DEF HydrateRead, Safe, TypeOK, creditVars, balanceVars
  <2> QED  BY <1>1, <2>2
<1>3. CASE ~RequestActs(t)
  <2>1. rpc'[t] = rpc[t] /\ read'[t] = read[t]
    BY <1>3, WhoActs, RequestFrame, CancelFrame, AdjustFrame, WorkerFrame, ReaperFrame, RestFrame
       DEF Safe, requestVars
  <2>2. read[t] \in Int /\ (UserOf[t] \notin suspect => read[t] <= stored[UserOf[t]])
    BY <2>1 DEF ReadsCovered
  <2> QED  BY <1>1, <2>1, <2>2, SuspectGrows, StoredGrows
<1> QED  BY <1>2, <1>3

LEMMA SyncsCovered ==
  ASSUME Safe, Safe', ReadsCovered, [Next]_vars, NEW a \in Adjusts, apc'[a] = "sync",
         AdjustUser[a] \notin suspect'
  PROVE  new'[a] <= stored'[AdjustUser[a]]
<1>1. AdjustUser[a] \in Users /\ stored \in [Users -> Nat] /\ stored' \in [Users -> Nat]
  BY Constants DEF Safe, TypeOK
<1>2. CASE Adjust(a)
  BY <1>1, <1>2 DEF Adjust, Safe, TypeOK
<1>3. CASE ~Adjust(a)
  <2>1. apc'[a] = apc[a] /\ new'[a] = new[a]
    <3>1. CASE AdjustActs
      BY <1>3, <3>1 DEF AdjustActs, Adjust, AdjustSync, AdjustAbort, GoAdjust, Safe, TypeOK
    <3>2. CASE ~AdjustActs
      BY <3>2, WhoActs, RequestFrame, CancelFrame, WorkerFrame, ReaperFrame, RestFrame
         DEF Safe, requestVars, adminVars
    <3> QED  BY <3>1, <3>2
  <2>2. new[a] <= stored[AdjustUser[a]] /\ new[a] \in Nat
    BY <2>1, SuspectGrows DEF ReadsCovered, Safe, TypeOK
  <2> QED  BY <1>1, <2>1, <2>2, StoredGrows
<1> QED  BY <1>2, <1>3

LEMMA AuditCovered ==
  ASSUME Safe, Safe', CreditsCovered, [Next]_vars
  PROVE  /\ xpc' = "restore" /\ bal'[xjob'] = NoBalance /\ xjob' \notin suspect' =>
              xread' <= stored'[xjob']
         /\ xpc' \in {"snapshot", "clean", "reconcile"} => bal'[xjob'] # NoBalance
<1> USE DEF CreditsCovered
<1>1. ASSUME NEW u \in Users, FlushRead(u)
      PROVE  xpc' \in {"idle", "snapshot"} /\ (xpc' = "snapshot" => xjob' = u /\ bal'[u] # NoBalance)
  BY <1>1 DEF FlushRead, GoReap, reapVars
<1>2. ASSUME NEW u \in Users, AuditRead(u)
      PROVE  /\ xjob' = u /\ bal' = bal /\ stored' = stored /\ suspect' = suspect
             /\ \/ xpc' = "restore" /\ xread' = snap[u] /\ snap[u] # NoBalance
                \/ xpc' = "reconcile" /\ bal[u] # NoBalance
  BY <1>2 DEF AuditRead, GoReap, creditVars, balanceVars, faultVars
<1>3. ASSUME NEW u \in Users, AuditRead(u)
      PROVE  /\ xpc' = "restore" /\ bal'[xjob'] = NoBalance /\ xjob' \notin suspect' =>
                  xread' <= stored'[xjob']
             /\ xpc' \in {"snapshot", "clean", "reconcile"} => bal'[xjob'] # NoBalance
  BY <1>2, <1>3 DEF Covered
<1>4. CASE WriteSnapshot
  BY <1>4 DEF WriteSnapshot, GoReap, Rest, ReadsCovered
<1>5. CASE \/ \E t \in Tasks : ReapMarker(t) \/ ReapStuck(t)
           \/ ReapRefund \/ ReapRelease \/ ReapForget \/ FlushClean \/ AuditRestore
           \/ ReapAbort \/ ReapRetry
  <2>1. xpc' \notin {"restore", "snapshot", "clean", "reconcile"}
    BY <1>5 DEF ReapMarker, ReapStuck, ReapRefund, ReapRelease, ReapForget, FlushClean,
                AuditRestore, ReapAbort, ReapRetry, GoReap, Rest, reapVars
  <2> QED  BY <2>1
<1>6. CASE ~ReaperActs
  <2>1. xpc' = xpc /\ xjob' = xjob /\ xread' = xread
    BY <1>6, WhoActs, RequestFrame, CancelFrame, AdjustFrame, WorkerFrame, RestFrame
       DEF Safe, reapVars
  <2>2. CASE xpc \in {"snapshot", "clean", "restore", "reconcile"}
    <3>1. xjob \in Users /\ (xpc = "restore" => xread \in Int)
      BY <2>2 DEF Safe, ReaperKnows
    <3>2. bal[xjob] # NoBalance => bal'[xjob] # NoBalance
      BY <3>1, BalanceStays
    <3>3. xjob \notin suspect' => /\ stored'[xjob] \in Int /\ stored[xjob] \in Int
                                  /\ stored'[xjob] >= stored[xjob] /\ xjob \notin suspect
      BY <3>1, StoredGrows, SuspectGrows DEF Safe, TypeOK
    <3> QED  BY <2>1, <2>2, <3>1, <3>2, <3>3 DEF ReadsCovered
  <2> QED  BY <2>1, <2>2
<1> QED  BY <1>1, <1>3, <1>4, <1>5, <1>6 DEF ReaperActs, ReapStep

LEMMA CreditsCoveredNext ==
  ASSUME Safe, Safe', CreditsCovered, [Next]_vars
  PROVE  CreditsCovered'
<1>1. ReadsCovered'
  BY FillsCovered, SyncsCovered, AuditCovered DEF CreditsCovered, ReadsCovered
<1>2. \A u \in Users \ suspect' : Covered(u)'
  BY CoveredNext, SuspectGrows DEF CreditsCovered
<1> QED  BY <1>1, <1>2 DEF CreditsCovered

-----------------------------------------------------------------------------
(* The start *)

LEMMA InitCounts ==
  ASSUME Init
  PROVE  CreditsCovered /\ SlotsCounted
<1>1. \A t \in Tasks : ~Holds(t) /\ ~Owes(t)
  BY Constants
     DEF Init, Holds, Owes, RequestHolds, RequestOwes, CancelHolds, CancelOwes, CancelDue,
         WorkHolds, WorkOwes, WorkDue, ReapHolds, ReapOwes, OrphanHolds, OrphanOwes, Orphan,
         Cancellable
<1>2. \A u \in Users : Owing(u) = {} /\ Holding(u) = {}
  BY <1>1 DEF Owing, Holding
<1>3. Cardinality({}) = 0 /\ Cost * 0 = 0
  BY FS_EmptySet, Constants
<1>4. \A u \in Users : Covered(u)
  <2> SUFFICES ASSUME NEW u \in Users PROVE Covered(u)
    OBVIOUS
  <2>1. SeedCredits[u] \in Nat
    BY ConstantsOK DEF ConstantsOK
  <2>2. stored[u] = SeedCredits[u] /\ bal[u] \in {SeedCredits[u], NoBalance}
        /\ snap[u] \in {SeedCredits[u], NoBalance}
    BY DEF Init
  <2>3. Owing(u) = {} /\ Cost * Cardinality(Owing(u)) = 0
    BY <1>2, <1>3
  <2> QED  BY <2>1, <2>2, <2>3, Constants DEF Covered
<1>5. ReadsCovered
  BY DEF Init, ReadsCovered
<1>6. SlotsCounted
  <2>1. \A u \in Users : Cardinality(Holding(u)) = 0 /\ active[u] = 0
    BY <1>2, <1>3 DEF Init
  <2> QED  BY <2>1, Constants DEF SlotsCounted
<1> QED  BY <1>4, <1>5, <1>6 DEF CreditsCovered

(* A user for whom nothing has happened that the code does not account for    *)
(* never has a balance in Redis above users.credits less one cost for each    *)
(* task that owes it, and never fewer slots counted than tasks that hold one. *)
THEOREM CreditsAndSlotsCovered == Spec => [](Safe /\ CreditsCovered /\ SlotsCounted)
<1> DEFINE Inv == Safe /\ CreditsCovered /\ SlotsCounted
<1>1. Init => Inv
  BY InitSafe, InitCounts
<1>2. Inv /\ [Next]_vars => Inv'
  <2> SUFFICES ASSUME Safe, CreditsCovered, SlotsCounted, [Next]_vars
               PROVE  Inv'
    OBVIOUS
  <2>1. Safe' /\ ReadsCovered
    BY NextSafe DEF CreditsCovered
  <2> QED  BY <2>1, CreditsCoveredNext, SlotsCountedNext
<1> HIDE DEF Inv
<1>3. Spec => []Inv
  BY <1>1, <1>2, PTL DEF Spec
<1> QED  BY <1>3 DEF Inv

(* Redis never lets a user spend what the ledger says is spent: no refund is  *)
(* made twice, or for a task that has run, by whichever of the request, the   *)
(* cancel, the workers and the reaper (redis/reaper.py, billing.py) make it.  *)
THEOREM NothingRunsFreeEver == Spec => []NothingRunsFree
<1>1. Safe /\ CreditsCovered => NothingRunsFree
  <2> SUFFICES ASSUME Safe, CreditsCovered, NEW u \in Users \ suspect, bal[u] # NoBalance
               PROVE  bal[u] <= stored[u] - Cost * Cardinality(Charged(u))
    BY DEF NothingRunsFree
  <2> DEFINE m == Cardinality(Charged(u))
             n == Cardinality(Owing(u))
  <2>1. Charged(u) \subseteq Owing(u)
    BY DEF Charged, Owing, Owes
  <2>2. IsFiniteSet(Tasks) /\ Charged(u) \subseteq Tasks /\ Owing(u) \subseteq Tasks
    BY ConstantsOK DEF ConstantsOK, Charged, Owing
  <2>3. m \in Nat /\ n \in Nat /\ m <= n
    <3> HIDE DEF Charged, Owing
    <3> QED  BY <2>1, <2>2, FS_Subset, FS_CardinalityType
  <2>4. Cost * m \in Int /\ Cost * n \in Int /\ Cost * m <= Cost * n
    BY <2>3, CostsGrow, Constants
  <2>5. bal[u] <= stored[u] - Cost * n /\ bal[u] \in Int /\ stored[u] \in Int
    BY DEF CreditsCovered, Covered, Safe, TypeOK, Balance
  <2> HIDE DEF m, n
  <2>6. bal[u] <= stored[u] - Cost * m
    BY <2>4, <2>5
  <2> QED  BY <2>6 DEF m
<1> QED  BY <1>1, CreditsAndSlotsCovered, PTL

(* active:{user} counts every task the user has open, and the script keeps it *)
(* at max_concurrent at most, whatever order the decrements come in.          *)
THEOREM OpenTasksAlwaysCounted == Spec => []OpenTasksCounted
<1>1. Safe /\ SlotsCounted => OpenTasksCounted
  <2> SUFFICES ASSUME Safe, SlotsCounted, NEW u \in Users \ suspect
               PROVE  Cardinality(Open(u)) <= active[u] /\ active[u] <= MaxConcurrent
    BY DEF OpenTasksCounted
  <2>1. Open(u) \subseteq Holding(u)
    BY DEF Open, Holding, Holds
  <2>2. IsFiniteSet(Tasks) /\ Open(u) \subseteq Tasks /\ Holding(u) \subseteq Tasks
    BY ConstantsOK DEF ConstantsOK, Open, Holding
  <2>3. /\ Cardinality(Open(u)) \in Nat /\ Cardinality(Holding(u)) \in Nat
        /\ Cardinality(Open(u)) <= Cardinality(Holding(u))
    <3> HIDE DEF Open, Holding
    <3> QED  BY <2>1, <2>2, FS_Subset, FS_CardinalityType
  <2>4. Cardinality(Holding(u)) <= active[u] /\ active[u] <= MaxConcurrent /\ active[u] \in Nat
    BY DEF SlotsCounted, Safe, TypeOK
  <2> QED  BY <2>3, <2>4
<1> QED  BY <1>1, CreditsAndSlotsCovered, PTL

=============================================================================

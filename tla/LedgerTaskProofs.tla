-------------------------- MODULE LedgerTaskProofs --------------------------
(***************************************************************************)
(* Proofs about LedgerTask, for any users, requests, keys, cancels,        *)
(* workers, top-ups, credits and scenes, so for any number of failures,    *)
(* and about LedgerRead beside it.                                         *)
(*                                                                         *)
(* RowsMove says what a step can do to the row and the transfer of a task. *)
(* What a worker, a cancel or the reconciler has found out about its task  *)
(* stays true through that, until it acts on it (Safe).  The active        *)
(* counters are about three sets of tasks, in each of which a step         *)
(* concerns one task at most: SlotEffect.  What a step does to transfers   *)
(* and top-ups (BillEffect) is a step of CreditHold.                       *)
(*                                                                         *)
(* The readers write nothing the command side decides by, so that Safe     *)
(* holds beside them, too.  Whatever holds a copy of a status, be it       *)
(* stale, holds an outcome only if it is the row's (CopiesTrue); and rows  *)
(* keep their outcome.                                                     *)
(***************************************************************************)
EXTENDS LedgerRead, TLAPS, FiniteSetTheorems

-----------------------------------------------------------------------------
(* What the actors know *)

(* No row before the commit: a request that is to reserve has no task yet.   *)
RowsFollow ==
  \A t \in Tasks : rpc[t] \in {"idle", "reserve", "recheck", "commit"} => status[t] = "none"

WorkersKnow ==
  \A w \in Workers : wpc[w] # "idle" =>
    /\ job[w] \in Tasks
    /\ wpc[w] # "start" => status[job[w]] \notin {"none", "PENDING"}
    /\ wpc[w] = "complete" => transfer[job[w]] = "posted"
    /\ wpc[w] = "fail" => transfer[job[w]] = "voided"
    /\ wpc[w] \in {"release", "cache"} => status[job[w]] \in Terminal

CancelsKnow ==
  \A c \in Cancels : cpc[c] \in {"void", "release", "cache"} => status[CancelOf[c]] = "CANCELLED"

ReconKnows ==
  xpc # "idle" =>
    /\ xjob[1] \in Tasks /\ xjob[2] \in Terminal /\ status[xjob[1]] # "none"
    /\ xjob[2] = "COMPLETED" => transfer[xjob[1]] = "posted"
    /\ xjob[2] = "FAILED" => transfer[xjob[1]] = "voided"
    /\ xpc # "align" => status[xjob[1]] = xjob[2]

Safe == TypeOK /\ RowsFollow /\ WorkersKnow /\ CancelsKnow /\ ReconKnows /\ OutcomesArePaid

-----------------------------------------------------------------------------
(* What a step can do to the transfer and the row of a task *)

TransferMoves(t) ==
  \/ transfer'[t] = transfer[t]
  \/ rpc[t] = "reserve" /\ transfer'[t] = "pending"
  \/ transfer[t] = "pending" /\ transfer'[t] \in {"voided", "expired"}
  \/ transfer[t] = "pending" /\ transfer'[t] = "posted" /\ status[t] \notin {"none", "PENDING"}

StatusMoves(t) ==
  \/ status'[t] = status[t]
  \/ status[t] = "none" /\ status'[t] = "PENDING" /\ rpc'[t] \in {"count", "giveUp"}
  \/ status[t] = "PENDING" /\ status'[t] = "RUNNING"
  \/ /\ status[t] \in Cancellable
     /\ \/ status'[t] = "CANCELLED"
        \/ status'[t] = "COMPLETED" /\ transfer[t] = "posted"
        \/ status'[t] = "FAILED" /\ transfer[t] = "voided"

RowsMove == \A t \in Tasks : TransferMoves(t) /\ StatusMoves(t)

LEMMA SettleMoves ==
  ASSUME transfer \in [Tasks -> {"none", "pending", "posted", "voided", "expired"}],
         NEW t \in Tasks, NEW outcome \in {"posted", "voided", "expired"}, Settle(t, outcome),
         outcome = "posted" => status[t] \notin {"none", "PENDING"}
  PROVE  \A s \in Tasks : TransferMoves(s)
BY DEF Settle, TransferMoves

LEMMA AdvanceMoves ==
  ASSUME status \in [Tasks -> Statuses], NEW t \in Tasks, NEW from, NEW st, NEW topic,
         Advance(t, from, st, topic),
         \/ from = {"none"} /\ st = "PENDING" /\ rpc'[t] \in {"count", "giveUp"}
         \/ from = {"PENDING"} /\ st = "RUNNING"
         \/ /\ from = Cancellable
            /\ \/ st = "CANCELLED"
               \/ st = "COMPLETED" /\ transfer[t] = "posted"
               \/ st = "FAILED" /\ transfer[t] = "voided"
  PROVE  \A s \in Tasks : StatusMoves(s)
BY DEF Advance, StatusMoves

LEMMA StillMoves ==
  /\ UNCHANGED transfer => \A t \in Tasks : TransferMoves(t)
  /\ UNCHANGED status => \A t \in Tasks : StatusMoves(t)
BY DEF TransferMoves, StatusMoves

LEMMA RequestMoves ==
  ASSUME Safe, NEW t \in Tasks, Request(t) \/ CommitError(t) \/ RequestAbort(t)
  PROVE  RowsMove
<1> USE DEF Safe, TypeOK
<1>1. CASE Gate(t) \/ Recheck(t) \/ Count(t) \/ CacheSeen(t) \/ RequestAbort(t)
  BY <1>1, StillMoves
  DEF Gate, Recheck, Count, CacheSeen, RequestAbort, billVars, rowVars, RowsMove
<1>2. CASE Reserve(t)
  <2>1. \A s \in Tasks : TransferMoves(s)
    BY <1>2 DEF Reserve, TransferMoves, billVars
  <2> QED  BY <1>2, <2>1, StillMoves DEF Reserve, rowVars, RowsMove
<1>3. CASE Commit(t) \/ CommitError(t)
  <2>1. UNCHANGED transfer
    BY <1>3 DEF Commit, CommitError, billVars
  <2>2. CASE Insert(t)
    <3>2. rpc'[t] \in {"count", "giveUp"}
      BY <1>3, <2>2 DEF Commit, CommitError, GoRequest, Insert
    <3>1. \A s \in Tasks : StatusMoves(s)
      BY <2>2, <3>2, AdvanceMoves DEF Insert
    <3> QED  BY <2>1, <3>1, StillMoves DEF RowsMove
  <2> QED  BY <1>3, <2>1, <2>2, StillMoves DEF Commit, CommitError, rowVars, RowsMove
<1>4. CASE VoidOwn(t)
  <2>1. UNCHANGED status
    BY <1>4 DEF VoidOwn, rowVars
  <2>2. CASE Settle(t, "voided")
    BY <2>1, <2>2, SettleMoves, StillMoves DEF RowsMove
  <2> QED  BY <1>4, <2>1, <2>2, StillMoves DEF VoidOwn, Unsettled, billVars, RowsMove
<1> QED  BY <1>1, <1>2, <1>3, <1>4 DEF Request

LEMMA CancelMoves ==
  ASSUME Safe, NEW c \in Cancels,
         CancelRead(c) \/ Cancel(c) \/ CancelVoidError(c) \/ CancelAbort(c)
  PROVE  RowsMove
<1> USE DEF Safe, TypeOK
<1>1. CancelOf[c] \in Tasks
  BY ConstantsOK DEF ConstantsOK
<1>2. CASE CancelTransact(c)
  <2>1. CASE Finish(CancelOf[c], "CANCELLED")
    <3>1. \A s \in Tasks : StatusMoves(s)
      BY <1>1, <2>1, AdvanceMoves DEF Finish
    <3> QED  BY <1>2, <3>1, StillMoves DEF CancelTransact, billVars, RowsMove
  <2> QED  BY <1>2, <2>1, StillMoves DEF CancelTransact, billVars, rowVars, RowsMove
<1>3. CASE CancelVoid(c)
  <2>1. \A s \in Tasks : TransferMoves(s)
    <3>1. CASE Settle(CancelOf[c], "voided")
      BY <1>1, <3>1, SettleMoves
    <3> QED  BY <1>3, <3>1, StillMoves DEF CancelVoid, Unsettled, billVars
  <2> QED  BY <1>3, <2>1, StillMoves DEF CancelVoid, rowVars, RowsMove
<1>4. CASE \/ CancelRead(c) \/ CancelRelease(c) \/ CancelCache(c) \/ CancelVoidError(c)
           \/ CancelAbort(c)
  BY <1>4, StillMoves
  DEF CancelRead, CancelRelease, CancelCache, CancelVoidError, CancelAbort, billVars, rowVars,
      RowsMove
<1> QED  BY <1>2, <1>3, <1>4 DEF Cancel

LEMMA WorkMoves ==
  ASSUME Safe, NEW w \in Workers,
         (\E t \in Tasks : WorkTake(w, t)) \/ Work(w) \/ WorkAbort(w)
  PROVE  RowsMove
<1> USE DEF Safe, TypeOK
<1>1. CASE WorkStart(w)
  <2>1. job[w] \in Tasks
    BY <1>1 DEF WorkStart, WorkersKnow
  <2>2. CASE Advance(job[w], {"PENDING"}, "RUNNING", "started")
    <3>1. \A s \in Tasks : StatusMoves(s)
      BY <2>1, <2>2, AdvanceMoves
    <3> QED  BY <1>1, <3>1, StillMoves DEF WorkStart, billVars, RowsMove
  <2> QED  BY <1>1, <2>2, StillMoves DEF WorkStart, billVars, rowVars, RowsMove
<1>2. CASE WorkSettle(w)
  <2>1. job[w] \in Tasks /\ status[job[w]] \notin {"none", "PENDING"}
    BY <1>2 DEF WorkSettle, WorkersKnow
  <2>2. \A s \in Tasks : TransferMoves(s)
    <3>1. ASSUME NEW outcome \in {"posted", "voided"}, Settle(job[w], outcome)
          PROVE  \A s \in Tasks : TransferMoves(s)
      BY <2>1, <3>1, SettleMoves
    <3> QED  BY <1>2, <3>1, StillMoves DEF WorkSettle, Unsettled, billVars
  <2> QED  BY <1>2, <2>2, StillMoves DEF WorkSettle, rowVars, RowsMove
<1>3. CASE WorkFinalize(w)
  <2>1. /\ job[w] \in Tasks
        /\ wpc[w] = "complete" => transfer[job[w]] = "posted"
        /\ wpc[w] = "fail" => transfer[job[w]] = "voided"
    BY <1>3 DEF WorkFinalize, WorkersKnow
  <2>2. ASSUME Finish(job[w], IF wpc[w] = "complete" THEN "COMPLETED" ELSE "FAILED")
        PROVE  \A s \in Tasks : StatusMoves(s)
    BY <1>3, <2>1, <2>2, AdvanceMoves DEF Finish, WorkFinalize
  <2> QED  BY <1>3, <2>2, StillMoves DEF WorkFinalize, billVars, rowVars, RowsMove
<1>4. CASE \/ (\E t \in Tasks : WorkTake(w, t)) \/ WorkMark(w) \/ WorkExecute(w)
           \/ WorkRelease(w) \/ WorkCache(w) \/ WorkAbort(w)
  BY <1>4, StillMoves
  DEF WorkTake, WorkMark, WorkExecute, WorkRelease, WorkCache, WorkAbort, billVars, rowVars,
      RowsMove
<1> QED  BY <1>1, <1>2, <1>3, <1>4 DEF Work

LEMMA AlignMoves ==
  ASSUME Safe, Align \/ AlignRelease \/ AlignCache \/ AlignAbort
  PROVE  RowsMove
<1> USE DEF Safe, TypeOK
<1>1. CASE Align
  <2>1. /\ xjob[1] \in Tasks /\ xjob[2] \in Terminal
        /\ xjob[2] = "COMPLETED" => transfer[xjob[1]] = "posted"
        /\ xjob[2] = "FAILED" => transfer[xjob[1]] = "voided"
    BY <1>1 DEF Align, ReconKnows
  <2>2. ASSUME Finish(xjob[1], xjob[2]) PROVE \A s \in Tasks : StatusMoves(s)
    BY <2>1, <2>2, AdvanceMoves DEF Finish, Terminal
  <2> QED  BY <1>1, <2>2, StillMoves DEF Align, billVars, rowVars, RowsMove
<1>2. CASE AlignRelease \/ AlignCache \/ AlignAbort
  BY <1>2, StillMoves DEF AlignRelease, AlignCache, AlignAbort, billVars, rowVars, RowsMove
<1> QED  BY <1>1, <1>2

LEMMA OtherMoves ==
  ASSUME Safe,
         \/ \E t \in Tasks : TimeOut(t) \/ Dispatch(t) \/ Reconcile(t)
         \/ \E i \in Topups : Topup(i)
         \/ Relay
         \/ UNCHANGED vars
  PROVE  RowsMove
<1> USE DEF Safe, TypeOK
<1>1. ASSUME NEW t \in Tasks, TimeOut(t) PROVE RowsMove
  <2>1. \A s \in Tasks : TransferMoves(s)
    BY <1>1, SettleMoves DEF TimeOut
  <2> QED  BY <1>1, <2>1, StillMoves DEF TimeOut, rowVars, RowsMove
<1> QED  BY <1>1, StillMoves
         DEF Dispatch, Reconcile, Topup, Relay, vars, billVars, rowVars, RowsMove

LEMMA NextMoves ==
  ASSUME Safe, [Next]_vars
  PROVE  RowsMove
BY RequestMoves, CancelMoves, WorkMoves, AlignMoves, OtherMoves DEF Next, Step

-----------------------------------------------------------------------------
(* Whose step it is *)

RequestActs == \E t \in Tasks : Request(t) \/ CommitError(t) \/ RequestAbort(t)
CancelActs == \E c \in Cancels : CancelRead(c) \/ Cancel(c) \/ CancelVoidError(c) \/ CancelAbort(c)
WorkerActs(w) == (\E t \in Tasks : WorkTake(w, t)) \/ Work(w) \/ WorkAbort(w)
ReconActs ==
  (\E t \in Tasks : Reconcile(t)) \/ Align \/ AlignRelease \/ AlignCache \/ AlignAbort
RestActs ==
  \/ \E t \in Tasks : TimeOut(t) \/ Dispatch(t)
  \/ \E i \in Topups : Topup(i)
  \/ Relay
  \/ UNCHANGED vars

LEMMA WhoActs ==
  ASSUME [Next]_vars
  PROVE  RequestActs \/ CancelActs \/ (\E w \in Workers : WorkerActs(w)) \/ ReconActs \/ RestActs
BY DEF Next, Step, RequestActs, CancelActs, WorkerActs, ReconActs, RestActs

LEMMA RequestFrame == RequestActs => UNCHANGED <<cpc, workVars, reconVars>>
BY DEF RequestActs, Request, Gate, Reserve, Recheck, Commit, VoidOwn, Count, CacheSeen,
       CommitError, RequestAbort, GoRequest

LEMMA CancelFrame == CancelActs => UNCHANGED <<rpc, workVars, reconVars>>
BY DEF CancelActs, CancelRead, Cancel, CancelVoidError, CancelAbort, CancelTransact, CancelVoid,
       CancelRelease, CancelCache, GoCancel

LEMMA ReconFrame == ReconActs => UNCHANGED <<requestVars, workVars>>
BY DEF ReconActs, Reconcile, Align, AlignRelease, AlignCache, AlignAbort

LEMMA RestFrame == RestActs => UNCHANGED <<requestVars, workVars, reconVars>>
BY DEF RestActs, TimeOut, Dispatch, Topup, Relay, vars

LEMMA WorkerFrame ==
  ASSUME Safe, NEW w \in Workers, WorkerActs(w)
  PROVE  /\ UNCHANGED <<requestVars, reconVars>>
         /\ \A v \in Workers \ {w} : wpc'[v] = wpc[v] /\ job'[v] = job[v]
<1>1. UNCHANGED <<requestVars, reconVars>>
  BY DEF WorkerActs, WorkTake, Work, WorkAbort, WorkStart, WorkMark, WorkExecute, WorkSettle,
         WorkFinalize, WorkRelease, WorkCache
<1>2. ASSUME NEW v \in Workers \ {w} PROVE wpc'[v] = wpc[v] /\ job'[v] = job[v]
  BY DEF Safe, TypeOK, WorkerActs, WorkTake, Work, WorkAbort, WorkStart, WorkMark, WorkExecute,
         WorkSettle, WorkFinalize, WorkRelease, WorkCache, GoWork, Ack, Requeue, Leave
<1> QED  BY <1>1, <1>2

-----------------------------------------------------------------------------
(* What stays true *)

(* Nobody undoes what an actor has found out about row and transfer.         *)
LEMMA FactsStay ==
  ASSUME Safe, RowsMove, NEW t \in Tasks
  PROVE  /\ status[t] # "none" => status'[t] # "none"
         /\ status[t] \notin {"none", "PENDING"} => status'[t] \notin {"none", "PENDING"}
         /\ status[t] \in Terminal => status'[t] = status[t]
         /\ status[t] # "none" /\ transfer[t] = "posted" => transfer'[t] = "posted"
         /\ status[t] # "none" /\ transfer[t] = "voided" => transfer'[t] = "voided"
BY DEF Safe, RowsFollow, RowsMove, TransferMoves, StatusMoves, Terminal, Cancellable

LEMMA PaidNext ==
  ASSUME Safe, RowsMove
  PROVE  OutcomesArePaid'
BY DEF Safe, RowsFollow, RowsMove, TransferMoves, StatusMoves, Terminal, Cancellable,
       OutcomesArePaid

(* How far requests get in a step. *)
LEMMA RequestsGo ==
  ASSUME Safe, [Next]_vars, NEW s \in Tasks
  PROVE  \/ rpc'[s] = rpc[s]
         \/ rpc'[s] \notin {"idle", "reserve", "recheck", "commit"}
         \/ rpc'[s] # "idle" /\ rpc[s] \in {"idle", "reserve", "recheck"}
            /\ (rpc'[s] = "reserve" => rpc[s] = "idle")
<1> USE DEF Safe, TypeOK
<1>1. ASSUME NEW t \in Tasks, Request(t) \/ CommitError(t) \/ RequestAbort(t)
      PROVE  \/ rpc'[s] = rpc[s]
             \/ rpc'[s] \notin {"idle", "reserve", "recheck", "commit"}
             \/ rpc'[s] # "idle" /\ rpc[s] \in {"idle", "reserve", "recheck"}
                /\ (rpc'[s] = "reserve" => rpc[s] = "idle")
  BY <1>1 DEF Request, Gate, Reserve, Recheck, Commit, VoidOwn, Count, CacheSeen, CommitError,
              RequestAbort, GoRequest
<1>2. CASE UNCHANGED rpc
  BY <1>2
<1> QED  BY <1>1, <1>2, WhoActs, CancelFrame, WorkerFrame, ReconFrame, RestFrame
         DEF RequestActs, requestVars

LEMMA RowsFollowNext ==
  ASSUME Safe, RowsMove, [Next]_vars
  PROVE  RowsFollow'
BY RequestsGo DEF Safe, RowsFollow, RowsMove, StatusMoves, Cancellable

WorkerKnows(w) ==
  wpc[w] # "idle" =>
    /\ job[w] \in Tasks
    /\ wpc[w] # "start" => status[job[w]] \notin {"none", "PENDING"}
    /\ wpc[w] = "complete" => transfer[job[w]] = "posted"
    /\ wpc[w] = "fail" => transfer[job[w]] = "voided"
    /\ wpc[w] \in {"release", "cache"} => status[job[w]] \in Terminal

LEMMA WorkerKnowsOn ==
  ASSUME Safe, RowsMove, NEW w \in Workers, wpc'[w] = wpc[w], job'[w] = job[w]
  PROVE  WorkerKnows(w)'
<1>1. CASE wpc[w] = "idle"
  BY <1>1 DEF WorkerKnows
<1>2. CASE wpc[w] # "idle"
  <2>1. WorkerKnows(w)
    BY DEF Safe, WorkersKnow, WorkerKnows
  <2>2. job[w] \in Tasks
    BY <1>2, <2>1 DEF WorkerKnows
  <2>3. wpc[w] \in {"complete", "fail"} => status[job[w]] # "none"
    BY <1>2, <2>1 DEF WorkerKnows
  <2> QED  BY <1>2, <2>1, <2>2, <2>3, FactsStay DEF WorkerKnows
<1> QED  BY <1>1, <1>2

LEMMA OwnWork ==
  ASSUME Safe, RowsMove, NEW w \in Workers,
         (\E t \in Tasks : WorkTake(w, t)) \/ Work(w) \/ WorkAbort(w)
  PROVE  WorkerKnows(w)'
<1> USE DEF Safe, TypeOK, WorkerKnows
<1>1. CASE \E t \in Tasks : WorkTake(w, t)
  BY <1>1 DEF WorkTake
<1>2. CASE wpc'[w] = "idle"
  BY <1>2
<1>3. CASE WorkStart(w) /\ wpc'[w] # "idle"
  <2>1. job[w] \in Tasks
    BY <1>3 DEF WorkStart, WorkersKnow
  <2>2. /\ Advance(job[w], {"PENDING"}, "RUNNING", "started")
        /\ wpc'[w] = "mark" /\ UNCHANGED job
    BY <1>3 DEF WorkStart, GoWork, Ack, Leave
  <2> QED  BY <2>1, <2>2 DEF Advance
<1>4. CASE (WorkMark(w) \/ WorkExecute(w) \/ WorkSettle(w)) /\ wpc'[w] # "idle"
  <2>1. job[w] \in Tasks /\ status[job[w]] \notin {"none", "PENDING"}
    BY <1>4 DEF WorkMark, WorkExecute, WorkSettle, WorkersKnow
  <2>2. status'[job[w]] \notin {"none", "PENDING"}
    BY <2>1, FactsStay
  <2>3. CASE WorkMark(w) \/ WorkExecute(w)
    <3>1. wpc'[w] \in {"execute", "post", "void"} /\ UNCHANGED job
      BY <2>3 DEF WorkMark, WorkExecute, GoWork
    <3> QED  BY <2>1, <2>2, <3>1
  <2>4. CASE WorkSettle(w)
    <3>1. /\ UNCHANGED job
          /\ \/ wpc'[w] = "complete" /\ Settle(job[w], "posted")
             \/ wpc'[w] = "fail" /\ Settle(job[w], "voided")
      BY <1>4, <2>4 DEF WorkSettle, GoWork, Requeue, Leave
    <3> QED  BY <2>1, <2>2, <3>1 DEF Settle
  <2> QED  BY <1>4, <2>3, <2>4
<1>5. CASE WorkFinalize(w) /\ wpc'[w] # "idle"
  <2>1. job[w] \in Tasks
    BY <1>5 DEF WorkFinalize, WorkersKnow
  <2>2. /\ Finish(job[w], IF wpc[w] = "complete" THEN "COMPLETED" ELSE "FAILED")
        /\ wpc'[w] = "release" /\ UNCHANGED job
    BY <1>5 DEF WorkFinalize, GoWork, Requeue, Leave
  <2> QED  BY <2>1, <2>2 DEF Finish, Advance, Terminal
<1>6. CASE WorkRelease(w)
  <2>1. job[w] \in Tasks /\ status[job[w]] \in Terminal
    BY <1>6 DEF WorkRelease, WorkersKnow
  <2>2. wpc'[w] = "cache" /\ UNCHANGED <<job, status>>
    BY <1>6 DEF WorkRelease, GoWork, rowVars
  <2> QED  BY <2>1, <2>2 DEF Terminal
<1>7. CASE (WorkCache(w) \/ WorkAbort(w)) /\ wpc'[w] # "idle"
  BY <1>7 DEF WorkCache, WorkAbort, Ack, Requeue, Leave
<1> QED  BY <1>1, <1>2, <1>3, <1>4, <1>5, <1>6, <1>7 DEF Work

LEMMA WorkersKnowNext ==
  ASSUME Safe, RowsMove, [Next]_vars
  PROVE  WorkersKnow'
<1>1. ASSUME NEW v \in Workers PROVE WorkerKnows(v)'
  <2>1. CASE UNCHANGED workVars
    BY <2>1, WorkerKnowsOn DEF workVars
  <2>2. ASSUME NEW w \in Workers, WorkerActs(w) PROVE WorkerKnows(v)'
    BY <2>2, OwnWork, WorkerFrame, WorkerKnowsOn DEF WorkerActs
  <2> QED  BY <2>1, <2>2, WhoActs, RequestFrame, CancelFrame, ReconFrame, RestFrame
<1> QED  BY <1>1 DEF WorkerKnows, WorkersKnow

LEMMA CancelsKnowNext ==
  ASSUME Safe, RowsMove, [Next]_vars
  PROVE  CancelsKnow'
<1> USE DEF Safe, TypeOK
<1> SUFFICES ASSUME NEW d \in Cancels, cpc'[d] \in {"void", "release", "cache"}
             PROVE  status'[CancelOf[d]] = "CANCELLED"
  BY DEF CancelsKnow
<1>1. \A c \in Cancels : CancelOf[c] \in Tasks
  BY ConstantsOK DEF ConstantsOK
<1>2. CASE cpc[d] \in {"void", "release", "cache"}
  BY <1>1, <1>2, FactsStay DEF CancelsKnow, Terminal
<1>3. ASSUME cpc[d] \notin {"void", "release", "cache"}, NEW c \in Cancels,
             CancelRead(c) \/ Cancel(c) \/ CancelVoidError(c) \/ CancelAbort(c)
      PROVE  status'[CancelOf[d]] = "CANCELLED"
  <2>1. c = d /\ CancelTransact(c)
    BY <1>3 DEF CancelRead, Cancel, CancelVoidError, CancelAbort, CancelTransact, CancelVoid,
                CancelRelease, CancelCache, GoCancel
  <2>2. Finish(CancelOf[d], "CANCELLED")
    BY <2>1 DEF CancelTransact, GoCancel
  <2> QED  BY <1>1, <2>2 DEF Finish, Advance
<1>4. CASE UNCHANGED cpc
  BY <1>2, <1>4
<1> QED  BY <1>2, <1>3, <1>4, WhoActs, RequestFrame, WorkerFrame, ReconFrame, RestFrame
         DEF CancelActs, requestVars

LEMMA ReconKnowsNext ==
  ASSUME Safe, RowsMove, [Next]_vars
  PROVE  ReconKnows'
<1> USE DEF Safe, TypeOK
<1>1. ASSUME NEW t \in Tasks, Reconcile(t) PROVE ReconKnows'
  <2>1. /\ xjob' = <<t, Target(t)>> /\ UNCHANGED <<status, transfer>>
        /\ xpc' = "align" /\ status[t] \in Cancellable /\ transfer[t] \in {"posted", "voided"}
    BY <1>1 DEF Reconcile, billVars, rowVars
  <2>2. /\ Target(t) \in Terminal
        /\ Target(t) = "COMPLETED" => transfer[t] = "posted"
        /\ Target(t) = "FAILED" => transfer[t] = "voided"
    BY <2>1 DEF Target, Terminal
  <2> QED  BY <2>1, <2>2 DEF ReconKnows, Cancellable
<1>2. CASE Align /\ xpc' = "release"
  <2>1. Finish(xjob[1], xjob[2]) /\ UNCHANGED xjob
    BY <1>2 DEF Align, Resting
  <2>2. xjob[1] \in Tasks
    BY <1>2 DEF Align, ReconKnows
  <2>3. status'[xjob[1]] = xjob[2] /\ UNCHANGED transfer
    BY <1>2, <2>1, <2>2 DEF Finish, Advance, Align, billVars
  <2> QED  BY <1>2, <2>1, <2>2, <2>3 DEF Align, ReconKnows, Terminal
<1>3. CASE AlignRelease
  <2>1. xpc = "release" /\ xpc' = "cache" /\ UNCHANGED <<xjob, status, transfer>>
    BY <1>3 DEF AlignRelease, billVars, rowVars
  <2> QED  BY <2>1 DEF ReconKnows
<1>4. CASE UNCHANGED reconVars
  <2>1. CASE xpc = "idle"
    BY <1>4, <2>1 DEF ReconKnows, reconVars
  <2>2. CASE xpc # "idle"
    BY <1>4, <2>2, FactsStay DEF ReconKnows, reconVars
  <2> QED  BY <2>1, <2>2
<1>5. CASE xpc' = "idle"
  BY <1>5 DEF ReconKnows
<1>6. ReconActs => \/ \E t \in Tasks : Reconcile(t)
                   \/ Align /\ xpc' = "release"
                   \/ AlignRelease
                   \/ xpc' = "idle"
  BY DEF ReconActs, Align, AlignCache, AlignAbort, Resting
<1> QED  BY <1>1, <1>2, <1>3, <1>4, <1>5, <1>6, WhoActs, RequestFrame, CancelFrame, WorkerFrame,
            RestFrame

-----------------------------------------------------------------------------
(* Types *)

LEMMA AddTypes ==
  ASSUME active \in [Users -> Int], NEW u \in Users, NEW n \in Int, AddActive(u, n)
  PROVE  active' \in [Users -> Int]
BY DEF AddActive

LEMMA RequestTypes ==
  ASSUME TypeOK, UNCHANGED scene, RequestActs
  PROVE  TypeOK'
<1> USE DEF TypeOK, billVars, rowVars, busVars, readVars, workVars, reconVars, faultVars, GoRequest
<1> SUFFICES ASSUME NEW t \in Tasks, Request(t) \/ CommitError(t) \/ RequestAbort(t)
             PROVE  TypeOK'
  BY DEF RequestActs
<1> USE DEF RequestSteps, RequestEnds, Statuses, Cancellable, NoneSeen, Events, Topics
<1>1. CASE Gate(t) \/ Reserve(t) \/ Recheck(t)
  BY <1>1 DEF Gate, Reserve, Recheck
<1>2. ASSUME Insert(t) PROVE status' \in [Tasks -> Statuses] /\ outbox' \subseteq Events
  BY <1>2 DEF Insert, Advance
<1>3. CASE Commit(t)
  BY <1>2, <1>3 DEF Commit
<1>4. CASE CommitError(t)
  <2>1. status' \in [Tasks -> Statuses] /\ outbox' \subseteq Events
    BY <1>2, <1>4 DEF CommitError
  <2>2. astray' \subseteq Tasks /\ faults' \in Nat
    BY <1>4 DEF CommitError, Fault, Misled
  <2>3. /\ rpc' = [rpc EXCEPT ![t] = "giveUp"]
        /\ UNCHANGED <<cpc, billVars, active, busVars, readVars, seen, workVars, reconVars>>
    BY <1>4 DEF CommitError
  <2> QED  BY <2>1, <2>2, <2>3
<1>5. CASE VoidOwn(t)
  BY <1>5 DEF VoidOwn, Settle, Unsettled
<1>6. CASE Count(t)
  <2>1. active' \in [Users -> Int]
    <3>1. UserOf[t] \in Users /\ 1 \in Int
      BY ConstantsOK DEF ConstantsOK
    <3> QED  BY <1>6, <3>1, AddTypes DEF Count
  <2> QED  BY <1>6, <2>1 DEF Count
<1>7. CASE CacheSeen(t)
  BY <1>7 DEF CacheSeen, CacheStatus
<1>8. CASE RequestAbort(t)
  BY <1>8 DEF RequestAbort, FaultAt, Fault, Misled
<1> QED  BY <1>1, <1>3, <1>4, <1>5, <1>6, <1>7, <1>8 DEF Request

LEMMA CancelTypes ==
  ASSUME TypeOK, UNCHANGED scene, CancelActs
  PROVE  TypeOK'
<1> SUFFICES ASSUME NEW c \in Cancels,
                    CancelRead(c) \/ Cancel(c) \/ CancelVoidError(c) \/ CancelAbort(c)
             PROVE  TypeOK'
  BY DEF CancelActs
<1> USE DEF TypeOK, billVars, rowVars, busVars, readVars, workVars, reconVars, faultVars, GoCancel,
            CancelSteps, Statuses, Cancellable, Terminal
<1>1. CancelOf[c] \in Tasks
  BY ConstantsOK DEF ConstantsOK
<1>2. CASE CancelRead(c)
  BY <1>2 DEF CancelRead
<1>3. CASE CancelTransact(c)
  <2>1. status' \in [Tasks -> Statuses] /\ outbox' \subseteq Events
    BY <1>1, <1>3 DEF CancelTransact, Finish, Advance, Events, Topics
  <2>2. /\ cpc' \in [Cancels -> {"idle", "ended"} \cup CancelSteps]
        /\ UNCHANGED <<scene, billVars, active, busVars, readVars, rpc, seen, workVars, reconVars,
                       faultVars>>
    BY <1>3 DEF CancelTransact
  <2> QED  BY <2>1, <2>2
<1>4. CASE CancelVoid(c)
  BY <1>4 DEF CancelVoid, Settle, Unsettled
<1>5. CASE CancelVoidError(c)
  BY <1>5 DEF CancelVoidError, Fault
<1>6. CASE CancelRelease(c)
  <2>1. active' \in [Users -> Int]
    <3>1. UserOf[CancelOf[c]] \in Users /\ -1 \in Int
      BY <1>1, ConstantsOK DEF ConstantsOK
    <3> QED  BY <1>6, <3>1, AddTypes DEF CancelRelease
  <2> QED  BY <1>6, <2>1 DEF CancelRelease
<1>7. CASE CancelCache(c)
  BY <1>7 DEF CancelCache, CacheStatus
<1>8. CASE CancelAbort(c)
  BY <1>1, <1>8 DEF CancelAbort, FaultAt, Fault, Misled
<1> QED  BY <1>2, <1>3, <1>4, <1>5, <1>6, <1>7, <1>8 DEF Cancel

LEMMA WorkTypes ==
  ASSUME TypeOK, WorkersKnow, UNCHANGED scene, NEW w \in Workers, WorkerActs(w)
  PROVE  TypeOK'
<1> USE DEF TypeOK, billVars, rowVars, busVars, readVars, requestVars, workVars, reconVars,
            faultVars, Statuses, Cancellable, Terminal, WorkSteps, GoWork
<1>1. ASSUME NEW t \in Tasks, WorkTake(w, t) PROVE TypeOK'
  BY <1>1 DEF WorkTake
<1>2. CASE wpc[w] # "idle"
  <2>1. job[w] \in Tasks
    BY <1>2 DEF WorkersKnow
  <2>2. Requeue(w) => /\ wpc' \in [Workers -> {"idle"} \cup WorkSteps]
                      /\ job' \in [Workers -> Tasks \cup {NoTask}]
                      /\ queue' \in [Tasks -> Nat]
                      /\ UNCHANGED <<log, sent>>
    BY <2>1 DEF Requeue, Leave
  <2>3. Ack(w) => /\ wpc' \in [Workers -> {"idle"} \cup WorkSteps]
                  /\ job' \in [Workers -> Tasks \cup {NoTask}]
                  /\ UNCHANGED busVars
    BY DEF Ack, Leave
  <2>4. CASE WorkStart(w)
    <3>1. status' \in [Tasks -> Statuses] /\ outbox' \subseteq Events
      BY <2>1, <2>4 DEF WorkStart, Advance, Events, Topics
    <3>2. /\ wpc' \in [Workers -> {"idle"} \cup WorkSteps]
          /\ job' \in [Workers -> Tasks \cup {NoTask}]
          /\ UNCHANGED <<scene, billVars, active, busVars, readVars, requestVars, reconVars,
                         faultVars>>
      BY <2>3, <2>4 DEF WorkStart
    <3> QED  BY <3>1, <3>2
  <2>5. CASE WorkMark(w)
    BY <2>5 DEF WorkMark, CacheStatus
  <2>6. CASE WorkExecute(w)
    BY <2>6 DEF WorkExecute
  <2>7. CASE WorkSettle(w)
    <3>1. transfer' \in [Tasks -> {"none", "pending", "posted", "voided", "expired"}]
          /\ UNCHANGED granted
      BY <2>1, <2>7 DEF WorkSettle, Settle, Unsettled
    <3>2. /\ wpc' \in [Workers -> {"idle"} \cup WorkSteps]
          /\ job' \in [Workers -> Tasks \cup {NoTask}]
          /\ queue' \in [Tasks -> Nat]
          /\ UNCHANGED <<log, sent>>
      BY <2>2, <2>7 DEF WorkSettle
    <3>3. UNCHANGED <<scene, active, rowVars, readVars, requestVars, reconVars, faultVars>>
      BY <2>7 DEF WorkSettle
    <3> QED  BY <3>1, <3>2, <3>3
  <2>8. CASE WorkFinalize(w)
    <3>1. status' \in [Tasks -> Statuses] /\ outbox' \subseteq Events
      BY <2>1, <2>8 DEF WorkFinalize, Finish, Advance, Events, Topics
    <3>2. /\ wpc' \in [Workers -> {"idle"} \cup WorkSteps]
          /\ job' \in [Workers -> Tasks \cup {NoTask}]
          /\ queue' \in [Tasks -> Nat]
          /\ UNCHANGED <<log, sent>>
      BY <2>2, <2>8 DEF WorkFinalize
    <3>3. UNCHANGED <<scene, billVars, active, readVars, requestVars, reconVars, faultVars>>
      BY <2>8 DEF WorkFinalize
    <3> QED  BY <3>1, <3>2, <3>3
  <2>9. CASE WorkRelease(w)
    <3>1. UserOf[job[w]] \in Users /\ -1 \in Int
      BY <2>1, ConstantsOK DEF ConstantsOK
    <3>2. active' \in [Users -> Int]
      BY <2>9, <3>1, AddTypes DEF WorkRelease
    <3> QED  BY <2>9, <3>2 DEF WorkRelease
  <2>10. CASE WorkCache(w)
    BY <2>1, <2>3, <2>10 DEF WorkCache, CacheStatus
  <2>11. CASE WorkAbort(w)
    <3>1. astray' \subseteq Tasks /\ faults' \in Nat
      BY <2>1, <2>11 DEF WorkAbort, FaultAt, Fault, Misled
    <3> QED  BY <2>2, <2>11, <3>1 DEF WorkAbort
  <2> QED  BY <1>2, <2>4, <2>5, <2>6, <2>7, <2>8, <2>9, <2>10, <2>11 DEF WorkerActs, Work, WorkTake
<1> QED  BY <1>1, <1>2 DEF WorkerActs, Work, WorkAbort, WorkStart, WorkMark, WorkExecute,
                           WorkSettle, WorkFinalize, WorkRelease, WorkCache

LEMMA ReconTypes ==
  ASSUME TypeOK, ReconKnows, UNCHANGED scene, ReconActs
  PROVE  TypeOK'
<1> USE DEF TypeOK, billVars, rowVars, busVars, readVars, requestVars, workVars, reconVars,
            faultVars, Statuses, Cancellable, Terminal
<1>1. xpc' = "idle" /\ xjob' = NoneSeen => xjob' \in (Tasks \cup {NoTask}) \X Statuses
  BY DEF NoneSeen
<1>2. ASSUME NEW t \in Tasks, Reconcile(t) PROVE TypeOK'
  <2>1. Target(t) \in Statuses
    BY DEF Target
  <2> QED  BY <1>2, <2>1 DEF Reconcile
<1>3. CASE xpc # "idle"
  <2>1. xjob[1] \in Tasks /\ xjob[2] \in Statuses
    BY <1>3 DEF ReconKnows
  <2>2. CASE Align
    <3>1. status' \in [Tasks -> Statuses] /\ outbox' \subseteq Events
      BY <2>1, <2>2 DEF Align, Finish, Advance, Events, Topics
    <3>4. view' \in [Tasks -> Statuses]
      BY <2>1, <2>2 DEF Align
    <3>2. xpc' \in {"idle", "release"} /\ xjob' \in (Tasks \cup {NoTask}) \X Statuses
      BY <1>1, <2>2 DEF Align, Resting
    <3>3. UNCHANGED <<scene, billVars, active, busVars, cache, requestVars, workVars, faultVars>>
      BY <2>2 DEF Align
    <3> QED  BY <3>1, <3>2, <3>3, <3>4
  <2>3. CASE AlignRelease
    <3>1. UserOf[xjob[1]] \in Users /\ -1 \in Int
      BY <2>1, ConstantsOK DEF ConstantsOK
    <3>2. active' \in [Users -> Int]
      BY <2>3, <3>1, AddTypes DEF AlignRelease
    <3>3. astray' \subseteq Tasks
      BY <2>1, <2>3 DEF AlignRelease
    <3> QED  BY <2>3, <3>2, <3>3 DEF AlignRelease
  <2>4. CASE AlignCache
    BY <1>1, <2>1, <2>4 DEF AlignCache, CacheStatus, Resting
  <2>5. CASE AlignAbort
    <3>1. astray' \subseteq Tasks /\ faults' \in Nat
      BY <2>1, <2>5 DEF AlignAbort, FaultAt, Fault, Misled
    <3> QED  BY <1>1, <2>5, <3>1 DEF AlignAbort, Resting
  <2>6. ReconActs => Align \/ AlignRelease \/ AlignCache \/ AlignAbort
    BY <1>3 DEF ReconActs, Reconcile
  <2> QED  BY <2>2, <2>3, <2>4, <2>5, <2>6
<1> QED  BY <1>2, <1>3 DEF ReconActs, Align, AlignRelease, AlignCache, AlignAbort

LEMMA RestTypes ==
  ASSUME TypeOK, UNCHANGED scene, RestActs
  PROVE  TypeOK'
<1> USE DEF TypeOK, vars, billVars, rowVars, busVars, readVars, requestVars, workVars, reconVars,
            faultVars
<1>1. ASSUME NEW t \in Tasks, TimeOut(t) PROVE TypeOK'
  BY <1>1 DEF TimeOut, Settle
<1>2. ASSUME NEW t \in Tasks, Dispatch(t) PROVE TypeOK'
  <2>1. queue' \in [Tasks -> Nat] /\ sent' \in [Tasks -> Nat]
    <3>1. ASSUME NEW f \in [Tasks -> Nat] PROVE [f EXCEPT ![t] = @ + 1] \in [Tasks -> Nat]
      OBVIOUS
    <3>2. /\ queue' = queue \/ queue' = [queue EXCEPT ![t] = @ + 1]
          /\ sent' = sent \/ sent' = [sent EXCEPT ![t] = @ + 1]
      BY <1>2 DEF Dispatch
    <3> QED  BY <3>1, <3>2
  <2>2. astray' \subseteq Tasks /\ faults' \in Nat
    BY <1>2 DEF Dispatch, Fault
  <2>3. UNCHANGED <<scene, billVars, active, rowVars, log, readVars, requestVars, workVars,
                    reconVars>>
    BY <1>2 DEF Dispatch
  <2> QED  BY <2>1, <2>2, <2>3
<1>3. ASSUME NEW i \in Topups, Topup(i) PROVE TypeOK'
  BY <1>3 DEF Topup
<1>4. CASE Relay
  <2>1. log' \in [Events -> Nat]
    BY <1>4 DEF Relay
  <2>2. outbox' \subseteq Events /\ astray' \subseteq Tasks /\ faults' \in Nat
    BY <1>4 DEF Relay, Fault
  <2> QED  BY <1>4, <2>1, <2>2 DEF Relay
<1>5. CASE UNCHANGED vars
  BY <1>5
<1> QED  BY <1>1, <1>2, <1>3, <1>4, <1>5 DEF RestActs

-----------------------------------------------------------------------------
(* The invariant *)

LEMMA InitSafe == Init => Safe
<1> SUFFICES ASSUME Init PROVE Safe
  OBVIOUS
<1> USE DEF Init, NoneSeen
<1>1. TypeOK
  BY DEF TypeOK, Statuses
<1> QED  BY <1>1 DEF Safe, RowsFollow, WorkersKnow, CancelsKnow, ReconKnows, OutcomesArePaid

LEMMA NextSafe ==
  ASSUME Safe, [Next]_vars
  PROVE  Safe'
<1>1. RowsMove
  BY NextMoves
<1>2. UNCHANGED scene
  BY DEF Next, vars
<1>3. TypeOK'
  BY <1>2, WhoActs, RequestTypes, CancelTypes, WorkTypes, ReconTypes, RestTypes DEF Safe
<1> QED  BY <1>1, <1>3, PaidNext, RowsFollowNext, WorkersKnowNext, CancelsKnowNext,
            ReconKnowsNext DEF Safe

(* What a worker, a cancel and the reconciler last found out about their task *)
(* holds until they act on it, whoever else acts in between.                  *)
THEOREM AlwaysSafe == Spec => []Safe
BY InitSafe, NextSafe, PTL DEF Spec

(* Every variable keeps its type, whatever the requests and the failures.    *)
THEOREM TypeCorrect == Spec => []TypeOK
<1>1. Safe => TypeOK
  BY DEF Safe
<1> QED  BY <1>1, AlwaysSafe, PTL

(* What is reported COMPLETED has been charged and what is reported FAILED   *)
(* has not, whoever of workers, cancels, reconciler and timeout settles the  *)
(* transfer, ends the row and crashes between the two.                       *)
THEOREM OutcomesAlwaysPaid == Spec => []OutcomesArePaid
<1>1. Safe => OutcomesArePaid
  BY DEF Safe
<1> QED  BY <1>1, AlwaysSafe, PTL

-----------------------------------------------------------------------------
(* Who gives slots back *)

CancelReleases(c) == cpc[c] \in {"void", "release"}
WorkerReleases(w) == wpc[w] = "release"
ReconReleases == xpc = "release"

(* A slot is given back by one actor only. *)
OneReleases ==
  /\ \A c, d \in Cancels :
       CancelReleases(c) /\ CancelReleases(d) /\ CancelOf[c] = CancelOf[d] => c = d
  /\ \A v, w \in Workers : WorkerReleases(v) /\ WorkerReleases(w) /\ job[v] = job[w] => v = w
  /\ \A c \in Cancels, w \in Workers :
       CancelReleases(c) /\ WorkerReleases(w) => CancelOf[c] # job[w]
  /\ ReconReleases => /\ \A c \in Cancels : CancelReleases(c) => CancelOf[c] # xjob[1]
                      /\ \A w \in Workers : WorkerReleases(w) => job[w] # xjob[1]

Released(t) ==
  \/ \E c \in Cancels : CancelOf[c] = t /\ CancelReleases(c)
  \/ \E w \in Workers : job[w] = t /\ WorkerReleases(w)
  \/ xjob[1] = t /\ ReconReleases

LEMMA ReleasedEnded ==
  ASSUME Safe, NEW t \in Tasks, Released(t)
  PROVE  status[t] \in Terminal
<1> USE DEF Safe
<1>1. ASSUME NEW c \in Cancels, CancelOf[c] = t, CancelReleases(c) PROVE status[t] \in Terminal
  BY <1>1 DEF CancelReleases, CancelsKnow, Terminal
<1>2. ASSUME NEW w \in Workers, job[w] = t, WorkerReleases(w) PROVE status[t] \in Terminal
  BY <1>2 DEF WorkerReleases, WorkersKnow
<1>3. CASE xjob[1] = t /\ ReconReleases
  BY <1>3 DEF ReconReleases, ReconKnows
<1> QED  BY <1>1, <1>2, <1>3 DEF Released

(* Who has given back or is not about to, does not begin to. *)
Quieter ==
  /\ \A c \in Cancels : CancelReleases(c)' => CancelReleases(c)
  /\ \A w \in Workers : WorkerReleases(w)' => WorkerReleases(w) /\ job'[w] = job[w]
  /\ ReconReleases' => ReconReleases /\ xjob' = xjob

LEMMA QuieterOne ==
  ASSUME OneReleases, Quieter
  PROVE  OneReleases'
BY DEF OneReleases, Quieter

(* One cancel, worker or the reconciler ends a task and begins to release it. *)
CancelEnds(c) ==
  /\ Finish(CancelOf[c], "CANCELLED") /\ CancelReleases(c)'
  /\ \A d \in Cancels \ {c} : CancelReleases(d)' <=> CancelReleases(d)
  /\ UNCHANGED <<rpc, workVars, reconVars, active, astray>>

WorkerEnds(w) ==
  /\ \E st \in Terminal : Finish(job[w], st)
  /\ WorkerReleases(w)' /\ job'[w] = job[w]
  /\ \A v \in Workers \ {w} : wpc'[v] = wpc[v] /\ job'[v] = job[v]
  /\ UNCHANGED <<rpc, cpc, reconVars, active, astray>>

ReconEnds ==
  /\ \E st \in Terminal : Finish(xjob[1], st)
  /\ ReconReleases' /\ xjob' = xjob
  /\ UNCHANGED <<rpc, cpc, workVars, active, astray>>

LEMMA EndsOne ==
  ASSUME Safe, OneReleases,
         \/ \E c \in Cancels : CancelEnds(c)
         \/ \E w \in Workers : WorkerEnds(w) /\ job[w] \in Tasks
         \/ ReconEnds /\ xjob[1] \in Tasks
  PROVE  OneReleases'
<1>1. ASSUME NEW t \in Tasks, NEW st, Finish(t, st) PROVE ~Released(t)
  <2>1. status[t] \notin Terminal
    BY <1>1 DEF Finish, Advance, Cancellable, Terminal
  <2> QED  BY <2>1, ReleasedEnded
<1>2. ASSUME NEW c \in Cancels, CancelEnds(c) PROVE OneReleases'
  <2>1. CancelOf[c] \in Tasks
    BY ConstantsOK DEF ConstantsOK
  <2>2. ~Released(CancelOf[c])
    BY <1>1, <1>2, <2>1 DEF CancelEnds
  <2>3. /\ \A w \in Workers : WorkerReleases(w)' <=> WorkerReleases(w)
        /\ ReconReleases' <=> ReconReleases
        /\ UNCHANGED <<job, xjob>>
    BY <1>2 DEF CancelEnds, WorkerReleases, ReconReleases, workVars, reconVars
  <2> QED  BY <1>2, <2>2, <2>3 DEF CancelEnds, OneReleases, Released
<1>3. ASSUME NEW w \in Workers, WorkerEnds(w), job[w] \in Tasks PROVE OneReleases'
  <2>1. ~Released(job[w])
    BY <1>1, <1>3 DEF WorkerEnds
  <2>2. /\ \A v \in Workers \ {w} : WorkerReleases(v)' <=> WorkerReleases(v)
        /\ \A v \in Workers : job'[v] = job[v]
        /\ \A c \in Cancels : CancelReleases(c)' <=> CancelReleases(c)
        /\ ReconReleases' <=> ReconReleases
        /\ UNCHANGED xjob
    BY <1>3 DEF WorkerEnds, WorkerReleases, CancelReleases, ReconReleases, reconVars
  <2> QED  BY <2>1, <2>2 DEF OneReleases, Released
<1>4. ASSUME ReconEnds, xjob[1] \in Tasks PROVE OneReleases'
  <2>1. ~Released(xjob[1])
    BY <1>1, <1>4 DEF ReconEnds
  <2>2. /\ \A v \in Workers : WorkerReleases(v)' <=> WorkerReleases(v)
        /\ \A c \in Cancels : CancelReleases(c)' <=> CancelReleases(c)
        /\ UNCHANGED <<job, xjob>>
    BY <1>4 DEF ReconEnds, WorkerReleases, CancelReleases, workVars
  <2> QED  BY <2>1, <2>2 DEF OneReleases, Released
<1> QED  BY <1>2, <1>3, <1>4

-----------------------------------------------------------------------------
(* What a step can do to the slots *)

SameSlot(t) ==
  /\ status'[t] \in Cancellable <=> status[t] \in Cancellable
  /\ rpc'[t] = "count" <=> rpc[t] = "count"
  /\ Released(t)' <=> Released(t)

Bit(b) == IF b THEN 1 ELSE 0

(* The counter of t's user moves with what becomes of t. *)
Balanced(t) ==
  active'[UserOf[t]] + Bit(rpc'[t] = "count") + Bit(status[t] \in Cancellable) + Bit(Released(t))
  = active[UserOf[t]] + Bit(rpc[t] = "count") + Bit(status'[t] \in Cancellable) + Bit(Released(t)')

Moves(t) ==
  /\ \A s \in Tasks \ {t} : SameSlot(s)
  /\ \A u \in Users \ {UserOf[t]} : active'[u] = active[u]
  /\ t \in astray' \/ Balanced(t)

KeepsSlots == (\A t \in Tasks : SameSlot(t)) /\ UNCHANGED active

SlotEffect == astray \subseteq astray' /\ (KeepsSlots \/ \E t \in Tasks : Moves(t))

LEMMA Shift ==
  ASSUME NEW S, IsFiniteSet(S), NEW T, IsFiniteSet(T), NEW x, S \ {x} = T \ {x}
  PROVE  Cardinality(T) + Bit(x \in S) = Cardinality(S) + Bit(x \in T)
<1>1. /\ Cardinality(S \ {x}) = IF x \in S THEN Cardinality(S) - 1 ELSE Cardinality(S)
      /\ Cardinality(T \ {x}) = IF x \in T THEN Cardinality(T) - 1 ELSE Cardinality(T)
  BY FS_RemoveElement
<1>2. Cardinality(S) \in Nat /\ Cardinality(T) \in Nat
  BY FS_CardinalityType
<1> QED  BY <1>1, <1>2 DEF Bit

LEMMA SlotSets ==
  ASSUME NEW u \in Users
  PROVE  /\ IsFiniteSet(Open(u)) /\ IsFiniteSet(Counting(u)) /\ IsFiniteSet(Releasing(u))
         /\ IsFiniteSet(Open(u)') /\ IsFiniteSet(Counting(u)') /\ IsFiniteSet(Releasing(u)')
         /\ Releasing(u) = {t \in Tasks : UserOf[t] = u /\ Released(t)}
         /\ Releasing(u)' = {t \in Tasks : UserOf[t] = u /\ Released(t)'}
<1>1. IsFiniteSet(Tasks)
  BY ConstantsOK DEF ConstantsOK
<1>2. /\ Open(u) \subseteq Tasks /\ Counting(u) \subseteq Tasks /\ Releasing(u) \subseteq Tasks
      /\ Open(u)' \subseteq Tasks /\ Counting(u)' \subseteq Tasks /\ Releasing(u)' \subseteq Tasks
  BY DEF Open, Counting, Releasing
<1>3. /\ Releasing(u) = {t \in Tasks : UserOf[t] = u /\ Released(t)}
      /\ Releasing(u)' = {t \in Tasks : UserOf[t] = u /\ Released(t)'}
  BY DEF Releasing, Released, CancelReleases, WorkerReleases, ReconReleases
<1> QED  BY <1>1, <1>2, <1>3, FS_Subset

LEMMA EffectAccounts ==
  ASSUME TypeOK, active' \in [Users -> Int], SlotsAccounted, SlotEffect
  PROVE  SlotsAccounted'
<1> SUFFICES ASSUME NEW u \in Users, ~(\E t \in astray' : UserOf[t] = u)
             PROVE  active'[u] + Cardinality(Counting(u)')
                    = Cardinality(Open(u)') + Cardinality(Releasing(u)')
  BY DEF SlotsAccounted
<1>1. active[u] + Cardinality(Counting(u)) = Cardinality(Open(u)) + Cardinality(Releasing(u))
  BY DEF SlotsAccounted, SlotEffect
<1>2. CASE \A t \in Tasks : UserOf[t] = u => SameSlot(t)
  <2>1. Open(u)' = Open(u)
    BY <1>2 DEF Open, SameSlot
  <2>2. Counting(u)' = Counting(u)
    BY <1>2 DEF Counting, SameSlot
  <2>3. Releasing(u)' = Releasing(u)
    BY <1>2, SlotSets DEF SameSlot
  <2>4. CASE active'[u] = active[u]
    BY <1>1, <2>1, <2>2, <2>3, <2>4
  <2>5. ASSUME NEW t \in Tasks, Moves(t), UserOf[t] = u
        PROVE  active'[u] = active[u]
    <3>1. Balanced(t) /\ SameSlot(t)
      BY <1>2, <2>5 DEF Moves
    <3> QED  BY <2>5, <3>1 DEF Balanced, SameSlot, Bit, TypeOK
  <2> QED  BY <2>4, <2>5 DEF SlotEffect, KeepsSlots, Moves
<1>3. ASSUME NEW t \in Tasks, Moves(t), UserOf[t] = u
      PROVE  active'[u] + Cardinality(Counting(u)')
             = Cardinality(Open(u)') + Cardinality(Releasing(u)')
  <2>1. Balanced(t)
    BY <1>3 DEF Moves
  <2>2. /\ Open(u) \ {t} = Open(u)' \ {t}
        /\ t \in Open(u) <=> status[t] \in Cancellable
        /\ t \in Open(u)' <=> status'[t] \in Cancellable
    BY <1>3 DEF Open, Moves, SameSlot
  <2>3. /\ Counting(u) \ {t} = Counting(u)' \ {t}
        /\ t \in Counting(u) <=> rpc[t] = "count"
        /\ t \in Counting(u)' <=> rpc'[t] = "count"
    BY <1>3 DEF Counting, Moves, SameSlot
  <2>4. /\ Releasing(u) \ {t} = Releasing(u)' \ {t}
        /\ t \in Releasing(u) <=> Released(t)
        /\ t \in Releasing(u)' <=> Released(t)'
    BY <1>3, SlotSets DEF Moves, SameSlot
  <2>5. /\ Cardinality(Open(u)') + Bit(t \in Open(u)) = Cardinality(Open(u)) + Bit(t \in Open(u)')
        /\ Cardinality(Counting(u)') + Bit(t \in Counting(u))
           = Cardinality(Counting(u)) + Bit(t \in Counting(u)')
        /\ Cardinality(Releasing(u)') + Bit(t \in Releasing(u))
           = Cardinality(Releasing(u)) + Bit(t \in Releasing(u)')
    <3> HIDE DEF Bit, Open, Counting, Releasing
    <3> QED  BY <2>2, <2>3, <2>4, SlotSets, Shift
  <2>6. /\ Cardinality(Open(u)) \in Nat /\ Cardinality(Open(u)') \in Nat
        /\ Cardinality(Counting(u)) \in Nat /\ Cardinality(Counting(u)') \in Nat
        /\ Cardinality(Releasing(u)) \in Nat /\ Cardinality(Releasing(u)') \in Nat
        /\ active[u] \in Int /\ active'[u] \in Int
    BY SlotSets, FS_CardinalityType DEF TypeOK
  <2> QED  BY <1>1, <1>3, <2>1, <2>2, <2>3, <2>4, <2>5, <2>6 DEF Balanced, Bit
<1>4. CASE KeepsSlots
  BY <1>2, <1>4 DEF KeepsSlots
<1>5. ASSUME NEW t \in Tasks, Moves(t), UserOf[t] # u
      PROVE  \A s \in Tasks : UserOf[s] = u => SameSlot(s)
  BY <1>5 DEF Moves
<1> QED  BY <1>2, <1>3, <1>4, <1>5 DEF SlotEffect

LEMMA SameReleased ==
  ASSUME \A c \in Cancels : CancelReleases(c)' <=> CancelReleases(c),
         \A w \in Workers : /\ WorkerReleases(w)' <=> WorkerReleases(w)
                            /\ WorkerReleases(w) => job'[w] = job[w],
         ReconReleases' <=> ReconReleases,
         ReconReleases => xjob' = xjob
  PROVE  Quieter /\ \A t \in Tasks : Released(t)' <=> Released(t)
BY DEF Quieter, Released

LEMMA StillReleased ==
  ASSUME UNCHANGED <<cpc, workVars, reconVars>>
  PROVE  Quieter /\ \A t \in Tasks : Released(t)' <=> Released(t)
BY DEF Quieter, Released, CancelReleases, WorkerReleases, ReconReleases, workVars, reconVars

LEMMA RequestSlots ==
  ASSUME Safe, RequestActs
  PROVE  SlotEffect /\ Quieter
<1> USE DEF Safe, TypeOK
<1>1. Quieter /\ \A s \in Tasks : Released(s)' <=> Released(s)
  BY RequestFrame, StillReleased
<1> SUFFICES ASSUME NEW t \in Tasks, Request(t) \/ CommitError(t) \/ RequestAbort(t)
             PROVE  SlotEffect
  BY <1>1 DEF RequestActs
<1>2. UserOf[t] \in Users
  BY ConstantsOK DEF ConstantsOK
<1>3. \A s \in Tasks \ {t} : rpc'[s] = rpc[s]
  BY DEF Request, Gate, Reserve, Recheck, Commit, VoidOwn, Count, CacheSeen, CommitError,
         RequestAbort, GoRequest
<1>4. CASE Insert(t)
  <2>1. /\ \A s \in Tasks \ {t} : status'[s] = status[s]
        /\ status[t] \notin Cancellable /\ status'[t] \in Cancellable
    BY <1>4 DEF Insert, Advance, Cancellable
  <2>2. \A s \in Tasks \ {t} : SameSlot(s)
    BY <1>1, <1>3, <2>1 DEF SameSlot
  <2>3. CASE Commit(t)
    <3>1. rpc[t] # "count" /\ rpc'[t] = "count" /\ UNCHANGED <<active, astray>>
      BY <1>4, <2>3 DEF Commit, GoRequest, Insert, faultVars
    <3>2. Balanced(t)
      <4>1. Bit(Released(t)') = Bit(Released(t)) /\ Bit(Released(t)) \in Int
        BY <1>1 DEF Bit
      <4> QED  BY <1>2, <2>1, <3>1, <4>1 DEF Balanced, Bit
    <3> QED  BY <2>2, <3>1, <3>2 DEF SlotEffect, Moves
  <2>4. CASE ~Commit(t)
    <3>1. CommitError(t)
      BY <1>4, <2>1, <2>4
      DEF Request, Gate, Reserve, Recheck, VoidOwn, Count, CacheSeen, RequestAbort, rowVars
    <3>2. UNCHANGED active /\ astray \subseteq astray' /\ t \in astray'
      BY <1>4, <2>1, <3>1 DEF CommitError, Misled, rowVars
    <3> QED  BY <2>2, <3>2 DEF SlotEffect, Moves
  <2> QED  BY <2>3, <2>4
<1>5. CASE Count(t)
  <2>1. /\ rpc[t] = "count" /\ rpc'[t] = "cache" /\ UNCHANGED <<status, astray>>
        /\ active' = [active EXCEPT ![UserOf[t]] = @ + 1]
    BY <1>5 DEF Count, GoRequest, AddActive, rowVars, faultVars
  <2>2. \A s \in Tasks \ {t} : SameSlot(s)
    BY <1>1, <1>3, <2>1 DEF SameSlot
  <2>3. Balanced(t)
    <3>1. /\ Bit(Released(t)') = Bit(Released(t)) /\ Bit(Released(t)) \in Int
          /\ Bit(status'[t] \in Cancellable) = Bit(status[t] \in Cancellable)
          /\ Bit(status[t] \in Cancellable) \in Int
      BY <1>1, <2>1 DEF Bit
    <3>2. active'[UserOf[t]] = active[UserOf[t]] + 1 /\ active[UserOf[t]] \in Int
      BY <1>2, <2>1
    <3>3. Bit(rpc'[t] = "count") = 0 /\ Bit(rpc[t] = "count") = 1
      BY <2>1 DEF Bit
    <3> QED  BY <3>1, <3>2, <3>3 DEF Balanced
  <2> QED  BY <2>1, <2>2, <2>3 DEF SlotEffect, Moves
<1>6. CASE ~Insert(t) /\ ~Count(t) /\ ~RequestAbort(t)
  <2>1. UNCHANGED <<status, active, astray>> /\ rpc[t] # "count" /\ rpc'[t] # "count"
    BY <1>6 DEF Request, Gate, Reserve, Recheck, Commit, VoidOwn, CacheSeen, CommitError,
                GoRequest, rowVars, faultVars, Fault
  <2> QED  BY <1>1, <1>3, <2>1 DEF SlotEffect, KeepsSlots, SameSlot
<1>7. CASE RequestAbort(t)
  <2>1. UNCHANGED <<status, active>> /\ astray \subseteq astray' /\ rpc'[t] # "count"
    BY <1>7 DEF RequestAbort, GoRequest, rowVars, FaultAt, Fault, Misled
  <2>2. \A s \in Tasks \ {t} : SameSlot(s)
    BY <1>1, <1>3, <2>1 DEF SameSlot
  <2>3. CASE rpc[t] = "count"
    <3>1. t \in astray'
      BY <1>7, <2>3 DEF RequestAbort, FaultAt, Misled
    <3> QED  BY <2>1, <2>2, <3>1 DEF SlotEffect, Moves
  <2>4. CASE rpc[t] # "count"
    BY <1>1, <2>1, <2>2, <2>4 DEF SlotEffect, KeepsSlots, SameSlot
  <2> QED  BY <2>3, <2>4
<1> QED  BY <1>4, <1>5, <1>6, <1>7

LEMMA RestSlots ==
  ASSUME Safe, RestActs
  PROVE  SlotEffect /\ Quieter
<1>1. Quieter /\ \A s \in Tasks : Released(s)' <=> Released(s)
  BY RestFrame, StillReleased DEF requestVars
<1>2. UNCHANGED <<status, active, rpc>> /\ astray \subseteq astray'
  BY DEF RestActs, TimeOut, Dispatch, Topup, Relay, Fault, vars, rowVars, requestVars, faultVars
<1> QED  BY <1>1, <1>2 DEF SlotEffect, KeepsSlots, SameSlot

(* The end of a task, and of its release, are balanced. *)
LEMMA EndBalances ==
  ASSUME Safe, NEW t \in Tasks, NEW st \in Terminal, Finish(t, st),
         UNCHANGED <<rpc, active, astray>>,
         \A s \in Tasks \ {t} : Released(s)' <=> Released(s),
         Released(t)'
  PROVE  SlotEffect
<1> USE DEF Safe, TypeOK
<1>1. UserOf[t] \in Users
  BY ConstantsOK DEF ConstantsOK
<1>2. /\ status[t] \in Cancellable /\ status'[t] \notin Cancellable
      /\ \A s \in Tasks \ {t} : status'[s] = status[s]
  BY DEF Finish, Advance, Cancellable, Terminal
<1>3. ~Released(t)
  BY <1>2, ReleasedEnded DEF Cancellable, Terminal
<1>4. Balanced(t)
  <2>1. /\ Bit(status[t] \in Cancellable) = 1 /\ Bit(status'[t] \in Cancellable) = 0
        /\ Bit(Released(t)) = 0 /\ Bit(Released(t)') = 1
        /\ Bit(rpc'[t] = "count") = Bit(rpc[t] = "count") /\ Bit(rpc[t] = "count") \in Int
    BY <1>2, <1>3 DEF Bit
  <2>2. active'[UserOf[t]] = active[UserOf[t]] /\ active[UserOf[t]] \in Int
    BY <1>1
  <2> QED  BY <2>1, <2>2 DEF Balanced, Bit
<1>5. \A s \in Tasks \ {t} : SameSlot(s)
  BY <1>2 DEF SameSlot
<1>6. Moves(t)
  BY <1>4, <1>5 DEF Moves
<1> QED  BY <1>6 DEF SlotEffect

LEMMA ReleaseBalances ==
  ASSUME Safe, NEW t \in Tasks,
         active' = [active EXCEPT ![UserOf[t]] = @ - 1],
         UNCHANGED <<status, rpc, astray>>,
         \A s \in Tasks \ {t} : Released(s)' <=> Released(s),
         Released(t), ~Released(t)'
  PROVE  SlotEffect
<1> USE DEF Safe, TypeOK
<1>1. UserOf[t] \in Users
  BY ConstantsOK DEF ConstantsOK
<1>2. Balanced(t)
  <2>1. active'[UserOf[t]] = active[UserOf[t]] - 1 /\ active[UserOf[t]] \in Int
    BY <1>1
  <2>2. /\ Bit(Released(t)) = 1 /\ Bit(Released(t)') = 0
    BY DEF Bit
  <2>3. rpc'[t] = rpc[t] /\ status'[t] = status[t]
    OBVIOUS
  <2> HIDE DEF Safe, TypeOK
  <2> QED  BY <2>1, <2>2, <2>3 DEF Balanced, Bit
<1>3. \A s \in Tasks \ {t} : SameSlot(s)
  BY DEF SameSlot
<1>4. \A u \in Users \ {UserOf[t]} : active'[u] = active[u]
  OBVIOUS
<1>5. Moves(t)
  BY <1>2, <1>3, <1>4 DEF Moves
<1> QED  BY <1>5 DEF SlotEffect

(* Some failure has kept t from being released: it is astray. *)
LEMMA StrayMoves ==
  ASSUME Safe, NEW t \in Tasks, t \in astray', astray \subseteq astray',
         \A u \in Users \ {UserOf[t]} : active'[u] = active[u],
         UNCHANGED <<status, rpc>>,
         \A s \in Tasks \ {t} : Released(s)' <=> Released(s)
  PROVE  SlotEffect
BY DEF SlotEffect, Moves, SameSlot

LEMMA CancelSlots ==
  ASSUME Safe, OneReleases, CancelActs
  PROVE  SlotEffect /\ (Quieter \/ \E c \in Cancels : CancelEnds(c))
<1> USE DEF Safe, TypeOK
<1> SUFFICES ASSUME NEW c \in Cancels,
                    CancelRead(c) \/ Cancel(c) \/ CancelVoidError(c) \/ CancelAbort(c)
             PROVE  SlotEffect /\ (Quieter \/ CancelEnds(c))
  BY DEF CancelActs
<1> DEFINE t == CancelOf[c]
<1>1. t \in Tasks /\ UserOf[t] \in Users
  BY ConstantsOK DEF ConstantsOK
<1> HIDE DEF t
<1>2. UNCHANGED <<rpc, workVars, reconVars>>
  BY CancelFrame DEF CancelActs
<1>3. \A d \in Cancels \ {c} : CancelReleases(d)' <=> CancelReleases(d)
  BY DEF CancelReleases, CancelRead, Cancel, CancelVoidError, CancelAbort, CancelTransact,
         CancelVoid, CancelRelease, CancelCache, GoCancel
<1>4. \A s \in Tasks \ {t} : Released(s)' <=> Released(s)
  BY <1>2, <1>3 DEF t, Released, WorkerReleases, ReconReleases, workVars, reconVars
<1>5. CASE CancelTransact(c) /\ Finish(t, "CANCELLED")
  <2>1. CancelReleases(c)' /\ UNCHANGED <<active, astray>>
    BY <1>5 DEF CancelTransact, GoCancel, CancelReleases, Finish, Advance, t, faultVars
  <2>2. CancelEnds(c)
    BY <1>2, <1>3, <1>5, <2>1 DEF CancelEnds, t
  <2>3. Released(t)'
    BY <2>1 DEF Released, t
  <2>4. SlotEffect
    BY <1>1, <1>2, <1>4, <1>5, <2>1, <2>3, EndBalances DEF Terminal
  <2> QED  BY <2>2, <2>4
<1>6. CASE CancelRelease(c)
  <2>1. /\ active' = [active EXCEPT ![UserOf[t]] = @ - 1] /\ UNCHANGED <<status, rpc, astray>>
        /\ CancelReleases(c) /\ ~CancelReleases(c)'
    BY <1>6 DEF CancelRelease, AddActive, GoCancel, CancelReleases, rowVars, faultVars, t
  <2>2. Released(t)
    BY <2>1 DEF Released, t
  <2>3. ~Released(t)'
    <3>1. \A d \in Cancels : CancelOf[d] = t => ~CancelReleases(d)'
      BY <1>3, <2>1 DEF OneReleases, t
    <3>2. \A w \in Workers : job[w] = t => ~WorkerReleases(w)
      BY <2>1 DEF OneReleases, t
    <3>3. ReconReleases => xjob[1] # t
      BY <2>1 DEF OneReleases, t
    <3> QED  BY <1>2, <3>1, <3>2, <3>3
             DEF Released, WorkerReleases, ReconReleases, workVars, reconVars
  <2>4. Quieter
    BY <1>2, <1>3, <2>1 DEF Quieter, WorkerReleases, ReconReleases, workVars, reconVars
  <2> QED  BY <1>1, <1>4, <2>1, <2>2, <2>3, <2>4, ReleaseBalances
<1>7. CASE CancelAbort(c) /\ CancelReleases(c)
  <2>1. /\ t \in astray' /\ astray \subseteq astray' /\ UNCHANGED <<status, active>>
        /\ ~CancelReleases(c)'
    BY <1>7 DEF CancelAbort, FaultAt, Misled, GoCancel, CancelReleases, rowVars, t
  <2>2. Quieter
    BY <1>2, <1>3, <2>1 DEF Quieter, WorkerReleases, ReconReleases, workVars, reconVars
  <2> QED  BY <1>1, <1>2, <1>4, <2>1, <2>2, StrayMoves
<1>8. CASE /\ ~(CancelTransact(c) /\ Finish(t, "CANCELLED"))
           /\ ~CancelRelease(c) /\ ~(CancelAbort(c) /\ CancelReleases(c))
  <2>1. /\ UNCHANGED <<status, active>> /\ astray \subseteq astray'
        /\ CancelReleases(c)' <=> CancelReleases(c)
    BY <1>8 DEF CancelReleases, CancelRead, Cancel, CancelVoidError, CancelAbort, CancelTransact,
                CancelVoid, CancelCache, GoCancel, rowVars, faultVars, Fault, Misled, FaultAt, t
  <2>2. Quieter /\ \A s \in Tasks : Released(s)' <=> Released(s)
    BY <1>2, <1>3, <2>1, SameReleased DEF WorkerReleases, ReconReleases, workVars, reconVars
  <2> QED  BY <1>2, <2>1, <2>2 DEF SlotEffect, KeepsSlots, SameSlot
<1> QED  BY <1>5, <1>6, <1>7, <1>8

LEMMA WorkerSlots ==
  ASSUME Safe, OneReleases, NEW w \in Workers, WorkerActs(w)
  PROVE  SlotEffect /\ (Quieter \/ (WorkerEnds(w) /\ job[w] \in Tasks))
<1> USE DEF Safe, TypeOK
<1>0. UNCHANGED rpc
  BY WorkerFrame DEF requestVars
<1>1. /\ UNCHANGED <<cpc, reconVars>>
      /\ \A v \in Workers \ {w} : wpc'[v] = wpc[v] /\ job'[v] = job[v]
  BY WorkerFrame DEF requestVars
<1>2. ASSUME ~WorkerReleases(w), ~WorkerReleases(w)'
      PROVE  Quieter /\ \A s \in Tasks : Released(s)' <=> Released(s)
  BY <1>1, <1>2, SameReleased DEF CancelReleases, WorkerReleases, ReconReleases, reconVars
<1>3. CASE (\E t \in Tasks : WorkTake(w, t)) \/ WorkStart(w)
  <2>1. ~WorkerReleases(w) /\ ~WorkerReleases(w)' /\ UNCHANGED <<active, astray>>
    BY <1>3 DEF WorkTake, WorkStart, GoWork, Ack, Leave, WorkerReleases, faultVars
  <2>2. \A s \in Tasks : status'[s] \in Cancellable <=> status[s] \in Cancellable
    BY <1>3 DEF WorkTake, WorkStart, Advance, Cancellable, rowVars
  <2>3. Quieter /\ \A s \in Tasks : Released(s)' <=> Released(s)
    BY <1>2, <2>1
  <2> QED  BY <1>0, <2>1, <2>2, <2>3 DEF SlotEffect, KeepsSlots, SameSlot
<1>4. CASE wpc[w] # "idle" /\ ~WorkStart(w)
  <2>0. PICK t \in Tasks : t = job[w]
    BY <1>4 DEF WorkersKnow
  <2>1. UserOf[t] \in Users
    BY ConstantsOK DEF ConstantsOK
  <2>2. \A s \in Tasks \ {t} : Released(s)' <=> Released(s)
    <3>1. job'[w] = job[w] \/ (job'[w] = NoTask /\ wpc'[w] = "idle")
      BY <1>4 DEF WorkerActs, WorkTake, Work, WorkAbort, WorkMark, WorkExecute, WorkSettle,
                  WorkFinalize, WorkRelease, WorkCache, GoWork, Ack, Requeue, Leave
    <3>2. ASSUME NEW s \in Tasks \ {t}, NEW v \in Workers
          PROVE  job'[v] = s /\ WorkerReleases(v)' <=> job[v] = s /\ WorkerReleases(v)
      BY <1>1, <2>0, <3>1 DEF WorkerReleases
    <3> QED  BY <1>1, <3>2 DEF Released, CancelReleases, ReconReleases, reconVars
  <2>3. CASE WorkFinalize(w) /\ wpc'[w] = "release"
    <3>1. PICK st \in Terminal : Finish(t, st)
      BY <2>0, <2>3 DEF WorkFinalize, Requeue, Leave, Terminal
    <3>2. WorkerReleases(w)' /\ job'[w] = job[w] /\ UNCHANGED <<active, astray>>
      BY <2>3 DEF WorkFinalize, Requeue, Leave, GoWork, WorkerReleases, faultVars
    <3>3. WorkerEnds(w)
      BY <1>0, <1>1, <2>0, <3>1, <3>2 DEF WorkerEnds
    <3>4. Released(t)'
      BY <2>0, <3>2 DEF Released
    <3>5. SlotEffect
      BY <1>0, <2>1, <2>2, <3>1, <3>2, <3>4, EndBalances
    <3> QED  BY <2>0, <2>1, <3>3, <3>5
  <2>4. CASE WorkRelease(w)
    <3>1. /\ active' = [active EXCEPT ![UserOf[t]] = @ - 1] /\ UNCHANGED <<status, rpc, astray>>
          /\ WorkerReleases(w) /\ ~WorkerReleases(w)'
      BY <1>0, <2>0, <2>4 DEF WorkRelease, AddActive, GoWork, WorkerReleases, rowVars, faultVars
    <3>2. Released(t)
      BY <2>0, <3>1 DEF Released
    <3>3. ~Released(t)'
      <4>1. \A c \in Cancels : CancelOf[c] = t => ~CancelReleases(c)
        BY <2>0, <3>1 DEF OneReleases
      <4>2. \A v \in Workers : job'[v] = t => ~WorkerReleases(v)'
        BY <1>1, <2>0, <3>1 DEF OneReleases, WorkerReleases
      <4>3. ReconReleases => xjob[1] # t
        BY <2>0, <3>1 DEF OneReleases
      <4> QED  BY <1>1, <4>1, <4>2, <4>3 DEF Released, CancelReleases, ReconReleases, reconVars
    <3>4. Quieter
      BY <1>1, <3>1 DEF Quieter, CancelReleases, WorkerReleases, ReconReleases, reconVars
    <3> QED  BY <2>1, <2>2, <3>1, <3>2, <3>3, <3>4, ReleaseBalances
  <2>5. CASE WorkAbort(w) /\ WorkerReleases(w)
    <3>1. /\ t \in astray' /\ astray \subseteq astray' /\ UNCHANGED <<status, active>>
          /\ ~WorkerReleases(w)'
      BY <2>0, <2>5 DEF WorkAbort, FaultAt, Misled, Requeue, Leave, WorkerReleases, rowVars
    <3>2. Quieter
      BY <1>1, <3>1 DEF Quieter, CancelReleases, WorkerReleases, ReconReleases, reconVars
    <3> QED  BY <1>0, <2>1, <2>2, <3>1, <3>2, StrayMoves
  <2>6. CASE /\ ~(WorkFinalize(w) /\ wpc'[w] = "release") /\ ~WorkRelease(w)
             /\ ~(WorkAbort(w) /\ WorkerReleases(w))
    <3>1. /\ UNCHANGED <<status, active>> /\ astray \subseteq astray'
          /\ ~WorkerReleases(w) /\ ~WorkerReleases(w)'
      BY <1>4, <2>6
      DEF WorkerActs, WorkTake, Work, WorkAbort, WorkMark, WorkExecute, WorkSettle, WorkFinalize,
          WorkCache, GoWork, Ack, Requeue, Leave, WorkerReleases, rowVars, faultVars, FaultAt,
          Fault, Misled
    <3>2. Quieter /\ \A s \in Tasks : Released(s)' <=> Released(s)
      BY <1>2, <3>1
    <3> QED  BY <1>0, <3>1, <3>2 DEF SlotEffect, KeepsSlots, SameSlot
  <2> QED  BY <2>3, <2>4, <2>5, <2>6
<1>5. WorkerActs(w) /\ wpc[w] = "idle" => \E t \in Tasks : WorkTake(w, t)
  BY DEF WorkerActs, Work, WorkAbort, WorkStart, WorkMark, WorkExecute, WorkSettle, WorkFinalize,
         WorkRelease, WorkCache
<1> QED  BY <1>3, <1>4, <1>5

LEMMA ReconSlots ==
  ASSUME Safe, OneReleases, ReconActs
  PROVE  SlotEffect /\ (Quieter \/ (ReconEnds /\ xjob[1] \in Tasks))
<1> USE DEF Safe, TypeOK
<1>0. UNCHANGED <<rpc, cpc>> /\ UNCHANGED workVars
  BY ReconFrame DEF requestVars
<1>1. /\ \A c \in Cancels : CancelReleases(c)' <=> CancelReleases(c)
      /\ \A w \in Workers : (WorkerReleases(w)' <=> WorkerReleases(w)) /\ job'[w] = job[w]
  BY <1>0 DEF CancelReleases, WorkerReleases, workVars
<1>2. ASSUME ~ReconReleases, ~ReconReleases'
      PROVE  Quieter /\ \A s \in Tasks : Released(s)' <=> Released(s)
  BY <1>1, <1>2, SameReleased
<1>3. CASE xpc = "idle"
  <2>1. /\ UNCHANGED <<status, active, astray>> /\ ~ReconReleases /\ ~ReconReleases'
    BY <1>3 DEF ReconActs, Reconcile, Align, AlignRelease, AlignCache, AlignAbort, ReconReleases,
                rowVars, faultVars
  <2>2. Quieter /\ \A s \in Tasks : Released(s)' <=> Released(s)
    BY <1>2, <2>1
  <2> QED  BY <1>0, <2>1, <2>2 DEF SlotEffect, KeepsSlots, SameSlot
<1>4. CASE xpc # "idle"
  <2>0. PICK t \in Tasks : t = xjob[1]
    BY <1>4 DEF ReconKnows
  <2>1. UserOf[t] \in Users /\ xjob[2] \in Terminal
    BY <1>4, ConstantsOK DEF ConstantsOK, ReconKnows
  <2>2. ReconActs => Align \/ AlignRelease \/ AlignCache \/ AlignAbort
    BY <1>4 DEF ReconActs, Reconcile
  <2>3. xjob' = xjob \/ (xjob' = NoneSeen /\ xpc' = "idle")
    BY <2>2 DEF Align, AlignRelease, AlignCache, AlignAbort, Resting
  <2>4. \A s \in Tasks \ {t} : Released(s)' <=> Released(s)
    BY <1>1, <2>0, <2>3 DEF Released, ReconReleases
  <2>5. CASE Align /\ xpc' = "release"
    <3>1. Finish(t, xjob[2]) /\ xjob' = xjob /\ ReconReleases' /\ UNCHANGED <<active, astray>>
      BY <2>0, <2>5 DEF Align, Resting, ReconReleases, faultVars
    <3>2. ReconEnds
      BY <1>0, <2>0, <2>1, <3>1 DEF ReconEnds
    <3>3. Released(t)'
      BY <2>0, <3>1 DEF Released
    <3>4. PICK st \in Terminal : st = xjob[2]
      BY <2>1
    <3>5. SlotEffect
      BY <1>0, <2>1, <2>4, <3>1, <3>3, <3>4, EndBalances
    <3> QED  BY <2>0, <3>2, <3>5
  <2>6. CASE AlignRelease
    <3>1. UNCHANGED status /\ ReconReleases /\ ~ReconReleases'
      BY <2>6 DEF AlignRelease, ReconReleases, rowVars
    <3>2. Released(t)
      BY <2>0, <3>1 DEF Released
    <3>3. ~Released(t)'
      BY <1>1, <2>0, <3>1 DEF Released, OneReleases
    <3>4. Quieter
      BY <1>1, <3>1 DEF Quieter
    <3>5. CASE active' = [active EXCEPT ![UserOf[t]] = @ - 1] /\ UNCHANGED astray
      BY <1>0, <2>4, <3>1, <3>2, <3>3, <3>4, <3>5, ReleaseBalances
    <3>6. CASE active' = [active EXCEPT ![UserOf[t]] = 0] /\ astray' = astray \cup {t}
      <4>1. \A u \in Users \ {UserOf[t]} : active'[u] = active[u]
        BY <3>6
      <4> QED  BY <1>0, <2>4, <3>1, <3>4, <3>6, <4>1, StrayMoves
    <3>7. \/ active' = [active EXCEPT ![UserOf[t]] = @ - 1] /\ UNCHANGED astray
          \/ active' = [active EXCEPT ![UserOf[t]] = 0] /\ astray' = astray \cup {t}
      BY <2>0, <2>6 DEF AlignRelease, AddActive
    <3> QED  BY <3>5, <3>6, <3>7
  <2>7. CASE AlignAbort /\ xpc = "release"
    <3>1. /\ t \in astray' /\ astray \subseteq astray' /\ UNCHANGED <<status, active>>
          /\ ~ReconReleases'
      BY <2>0, <2>7 DEF AlignAbort, FaultAt, Misled, Resting, ReconReleases, rowVars
    <3>2. Quieter
      BY <1>1, <3>1 DEF Quieter
    <3> QED  BY <1>0, <2>4, <3>1, <3>2, StrayMoves
  <2>8. CASE /\ ~(Align /\ xpc' = "release") /\ ~AlignRelease
             /\ ~(AlignAbort /\ xpc = "release")
    <3>1. /\ UNCHANGED <<status, active>> /\ astray \subseteq astray'
          /\ ~ReconReleases /\ ~ReconReleases'
      BY <2>2, <2>8 DEF Align, AlignCache, AlignAbort, Resting, ReconReleases, rowVars, faultVars,
                        FaultAt, Fault, Misled
    <3>2. Quieter /\ \A s \in Tasks : Released(s)' <=> Released(s)
      BY <1>2, <3>1
    <3> QED  BY <1>0, <3>1, <3>2 DEF SlotEffect, KeepsSlots, SameSlot
  <2> QED  BY <2>5, <2>6, <2>7, <2>8
<1> QED  BY <1>3, <1>4

LEMMA NextSlots ==
  ASSUME Safe, OneReleases, [Next]_vars
  PROVE  SlotEffect /\ OneReleases'
<1>1. CASE RequestActs \/ RestActs
  BY <1>1, RequestSlots, RestSlots, QuieterOne
<1>2. CASE CancelActs
  BY <1>2, CancelSlots, QuieterOne, EndsOne
<1>3. ASSUME NEW w \in Workers, WorkerActs(w) PROVE SlotEffect /\ OneReleases'
  BY <1>3, WorkerSlots, QuieterOne, EndsOne
<1>4. CASE ReconActs
  BY <1>4, ReconSlots, QuieterOne, EndsOne
<1> QED  BY <1>1, <1>2, <1>3, <1>4, WhoActs

LEMMA InitSlots == Init => OneReleases /\ SlotsAccounted
<1> SUFFICES ASSUME Init PROVE OneReleases /\ SlotsAccounted
  OBVIOUS
<1>1. OneReleases
  BY DEF Init, OneReleases, CancelReleases, WorkerReleases, ReconReleases
<1>2. ASSUME NEW u \in Users PROVE Open(u) = {} /\ Counting(u) = {} /\ Releasing(u) = {}
  BY DEF Init, Open, Counting, Releasing, Cancellable
<1>3. Cardinality({}) = 0
  BY FS_EmptySet
<1>4. ASSUME NEW u \in Users PROVE active[u] = 0
  BY DEF Init
<1> QED  BY <1>1, <1>2, <1>3, <1>4 DEF SlotsAccounted

(* The active counter of a user counts the open tasks: each is counted once, *)
(* when it is made, and its slot given back once, by whoever of cancel,      *)
(* worker and reconciler ends it; but for the tasks astray, for any number   *)
(* of workers, cancels, duplicate messages and failures.                     *)
THEOREM SlotsAlwaysAccounted == Spec => []SlotsAccounted
<1>1. Init => OneReleases /\ SlotsAccounted
  BY InitSlots
<1>2. Safe /\ OneReleases /\ SlotsAccounted /\ [Next]_vars => OneReleases' /\ SlotsAccounted'
  <2> SUFFICES ASSUME Safe, OneReleases, SlotsAccounted, [Next]_vars
               PROVE  OneReleases' /\ SlotsAccounted'
    OBVIOUS
  <2>1. SlotEffect /\ OneReleases'
    BY NextSlots
  <2>2. TypeOK /\ active' \in [Users -> Int]
    BY NextSafe DEF Safe, TypeOK
  <2> QED  BY <2>1, <2>2, EffectAccounts
<1> QED  BY <1>1, <1>2, AlwaysSafe, PTL DEF Spec

-----------------------------------------------------------------------------
(* LedgerTask implements CreditHold *)

(* The pending transfers carry the holds, the initial credits and the        *)
(* top-ups what users were granted.                                          *)
HoldOf(x) == IF x = "none" THEN "none" ELSE IF x = "pending" THEN "held"
             ELSE IF x = "posted" THEN "captured" ELSE "returned"
Grants == [u \in Users |-> InitialCredits[u] + TopupAmount * Cardinality(ToppedUp(u))]
Holds == [t \in Tasks |-> HoldOf(transfer[t])]
Billing == INSTANCE CreditHold WITH Subs <- Tasks, OwnerOf <- UserOf, granted <- Grants,
                                    hold <- Holds

ReservesOnce == \A t \in Tasks : rpc[t] \in {"idle", "reserve"} => transfer[t] = "none"

Reserves(t) ==
  /\ rpc[t] = "reserve" /\ Balance(UserOf[t]) >= Cost
  /\ transfer' = [transfer EXCEPT ![t] = "pending"] /\ UNCHANGED granted
  /\ rpc'[t] = "recheck"

BillEffect ==
  \/ UNCHANGED billVars
  \/ \E t \in Tasks, outcome \in {"posted", "voided", "expired"} : Settle(t, outcome)
  \/ \E t \in Tasks : Reserves(t)
  \/ \E i \in Topups : granted' = granted \cup {i} /\ UNCHANGED transfer

LEMMA NextBills ==
  ASSUME Safe, [Next]_vars
  PROVE  BillEffect
<1> USE DEF Safe, TypeOK
<1>1. ASSUME NEW t \in Tasks, Request(t) \/ CommitError(t) \/ RequestAbort(t) PROVE BillEffect
  <2>1. CASE Reserve(t)
    BY <2>1 DEF Reserve, GoRequest, BillEffect, Reserves
  <2>2. CASE VoidOwn(t)
    BY <2>2 DEF VoidOwn, Unsettled, BillEffect
  <2> QED  BY <1>1, <2>1, <2>2 DEF Request, Gate, Recheck, Commit, Count, CacheSeen, CommitError,
                                  RequestAbort, BillEffect
<1>2. CASE CancelActs
  <2>1. ASSUME NEW c \in Cancels, CancelVoid(c) PROVE BillEffect
    <3>1. CancelOf[c] \in Tasks
      BY ConstantsOK DEF ConstantsOK
    <3> QED  BY <2>1, <3>1 DEF CancelVoid, Unsettled, BillEffect
  <2> QED  BY <1>2, <2>1 DEF CancelActs, CancelRead, Cancel, CancelVoidError, CancelAbort,
                             CancelTransact, CancelRelease, CancelCache, BillEffect
<1>3. ASSUME NEW w \in Workers, WorkerActs(w) PROVE BillEffect
  <2>1. CASE WorkSettle(w)
    <3>1. job[w] \in Tasks
      BY <2>1 DEF WorkSettle, WorkersKnow
    <3> QED  BY <2>1, <3>1 DEF WorkSettle, Unsettled, BillEffect
  <2> QED  BY <1>3, <2>1 DEF WorkerActs, WorkTake, Work, WorkAbort, WorkStart, WorkMark,
                             WorkExecute, WorkFinalize, WorkRelease, WorkCache, BillEffect
<1>4. CASE ReconActs
  BY <1>4 DEF ReconActs, Reconcile, Align, AlignRelease, AlignCache, AlignAbort, BillEffect
<1>5. CASE RestActs
  BY <1>5 DEF RestActs, TimeOut, Dispatch, Topup, Relay, vars, BillEffect
<1> QED  BY <1>1, <1>2, <1>3, <1>4, <1>5, WhoActs DEF RequestActs

LEMMA ReservesOnceNext ==
  ASSUME Safe, ReservesOnce, [Next]_vars
  PROVE  ReservesOnce'
<1>1. ASSUME NEW t \in Tasks, rpc'[t] \in {"idle", "reserve"} PROVE transfer'[t] = "none"
  <2>1. rpc[t] \in {"idle", "reserve"} /\ transfer[t] = "none"
    BY <1>1, RequestsGo DEF ReservesOnce
  <2>2. BillEffect
    BY NextBills
  <2> QED  BY <1>1, <2>1, <2>2 DEF BillEffect, billVars, Settle, Reserves, Safe, TypeOK
<1> QED  BY <1>1 DEF ReservesOnce

LEMMA GrantsTyped == TypeOK => Grants \in [Users -> Nat]
<1> SUFFICES ASSUME TypeOK, NEW u \in Users
             PROVE  InitialCredits[u] + TopupAmount * Cardinality(ToppedUp(u)) \in Nat
  BY DEF Grants
<1>1. IsFiniteSet(granted)
  BY ConstantsOK, FS_Subset DEF ConstantsOK, TypeOK
<1>2. Cardinality(ToppedUp(u)) \in Nat
  BY <1>1, FS_Subset, FS_CardinalityType DEF ToppedUp
<1>3. InitialCredits[u] \in Nat /\ TopupAmount \in Nat
  BY ConstantsOK DEF ConstantsOK
<1> QED  BY <1>2, <1>3

LEMMA SameBalance ==
  ASSUME TypeOK, NEW u \in Users
  PROVE  Billing!Available(u) = Balance(u)
<1>1. Billing!Taken(u, Holds) = Held(u)
  BY DEF Billing!Taken, Holds, HoldOf, Held, TypeOK
<1>2. Billing!Cardinality(Held(u)) = Cardinality(Held(u))
  BY Zenon DEF Billing!Cardinality, Cardinality
<1>3. Billing!Available(u) = Grants[u] - Cost * Cardinality(Held(u))
  BY <1>1, <1>2 DEF Billing!Available
<1>4. Grants[u] = InitialCredits[u] + TopupAmount * Cardinality(ToppedUp(u))
  BY Zenon DEF Grants
<1>5. /\ InitialCredits[u] \in Nat /\ TopupAmount * Cardinality(ToppedUp(u)) \in Nat
      /\ Cost * Cardinality(Held(u)) \in Nat
  <2>1. /\ IsFiniteSet(Tasks) /\ Held(u) \subseteq Tasks
        /\ IsFiniteSet(Topups) /\ ToppedUp(u) \subseteq Topups
    BY ConstantsOK DEF ConstantsOK, Held, ToppedUp, TypeOK
  <2>2. Cardinality(Held(u)) \in Nat /\ Cardinality(ToppedUp(u)) \in Nat
    BY <2>1, FS_Subset, FS_CardinalityType
  <2> QED  BY <2>2, ConstantsOK DEF ConstantsOK
<1> QED  BY <1>3, <1>4, <1>5 DEF Balance

LEMMA LargerProduct ==
  ASSUME NEW a \in Nat, NEW m \in Nat, NEW n \in Nat, m <= n
  PROVE  a * m <= a * n
<1>1. PICK k \in Nat : n = m + k
  <2>1. n - m \in Nat /\ n = m + (n - m)
    OBVIOUS
  <2> QED  BY <2>1
<1>2. a * (m + k) = a * m + a * k /\ a * k \in Nat /\ a * m \in Nat
  OBVIOUS
<1> QED  BY <1>1, <1>2

LEMMA EffectMaps ==
  ASSUME Safe, ReservesOnce, Safe', BillEffect
  PROVE  [Billing!Next]_<<Grants, Holds>>
<1> USE DEF Safe
<1>1. CASE UNCHANGED billVars
  BY <1>1 DEF billVars, Grants, Holds, ToppedUp
<1>2. ASSUME NEW t \in Tasks, NEW outcome \in {"posted", "voided", "expired"}, Settle(t, outcome)
      PROVE  Billing!Next
  <2>1. /\ Holds[t] = "held" /\ Holds' = [Holds EXCEPT ![t] = HoldOf(outcome)]
        /\ HoldOf(outcome) \in {"captured", "returned"}
    BY <1>2 DEF Settle, Holds, HoldOf, TypeOK
  <2>2. UNCHANGED Grants
    BY <1>2 DEF Settle, Grants, ToppedUp
  <2>3. Billing!Settle(t, "captured") \/ Billing!Settle(t, "returned")
    BY <2>1, <2>2 DEF Billing!Settle
  <2> QED  BY <2>3 DEF Billing!Next
<1>3. ASSUME NEW t \in Tasks, Reserves(t)
      PROVE  Billing!Next
  <2>1. Holds[t] = "none" /\ Holds' = [Holds EXCEPT ![t] = "held"]
    BY <1>3 DEF Reserves, ReservesOnce, Holds, HoldOf, TypeOK
  <2>2. UNCHANGED Grants
    BY <1>3 DEF Reserves, Grants, ToppedUp
  <2>3. Billing!Available(UserOf[t]) >= Cost
    BY <1>3, SameBalance, ConstantsOK DEF ConstantsOK, Reserves
  <2>4. Billing!Hold(t)
    BY <2>1, <2>2, <2>3 DEF Billing!Hold
  <2> QED  BY <2>4 DEF Billing!Next
<1>4. ASSUME NEW i \in Topups, granted' = granted \cup {i}, UNCHANGED transfer
      PROVE  Billing!Next
  <2>1. UNCHANGED Holds
    BY <1>4 DEF Holds
  <2>2. Grants' \in [Users -> Nat]
    <3> SUFFICES ASSUME NEW u \in Users
                 PROVE  InitialCredits[u] + TopupAmount * Cardinality(ToppedUp(u)') \in Nat
      BY DEF Grants
    <3>1. IsFiniteSet(Topups) /\ ToppedUp(u)' \subseteq Topups
      BY ConstantsOK DEF ConstantsOK, ToppedUp, TypeOK
    <3>2. Cardinality(ToppedUp(u)') \in Nat
      BY <3>1, FS_Subset, FS_CardinalityType
    <3> QED  BY <3>2, ConstantsOK DEF ConstantsOK
  <2>3. ASSUME NEW u \in Users PROVE Grants'[u] >= Grants[u]
    <3>1. ToppedUp(u) \subseteq ToppedUp(u)'
      BY <1>4 DEF ToppedUp
    <3>2. IsFiniteSet(Topups) /\ ToppedUp(u)' \subseteq Topups
      BY ConstantsOK DEF ConstantsOK, ToppedUp, TypeOK
    <3>3. /\ Cardinality(ToppedUp(u)) <= Cardinality(ToppedUp(u)')
          /\ Cardinality(ToppedUp(u)) \in Nat /\ Cardinality(ToppedUp(u)') \in Nat
      BY <3>1, <3>2, FS_Subset, FS_CardinalityType
    <3>4. TopupAmount \in Nat /\ InitialCredits[u] \in Nat
      BY ConstantsOK DEF ConstantsOK
    <3>5. TopupAmount * Cardinality(ToppedUp(u)) <= TopupAmount * Cardinality(ToppedUp(u)')
      BY <3>3, <3>4, LargerProduct
    <3>6. /\ Grants[u] = InitialCredits[u] + TopupAmount * Cardinality(ToppedUp(u))
          /\ Grants'[u] = InitialCredits[u] + TopupAmount * Cardinality(ToppedUp(u)')
      BY DEF Grants
    <3>7. /\ TopupAmount * Cardinality(ToppedUp(u)) \in Nat
          /\ TopupAmount * Cardinality(ToppedUp(u)') \in Nat
      BY <3>3, <3>4
    <3> QED  BY <3>4, <3>5, <3>6, <3>7
  <2> QED  BY <2>1, <2>2, <2>3 DEF Billing!Next, Billing!Grant
<1> QED  BY <1>1, <1>2, <1>3, <1>4 DEF BillEffect

LEMMA InitMaps ==
  ASSUME Init
  PROVE  ReservesOnce /\ Billing!Init
<1>1. ReservesOnce /\ Holds = [t \in Tasks |-> "none"]
  BY DEF Init, ReservesOnce, Holds, HoldOf
<1>2. Grants \in [Users -> Nat]
  BY GrantsTyped, InitSafe DEF Safe
<1> QED  BY <1>1, <1>2 DEF Billing!Init

LEMMA NextMaps ==
  ASSUME Safe, ReservesOnce, [Next]_vars
  PROVE  ReservesOnce' /\ [Billing!Next]_<<Grants, Holds>>
BY NextSafe, NextBills, ReservesOnceNext, EffectMaps

(* Every behaviour of solution 3's command side is one of CreditHold: a hold *)
(* is taken when the balance covers it and settled once, and a top-up is     *)
(* granted once, whatever is retried, times out or crashes in between.       *)
THEOREM ImplementsCreditHold == Spec => Billing!Spec
BY InitMaps, NextMaps, AlwaysSafe, PTL DEF Spec, Billing!Spec

-----------------------------------------------------------------------------
(* Copies of a status: in the hash, the view, the hands of a request or of   *)
(* the projector                                                             *)

TrueOf(t, st) == t \in Tasks /\ st \in Terminal => st = status[t]

CopiesTrue ==
  /\ \A t \in Tasks : TrueOf(t, cache[t]) /\ TrueOf(t, view[t]) /\ TrueOf(seen[t][1], seen[t][2])
  /\ TrueOf(pjob[1][1], pjob[2])

ReadSafe == Safe /\ pjob[2] \in Statuses /\ CopiesTrue

LEMMA OutcomesStay ==
  ASSUME Safe, RowsMove
  PROVE  \A t \in Tasks, st \in Terminal : st = status[t] => st = status'[t]
BY FactsStay

-----------------------------------------------------------------------------
(* The command side *)

LEMMA RequestCopies ==
  ASSUME Safe, RowsMove, CopiesTrue, RequestActs, UNCHANGED pjob
  PROVE  CopiesTrue'
<1> USE DEF Safe, TypeOK
<1>1. \A t \in Tasks, st \in Terminal : st = status[t] => st = status'[t]
  BY OutcomesStay
<1> SUFFICES ASSUME NEW t \in Tasks, Request(t) \/ CommitError(t) \/ RequestAbort(t)
             PROVE  CopiesTrue'
  BY DEF RequestActs
<1>2. TrueOf(pjob[1][1], pjob[2])'
  BY <1>1 DEF CopiesTrue, TrueOf
<1>3. \A s \in Tasks : TrueOf(s, cache[s])' /\ TrueOf(s, view[s])'
  <2>1. CASE CacheSeen(t)
    BY <1>1, <2>1 DEF CacheSeen, CacheStatus, CopiesTrue, TrueOf
  <2>2. CASE ~CacheSeen(t)
    <3>1. UNCHANGED <<cache, view>>
      BY <2>2 DEF Request, Gate, Reserve, Recheck, Commit, VoidOwn, Count, CommitError,
                  RequestAbort, readVars
    <3> QED  BY <1>1, <3>1 DEF CopiesTrue, TrueOf
  <2> QED  BY <2>1, <2>2
<1>4. \A s \in Tasks : TrueOf(seen[s][1], seen[s][2])'
  <2>1. CASE UNCHANGED seen
    BY <1>1, <2>1 DEF CopiesTrue, TrueOf
  <2>2. CASE CacheSeen(t) \/ RequestAbort(t)
    BY <1>1, <2>2 DEF CacheSeen, RequestAbort, NoneSeen, CopiesTrue, TrueOf, Terminal
  <2>3. CASE Commit(t) /\ seen' # seen
    <3>1. \/ seen' = [seen EXCEPT ![t] = <<t, "PENDING">>]
          \/ \E s \in Tasks : seen' = [seen EXCEPT ![t] = <<s, status[s]>>]
      BY <2>3 DEF Commit
    <3>2. CASE seen' = [seen EXCEPT ![t] = <<t, "PENDING">>]
      BY <1>1, <3>2 DEF CopiesTrue, TrueOf, Terminal
    <3>3. CASE \E s \in Tasks : seen' = [seen EXCEPT ![t] = <<s, status[s]>>]
      BY <1>1, <3>3 DEF CopiesTrue, TrueOf
    <3> QED  BY <3>1, <3>2, <3>3
  <2> QED  BY <2>1, <2>2, <2>3
           DEF Request, Gate, Reserve, Recheck, VoidOwn, Count, CommitError
<1> QED  BY <1>2, <1>3, <1>4 DEF CopiesTrue

(* The other actors leave seen alone, and what they write to the hash or to  *)
(* the view is true.                                                         *)
LEMMA WrittenCopies ==
  ASSUME Safe, RowsMove, CopiesTrue, UNCHANGED <<seen, pjob>>,
         cache' = cache \/ \E t \in Tasks, st \in Statuses : /\ cache' = [cache EXCEPT ![t] = st]
                                                             /\ st \in Terminal => st = status'[t],
         view' = view \/ \E t \in Tasks, st \in Statuses : /\ view' = [view EXCEPT ![t] = st]
                                                           /\ st \in Terminal => st = status'[t]
  PROVE  CopiesTrue'
<1> USE DEF Safe, TypeOK
<1>1. \A t \in Tasks, st \in Terminal : st = status[t] => st = status'[t]
  BY OutcomesStay
<1>2. TrueOf(pjob[1][1], pjob[2])' /\ \A t \in Tasks : TrueOf(seen[t][1], seen[t][2])'
  BY <1>1 DEF CopiesTrue, TrueOf
<1>3. \A t \in Tasks : TrueOf(t, cache[t])'
  BY <1>1 DEF CopiesTrue, TrueOf
<1>4. \A t \in Tasks : TrueOf(t, view[t])'
  BY <1>1 DEF CopiesTrue, TrueOf
<1> QED  BY <1>2, <1>3, <1>4 DEF CopiesTrue

LEMMA CancelCopies ==
  ASSUME Safe, RowsMove, CopiesTrue, CancelActs, UNCHANGED pjob
  PROVE  CopiesTrue'
<1> SUFFICES ASSUME NEW c \in Cancels,
                    CancelRead(c) \/ Cancel(c) \/ CancelVoidError(c) \/ CancelAbort(c)
             PROVE  CopiesTrue'
  BY DEF CancelActs
<1>1. UNCHANGED seen
  BY DEF CancelRead, Cancel, CancelVoidError, CancelAbort, CancelTransact, CancelVoid,
         CancelRelease, CancelCache, GoCancel
<1>2. CASE CancelCache(c)
  <2>1. CancelOf[c] \in Tasks
    BY ConstantsOK DEF ConstantsOK
  <2>2. /\ cache' = [cache EXCEPT ![CancelOf[c]] = "CANCELLED"] /\ view' = view
        /\ status'[CancelOf[c]] = "CANCELLED"
    BY <1>2 DEF CancelCache, CacheStatus, rowVars, Safe, CancelsKnow
  <2> QED  BY <1>1, <2>1, <2>2, WrittenCopies DEF Statuses, Terminal
<1>3. CASE ~CancelCache(c)
  <2>1. UNCHANGED <<cache, view>>
    BY <1>3 DEF CancelRead, Cancel, CancelVoidError, CancelAbort, CancelTransact, CancelVoid,
                CancelRelease, readVars
  <2> QED  BY <1>1, <2>1, WrittenCopies
<1> QED  BY <1>2, <1>3

LEMMA WorkerCopies ==
  ASSUME Safe, RowsMove, CopiesTrue, NEW w \in Workers, WorkerActs(w), UNCHANGED pjob
  PROVE  CopiesTrue'
<1>1. UNCHANGED seen
  BY WorkerFrame DEF requestVars
<1>2. CASE WorkMark(w) \/ WorkCache(w)
  <2>1. PICK t \in Tasks : t = job[w]
    BY <1>2 DEF WorkMark, WorkCache, Safe, WorkersKnow
  <2>2. PICK st \in Statuses : /\ cache' = [cache EXCEPT ![t] = st]
                               /\ st = "RUNNING" \/ st = status'[t]
    BY <1>2, <2>1 DEF WorkMark, WorkCache, CacheStatus, rowVars, Safe, TypeOK, Statuses, Cancellable
  <2>3. view' = view
    BY <1>2 DEF WorkMark, WorkCache, CacheStatus
  <2> QED  BY <1>1, <2>2, <2>3, WrittenCopies DEF Terminal
<1>3. CASE ~WorkMark(w) /\ ~WorkCache(w)
  <2>1. UNCHANGED <<cache, view>>
    BY <1>3 DEF WorkerActs, WorkTake, Work, WorkAbort, WorkStart, WorkExecute, WorkSettle,
                WorkFinalize, WorkRelease, readVars
  <2> QED  BY <1>1, <2>1, WrittenCopies
<1> QED  BY <1>2, <1>3

LEMMA ReconCopies ==
  ASSUME Safe, RowsMove, CopiesTrue, ReconActs, UNCHANGED pjob
  PROVE  CopiesTrue'
<1>1. UNCHANGED seen
  BY ReconFrame DEF requestVars
<1>2. CASE Align \/ AlignCache
  <2>1. PICK t \in Tasks, st \in Statuses : t = xjob[1] /\ st = xjob[2]
    BY <1>2 DEF Align, AlignCache, Safe, ReconKnows, Statuses
  <2>2. CASE Align /\ view' # view
    <3>1. Finish(t, st) /\ view' = [view EXCEPT ![t] = st] /\ UNCHANGED cache
      BY <2>1, <2>2 DEF Align
    <3>2. status'[t] = st
      BY <3>1 DEF Finish, Advance, Safe, TypeOK
    <3> QED  BY <1>1, <2>1, <3>1, <3>2, WrittenCopies
  <2>3. CASE AlignCache
    <3>1. cache' = [cache EXCEPT ![t] = st] /\ view' = view /\ status'[t] = st
      BY <2>1, <2>3 DEF AlignCache, CacheStatus, rowVars, Safe, ReconKnows
    <3> QED  BY <1>1, <2>1, <3>1, WrittenCopies
  <2>4. CASE Align /\ view' = view
    BY <1>1, <2>4, WrittenCopies DEF Align
  <2> QED  BY <1>2, <2>2, <2>3, <2>4
<1>3. CASE ~Align /\ ~AlignCache
  <2>1. UNCHANGED <<cache, view>>
    BY <1>3 DEF ReconActs, Reconcile, AlignRelease, AlignAbort, readVars
  <2> QED  BY <1>1, <2>1, WrittenCopies
<1> QED  BY <1>2, <1>3

LEMMA CommandCopies ==
  ASSUME Safe, CopiesTrue, [Next]_vars, UNCHANGED pjob
  PROVE  CopiesTrue'
<1>1. RowsMove
  BY NextMoves
<1>2. RestActs => UNCHANGED <<seen, cache, view>>
  BY DEF RestActs, TimeOut, Dispatch, Topup, Relay, vars, requestVars, readVars
<1>3. CASE RestActs
  BY <1>1, <1>2, <1>3, WrittenCopies
<1> QED  BY <1>1, <1>3, WhoActs, RequestCopies, CancelCopies, WorkerCopies, ReconCopies

-----------------------------------------------------------------------------
(* The readers *)

SideActs ==
  \/ Project \/ ProjectAbort \/ \E S \in SUBSET ToRead : ProjectMiss(S)
  \/ \E t \in Tasks : Tell(t) \/ CacheExpire(t)
  \/ \E S \in SUBSET ToTell \ {{}} : TellMiss(S)
  \/ Rebuild \/ RebuildAbort

LEMMA SideFrame == SideActs => UNCHANGED commandVars
BY DEF SideActs, Project, ProjectApply, ProjectCache, ProjectKnown, ProjectRead, ProjectAbort,
       ProjectMiss, Tell, CacheExpire, TellMiss, Rebuild, RebuildClear, RebuildReset, RebuildFill,
       RebuildAbort

(* What a step of theirs writes to hash and view.                            *)
SideWrites ==
  /\ \A t \in Tasks : cache'[t] \in {cache[t], "none"} \/ (t = pjob[1][1] /\ cache'[t] = pjob[2])
  /\ \A t \in Tasks : \/ view'[t] \in {view[t], "none", status[t]}
                      \/ t = pjob[1][1] /\ view'[t] = pjob[2]
  /\ pjob' = pjob \/ pjob'[2] = "none" \/ \E t \in Tasks : pjob'[1][1] = t /\ pjob'[2] = status[t]
  /\ cache' \in [Tasks -> Statuses] /\ view' \in [Tasks -> Statuses]
  /\ astray' \subseteq Tasks /\ faults' \in Nat

LEMMA SideEffect ==
  ASSUME ReadSafe, SideActs
  PROVE  SideWrites
<1> USE DEF ReadSafe, Safe, TypeOK, SideWrites, CacheStatus, readVars, faultVars
<1>1. CASE ProjectApply
  BY <1>1 DEF ProjectApply
<1>2. CASE ProjectCache
  BY <1>2 DEF ProjectCache, ProjectorRests
<1>3. ASSUME NEW e \in Events, ProjectKnown(e) PROVE SideWrites
  BY <1>3 DEF ProjectKnown
<1>4. ASSUME NEW e \in Events, ProjectRead(e) PROVE SideWrites
  <2>1. e[1] \in Tasks
    BY DEF Events
  <2> QED  BY <1>4, <2>1 DEF ProjectRead
<1>5. CASE ProjectAbort
  BY <1>5 DEF ProjectAbort, ProjectorRests, Fault
<1>6. ASSUME NEW S \in SUBSET ToRead, ProjectMiss(S) PROVE SideWrites
  <2>1. {e[1] : e \in S} \subseteq Tasks
    BY DEF ToRead, Events
  <2> QED  BY <1>6, <2>1 DEF ProjectMiss, ProjectorRests
<1>7. ASSUME NEW t \in Tasks, Tell(t) PROVE SideWrites
  BY <1>7 DEF Tell, projectVars
<1>8. ASSUME NEW t \in Tasks, CacheExpire(t) PROVE SideWrites
  BY <1>8 DEF CacheExpire, sideVars, Statuses
<1>9. ASSUME NEW S \in SUBSET ToTell, TellMiss(S) PROVE SideWrites
  <2>1. S \subseteq Tasks
    BY DEF ToTell
  <2> QED  BY <1>9, <2>1 DEF TellMiss, projectVars
<1>10. CASE RebuildClear
  BY <1>10 DEF RebuildClear, projectVars, Statuses
<1>11. CASE RebuildReset
  BY <1>11 DEF RebuildReset, Statuses
<1>12. CASE RebuildFill
  BY <1>12 DEF RebuildFill, projectVars
<1>13. CASE RebuildAbort
  BY <1>13 DEF RebuildAbort, Fault, projectVars
<1> QED  BY <1>1, <1>2, <1>3, <1>4, <1>5, <1>6, <1>7, <1>8, <1>9, <1>10, <1>11, <1>12, <1>13
         DEF SideActs, Project, Rebuild

LEMMA SideSafe ==
  ASSUME ReadSafe, SideActs
  PROVE  ReadSafe'
<1>1. UNCHANGED commandVars
  BY SideFrame
<1>2. SideWrites
  BY SideEffect
<1>3. Safe'
  <2>1. TypeOK'
    BY <1>1, <1>2 DEF ReadSafe, Safe, TypeOK, SideWrites, commandVars, billVars, rowVars, busVars,
                      requestVars, workVars, reconVars
  <2> QED  BY <1>1, <2>1
           DEF ReadSafe, Safe, RowsFollow, WorkersKnow, CancelsKnow, ReconKnows, OutcomesArePaid,
               commandVars, billVars, rowVars, requestVars, workVars, reconVars
<1>4. pjob'[2] \in Statuses
  BY <1>2 DEF ReadSafe, Safe, TypeOK, SideWrites, Statuses
<1>5. UNCHANGED <<status, seen>>
  BY <1>1 DEF commandVars, rowVars, requestVars
<1>6. CopiesTrue'
  BY <1>2, <1>5 DEF ReadSafe, CopiesTrue, TrueOf, SideWrites, Terminal
<1> QED  BY <1>3, <1>4, <1>6 DEF ReadSafe

(* No copy of a status, however late it was made or written, holds an outcome *)
(* that is not the row's.                                                     *)
THEOREM AlwaysReadSafe == ReadSpec => []ReadSafe
<1>1. ReadInit => ReadSafe
  <2> SUFFICES ASSUME ReadInit PROVE ReadSafe
    OBVIOUS
  <2>1. Safe
    BY InitSafe DEF ReadInit
  <2>2. CopiesTrue
    BY DEF ReadInit, Init, CopiesTrue, TrueOf, NoneSeen, Terminal
  <2> QED  BY <2>1, <2>2 DEF ReadSafe, ReadInit, Statuses
<1>2. ReadSafe /\ [ReadNext]_allVars => ReadSafe'
  <2> SUFFICES ASSUME ReadSafe, [ReadNext]_allVars PROVE ReadSafe'
    OBVIOUS
  <2>1. CASE [Next]_vars /\ UNCHANGED sideVars
    <3>1. Safe' /\ UNCHANGED pjob
      BY <2>1, NextSafe DEF ReadSafe, sideVars
    <3> QED  BY <2>1, <3>1, CommandCopies DEF ReadSafe
  <2>2. CASE SideActs
    BY <2>2, SideSafe
  <2> QED  BY <2>1, <2>2 DEF ReadNext, allVars, SideActs
<1> QED  BY <1>1, <1>2, PTL DEF ReadSpec

(* A poll never reports an outcome but the row's, from whichever of hash,    *)
(* view and row it comes and whichever of their writers was late: handlers,  *)
(* workers, reconciler, projector, rebuild.                                  *)
THEOREM PollsAlwaysTellOutcomes == ReadSpec => []PollsTellOutcomes
<1>1. ReadSafe => PollsTellOutcomes
  BY DEF ReadSafe, CopiesTrue, TrueOf, PollsTellOutcomes, Polled
<1> QED  BY <1>1, AlwaysReadSafe, PTL

(* With the readers beside it the command side keeps what it promises alone: *)
(* their failures do not reach transfers, rows or counters.                  *)
THEOREM OutcomesPaidWithReaders == ReadSpec => []OutcomesArePaid
<1>1. ReadSafe => OutcomesArePaid
  BY DEF ReadSafe, Safe
<1> QED  BY <1>1, AlwaysReadSafe, PTL

LEMMA SideSlots ==
  ASSUME SideActs
  PROVE  SlotEffect /\ Quieter
<1>1. UNCHANGED <<status, rpc, active>> /\ UNCHANGED <<cpc, workVars, reconVars>>
  BY SideFrame DEF commandVars, rowVars, requestVars
<1>2. Quieter /\ \A t \in Tasks : Released(t)' <=> Released(t)
  BY <1>1, StillReleased
<1>3. astray \subseteq astray'
  BY DEF SideActs, Project, ProjectApply, ProjectCache, ProjectKnown, ProjectRead, ProjectAbort,
         ProjectMiss, Tell, CacheExpire, TellMiss, Rebuild, RebuildClear, RebuildReset,
         RebuildFill, RebuildAbort, Fault, faultVars
<1> QED  BY <1>1, <1>2, <1>3 DEF SlotEffect, KeepsSlots, SameSlot

(* The active counters count the admitted, unreleased tasks with the readers  *)
(* and the rebuild beside the command side, too.                              *)
THEOREM SlotsAccountedWithReaders == ReadSpec => []SlotsAccounted
<1>1. ReadInit => OneReleases /\ SlotsAccounted
  BY InitSlots DEF ReadInit
<1>2. ReadSafe /\ OneReleases /\ SlotsAccounted /\ [ReadNext]_allVars
      => OneReleases' /\ SlotsAccounted'
  <2> SUFFICES ASSUME ReadSafe, OneReleases, SlotsAccounted, [ReadNext]_allVars
               PROVE  OneReleases' /\ SlotsAccounted'
    OBVIOUS
  <2>1. Safe /\ TypeOK /\ active \in [Users -> Int]
    BY DEF ReadSafe, Safe, TypeOK
  <2>2. CASE [Next]_vars /\ UNCHANGED sideVars
    <3>1. SlotEffect /\ OneReleases' /\ active' \in [Users -> Int]
      BY <2>1, <2>2, NextSlots, NextSafe DEF Safe, TypeOK
    <3> QED  BY <2>1, <3>1, EffectAccounts
  <2>3. CASE SideActs
    <3>1. SlotEffect /\ OneReleases' /\ UNCHANGED active
      BY <2>3, SideSlots, SideFrame, QuieterOne DEF commandVars
    <3> QED  BY <2>1, <3>1, EffectAccounts
  <2> QED  BY <2>2, <2>3 DEF ReadNext, allVars, SideActs
<1> QED  BY <1>1, <1>2, AlwaysReadSafe, PTL DEF ReadSpec

(* Projector, webhook worker, rebuild and polls move no credits: with them,   *)
(* too, every behaviour is one of CreditHold.                                 *)
THEOREM ImplementsCreditHoldWithReaders == ReadSpec => Billing!Spec
<1>1. ReadInit => ReservesOnce /\ Billing!Init
  BY InitMaps DEF ReadInit
<1>2. ReadSafe /\ ReservesOnce /\ [ReadNext]_allVars
      => ReservesOnce' /\ [Billing!Next]_<<Grants, Holds>>
  <2> SUFFICES ASSUME ReadSafe, ReservesOnce, [ReadNext]_allVars
               PROVE  ReservesOnce' /\ [Billing!Next]_<<Grants, Holds>>
    OBVIOUS
  <2>1. CASE [Next]_vars
    BY <2>1, NextMaps DEF ReadSafe
  <2>2. CASE SideActs
    <3>1. UNCHANGED <<granted, transfer, rpc>>
      BY <2>2, SideFrame DEF commandVars, billVars, requestVars
    <3> QED  BY <3>1 DEF ReservesOnce, Grants, Holds, ToppedUp
  <2> QED  BY <2>1, <2>2 DEF ReadNext, allVars, SideActs
<1> QED  BY <1>1, <1>2, AlwaysReadSafe, PTL DEF ReadSpec, Billing!Spec

=============================================================================

------------------------- MODULE DeductedTaskProofs -------------------------
(***************************************************************************)
(* Proofs about DeductedTask and DeductedRead, for any users, tasks, keys, *)
(* cancels, workers, adjustments and scenes, so for any number of failures.*)
(*                                                                         *)
(* A task's credits and slot are those of exactly one of the request, the  *)
(* row, a cancel, a worker or the reaper (Sane), so that a step which      *)
(* takes or gives back credits or a slot takes a task into, or out of, the *)
(* set of those that hold them, and no other step does (Effects).  The     *)
(* balance and the counter move with the sizes of these sets.              *)
(***************************************************************************)
EXTENDS DeductedRead, TLAPS, FiniteSetTheorems

-----------------------------------------------------------------------------
(* Types *)

Statuses == {"none"} \cup Open \cup Outcomes
CancelSteps == {"transact", "refund", "slot", "revoke"}
WorkSteps == {"start", "execute", "fail", "cacheFailed"} \cup GiveSteps
Orphaned == {"orphan", "orphanSlot", "unkey", "unmark"}
ReapSteps == {"refund", "slot"} \cup Orphaned

BillsTyped == credits \in [Users -> Nat \cup {NoBalance}] /\ active \in [Users -> Nat]
AdminTyped == stored \in [Users -> Nat] /\ made \subseteq Adjusts /\ syncs \subseteq Adjusts \X Nat
RowsTyped == status \in [Tasks -> Statuses] /\ ledger \in [Tasks -> Int]
MarksTyped == keys \subseteq Tasks /\ markers \subseteq Tasks
RequestsTyped ==
  /\ rpc \in [Tasks -> {"idle", "ended"} \cup RequestSteps]
  /\ cpc \in [Cancels -> {"idle", "ended"} \cup CancelSteps]
  /\ got \in [Tasks -> Nat]
QueueTyped == queue \subseteq Tasks \X Nat
WorkersTyped ==
  /\ wpc \in [Workers -> {"idle"} \cup WorkSteps]
  /\ job \in [Workers -> (Tasks \cup {NoTask}) \X Nat]
  /\ \A w \in Workers : wpc[w] # "idle" => job[w] \in Tasks \X Nat
ReaperTyped ==
  /\ xpc \in {"idle"} \cup ReapSteps /\ xjob \in Tasks \cup {NoTask}
  /\ xpc # "idle" => xjob \in Tasks
FaultsTyped == rewritten \subseteq Users /\ astray \subseteq Tasks /\ faults \in Nat

TypeOK ==
  /\ BillsTyped /\ AdminTyped /\ RowsTyped /\ MarksTyped /\ RequestsTyped /\ QueueTyped
  /\ WorkersTyped /\ ReaperTyped /\ FaultsTyped

-----------------------------------------------------------------------------
(* What the actors know of the rows *)

RowsFollow ==
  \A t \in Tasks :
    /\ rpc[t] \in {"idle", "hydrate", "fill", "regate", "mark", "persist"} => status[t] = "none"
    /\ rpc[t] \in {"idle", "hydrate", "fill", "regate", "mark"} => t \notin markers
    /\ rpc[t] \in {"send", "clear"} \cup RevertSteps => status[t] # "none"

WorkersKnow ==
  \A w \in Workers, t \in Tasks : job[w][1] = t =>
    /\ wpc[w] \in {"cache", "slot"} => status[t] = "COMPLETED"
    /\ wpc[w] \in {"refund", "slotFailed", "cacheFailed"} => status[t] = "FAILED"

CancelsKnow ==
  \A c \in Cancels : cpc[c] \in {"refund", "slot", "revoke"} => status[CancelOf[c]] = "CANCELLED"

-----------------------------------------------------------------------------
(* A task that no failure has led astray *)

CancelDue(c, t) == CancelOf[c] = t /\ cpc[c] \in {"refund", "slot"}
WorkDue(w, t) == job[w][1] = t /\ wpc[w] \in GiveSteps
ReapDue(t) == xjob = t /\ xpc \in {"refund", "slot"}

(* A message is sent when the row is there, and nothing is reverted then. *)
Sent(t) == (\E m \in queue : m[1] = t) \/ (\E w \in Workers : job[w][1] = t)

RequestSane(t) ==
  /\ rpc[t] \in {"persist"} \cup UndoSteps => t \in markers /\ status[t] = "none"
  /\ rpc[t] \in RevertSteps \ {"revertLedger"} => status[t] = "PENDING"
  /\ rpc[t] = "revertLedger" => status[t] = "FAILED" /\ ledger[t] = -Cost
  /\ Sent(t) \/ status[t] \in {"RUNNING", "COMPLETED"} => rpc[t] \in {"clear", "ended"}
  /\ status[t] = "FAILED" => rpc[t] \in {"clear", "ended", "revertLedger"}
  /\ status[t] = "CANCELLED" => rpc[t] \in {"send", "clear", "ended"}

LedgerSane(t) ==
  rpc[t] # "revertLedger" =>
    ledger[t] = IF status[t] \in Open \cup {"COMPLETED"} THEN -Cost ELSE 0

(* An orphan, whose request has ended without a row, or a stuck task. *)
ReaperSane(t) ==
  xjob = t /\ xpc # "idle" =>
    \/ status[t] = "none" /\ rpc[t] = "ended" /\ t \in markers /\ xpc \in Orphaned
    \/ status[t] = "FAILED" /\ xpc \in {"refund", "slot"}

OneEnds(t) ==
  /\ \A c, d \in Cancels : CancelDue(c, t) /\ CancelDue(d, t) => c = d
  /\ \A v, w \in Workers : WorkDue(v, t) /\ WorkDue(w, t) => v = w
  /\ ReapDue(t) => \A w \in Workers : ~WorkDue(w, t)

Sane(t) == RequestSane(t) /\ LedgerSane(t) /\ ReaperSane(t) /\ OneEnds(t)

Safe ==
  /\ TypeOK /\ RowsFollow /\ WorkersKnow /\ CancelsKnow
  /\ \A t \in Tasks \ astray : Sane(t)

-----------------------------------------------------------------------------
(* The books of a user *)

Syncing(u) == \E sync \in syncs : AdjustUser[sync[1]] = u

CreditsBalance(u) ==
  \/ Syncing(u)
  \/ credits[u] = NoBalance /\ Holding(u) = {}
  \/ credits[u] # NoBalance /\ credits[u] = stored[u] - Cost * Cardinality(Holding(u))

SlotsBalance(u) == active[u] = Cardinality(Occupying(u))

Balanced == \A u \in Users : Sound(u) => CreditsBalance(u) /\ SlotsBalance(u)

-----------------------------------------------------------------------------
(* Whose step it is *)

RequestActs(t) ==
  Gate(t) \/ GateLost(t) \/ Request(t) \/ RevertError(t) \/ RequestAbort(t)
CancelActs(c) == CancelRead(c) \/ Cancel(c) \/ CancelAbort(c)
WorkerActs(w) == Work(w) \/ WorkGiveAgain(w) \/ WorkCrash(w) \/ WorkCache(w)
ReaperActs == Reap \/ ReapAbort

LEMMA WhoActs ==
  ASSUME [Next]_vars
  PROVE  \/ /\ UNCHANGED fixedVars
            /\ \/ \E t \in Tasks : RequestActs(t)
               \/ \E c \in Cancels : CancelActs(c)
               \/ \E w \in Workers : WorkerActs(w)
               \/ \E u \in Users : Authenticate(u)
               \/ ReaperActs
         \/ Admin
         \/ UNCHANGED vars
BY DEF Next, Step, RequestActs, CancelActs, WorkerActs, ReaperActs

LEMMA Constants ==
  /\ Cost \in Nat /\ Cost > 0 /\ MaxConcurrent \in Nat /\ MaxRetries \in Nat
  /\ NoTask \notin Tasks /\ IsFiniteSet(Tasks)
  /\ \A t \in Tasks : UserOf[t] \in Users
  /\ \A c \in Cancels : CancelOf[c] \in Tasks
  /\ \A a \in Adjusts : AdjustUser[a] \in Users /\ AdjustBy[a] \in Int
BY ConstantsOK DEF ConstantsOK

-----------------------------------------------------------------------------
(* Types *)

LEMMA BillCalls ==
  ASSUME BillsTyped, NEW t \in Tasks, GiveBack(t) \/ GiveSlot(t) \/ Admit(t)
  PROVE  BillsTyped'
<1> DEFINE u == UserOf[t]
<1>1. u \in Users
  BY Constants
<1>2. CASE GiveBack(t)
  BY <1>1, <1>2, Constants DEF BillsTyped, GiveBack, Credit, NoBalance
<1>3. CASE GiveSlot(t)
  BY <1>1, <1>3 DEF BillsTyped, GiveSlot
<1>4. CASE Admit(t)
  <2>1. credits[u] \in Nat /\ credits[u] - Cost \in Nat
    BY <1>1, <1>4, Constants DEF BillsTyped, Admit, Admissible, NoBalance
  <2> QED  BY <1>1, <1>4, <2>1 DEF BillsTyped, Admit
<1> QED  BY <1>2, <1>3, <1>4

LEMMA FaultCalls ==
  ASSUME FaultsTyped, NEW t \in Tasks,
         UNCHANGED faultVars \/ Fault \/ Misled(t)
  PROVE  FaultsTyped'
BY DEF FaultsTyped, faultVars, Fault, Misled

LEMMA RowCalls ==
  ASSUME RowsTyped, NEW t \in Tasks
  PROVE  /\ UNCHANGED rowVars => RowsTyped'
         /\ \A st \in Statuses, f \in SUBSET Statuses :
              SetStatus(t, f, st) /\ UNCHANGED ledger => RowsTyped'
         /\ \A st \in Statuses : EndWithRefund(t, st) => RowsTyped'
         /\ Insert(t) => RowsTyped'
BY Constants DEF RowsTyped, rowVars, SetStatus, EndWithRefund, Insert, Statuses, Open

LEMMA RequestTypes ==
  ASSUME TypeOK, NEW t \in Tasks, RequestActs(t), UNCHANGED fixedVars
  PROVE  TypeOK'
<1> USE DEF TypeOK
<1>1. AdminTyped' /\ WorkersTyped' /\ ReaperTyped'
  <2>1. UNCHANGED <<workVars, reapVars>>
    BY DEF RequestActs, Request, Gate, GateLost, HydrateRead, HydrateFill, MarkPending, Persist,
           Undo, Send, Revert, Clear, RevertError, RequestAbort
  <2> QED  BY <2>1 DEF fixedVars, adminVars, AdminTyped, WorkersTyped, ReaperTyped, workVars, reapVars
<1>2. BillsTyped'
  <2>1. CASE HydrateFill(t)
    BY <2>1, Constants DEF HydrateFill, BillsTyped, RequestsTyped
  <2>2. CASE UNCHANGED billVars
    BY <2>2 DEF billVars, BillsTyped
  <2> QED
    BY <2>1, <2>2, BillCalls
    DEF RequestActs, Request, Gate, GateLost, HydrateRead, MarkPending, Persist, Undo, Send,
        Revert, Clear, RevertError, RequestAbort
<1>3. FaultsTyped'
  <2>1. CASE HydrateFill(t)
    BY <2>1, Constants DEF HydrateFill, Rewritten, FaultsTyped
  <2>2. CASE ~HydrateFill(t)
    BY <2>2, FaultCalls
    DEF FaultAt, RequestActs, Request, Gate, GateLost, HydrateRead, MarkPending, Persist, Undo, Send,
        Revert, Clear, RevertError, RequestAbort
  <2> QED  BY <2>1, <2>2
<1>4. MarksTyped'
  BY DEF MarksTyped, RequestActs, Request, Gate, Admit, GateLost, HydrateRead, HydrateFill,
         MarkPending, Persist, Undo, Send, Revert, Clear, RevertError, RequestAbort, ForgetKey,
         ForgetMarker, markVars
<1>5. RowsTyped'
  <2>1. CASE Revert(t)
    <3>1. CASE SetStatus(t, Open, "FAILED") /\ UNCHANGED ledger
      BY <3>1 DEF RowsTyped, SetStatus, Statuses, Outcomes
    <3>2. CASE UNCHANGED status /\ ledger' = [ledger EXCEPT ![t] = @ + Cost]
      BY <3>2, Constants DEF RowsTyped
    <3> QED  BY <2>1, <3>1, <3>2, RowCalls DEF Revert, Ended
  <2>2. CASE ~Revert(t)
    BY <2>2, RowCalls
    DEF RequestActs, Request, Gate, GateLost, HydrateRead, HydrateFill, MarkPending, Persist, Undo,
        Send, Clear, RevertError, RequestAbort
  <2> QED  BY <2>1, <2>2
<1>6. QueueTyped'
  BY DEF QueueTyped, RequestActs, Request, Gate, GateLost, HydrateRead, HydrateFill, MarkPending,
         Persist, Undo, Send, Revert, Clear, RevertError, RequestAbort
<1>7. RequestsTyped'
  <2>1. got' \in [Tasks -> Nat] /\ cpc' = cpc
    BY Constants
    DEF RequestsTyped, AdminTyped, RequestActs, Request, Gate, GateLost, HydrateRead, HydrateFill,
        MarkPending, Persist, Undo, Send, Revert, Clear, RevertError, RequestAbort, Go
  <2>2. rpc' \in [Tasks -> {"idle", "ended"} \cup RequestSteps]
    BY DEF RequestsTyped, RequestActs, Request, Gate, GateLost, HydrateRead, HydrateFill,
           MarkPending, Persist, Undo, Send, Revert, Clear, RevertError, RequestAbort, Go,
           RequestSteps, UndoSteps, RevertSteps
  <2> QED  BY <2>1, <2>2 DEF RequestsTyped
<1> QED  BY <1>1, <1>2, <1>3, <1>4, <1>5, <1>6, <1>7

LEMMA CancelTypes ==
  ASSUME TypeOK, NEW c \in Cancels, CancelActs(c), UNCHANGED fixedVars
  PROVE  TypeOK'
<1> USE DEF TypeOK
<1> DEFINE t == CancelOf[c]
<1>0. t \in Tasks
  BY Constants
<1>1. AdminTyped' /\ MarksTyped' /\ ReaperTyped'
  <2>1. UNCHANGED <<markVars, reapVars>>
    BY DEF CancelActs, Cancel, CancelRead, CancelTransact, CancelRefund, CancelRevoke, CancelAbort
  <2> QED  BY <2>1 DEF fixedVars, adminVars, AdminTyped, MarksTyped, ReaperTyped, markVars, reapVars
<1>2. BillsTyped'
  <2>1. CASE UNCHANGED billVars
    BY <2>1 DEF billVars, BillsTyped
  <2> QED
    BY <1>0, <2>1, BillCalls
    DEF CancelActs, Cancel, CancelRead, CancelTransact, CancelRefund, CancelRevoke, CancelAbort
<1>3. FaultsTyped'
  <2>1. CASE CancelTransact(c)
    BY <1>0, <2>1 DEF CancelTransact, FaultsTyped
  <2>2. CASE ~CancelTransact(c)
    BY <1>0, <2>2, FaultCalls
    DEF FaultAt, CancelActs, Cancel, CancelRead, CancelRefund, CancelRevoke, CancelAbort
  <2> QED  BY <2>1, <2>2
<1>4. RowsTyped'
  <2>1. "CANCELLED" \in Statuses
    BY DEF Statuses, Outcomes
  <2> QED
    BY <1>0, <2>1, RowCalls
    DEF CancelActs, Cancel, CancelRead, CancelTransact, CancelRefund, CancelRevoke, CancelAbort, Ended
<1>5. QueueTyped' /\ WorkersTyped'
  <2>1. CASE CancelRevoke(c)
    BY <2>1 DEF CancelRevoke, QueueTyped, WorkersTyped, workVars, NoJob
  <2>2. CASE UNCHANGED <<queue, workVars>>
    BY <2>2 DEF QueueTyped, WorkersTyped, workVars
  <2> QED
    BY <2>1, <2>2
    DEF CancelActs, Cancel, CancelRead, CancelTransact, CancelRefund, CancelAbort
<1>6. RequestsTyped'
  BY DEF RequestsTyped, CancelActs, Cancel, CancelRead, CancelTransact, CancelRefund, CancelRevoke,
         CancelAbort, GoCancel, CancelSteps
<1> QED  BY <1>1, <1>2, <1>3, <1>4, <1>5, <1>6

LEMMA WorkerTypes ==
  ASSUME TypeOK, NEW w \in Workers, WorkerActs(w), UNCHANGED fixedVars
  PROVE  TypeOK'
<1> USE DEF TypeOK
<1>1. AdminTyped' /\ MarksTyped' /\ ReaperTyped' /\ RequestsTyped'
  <2>1. UNCHANGED <<markVars, reapVars, requestVars>>
    BY DEF WorkerActs, Work, WorkTake, WorkStart, WorkRaise, WorkComplete, WorkFail, WorkGive,
           WorkGiveAgain, WorkCrash, WorkCache
  <2> QED
    BY <2>1 DEF fixedVars, adminVars, AdminTyped, MarksTyped, ReaperTyped, RequestsTyped, markVars,
                reapVars, requestVars
<1>2. CASE \E m \in queue : WorkTake(w, m)
  <2>1. PICK m \in queue : WorkTake(w, m)
    BY <1>2
  <2>2. m \in Tasks \X Nat
    BY DEF QueueTyped
  <2>3. WorkersTyped' /\ QueueTyped'
    BY <2>1, <2>2 DEF WorkTake, WorkersTyped, QueueTyped, WorkSteps
  <2> QED
    BY <1>1, <2>1, <2>3
    DEF WorkTake, BillsTyped, RowsTyped, FaultsTyped, billVars, rowVars, faultVars
<1>3. CASE ~\E m \in queue : WorkTake(w, m)
  <2>1. PICK t \in Tasks, n \in Nat : job[w] = <<t, n>>
    <3>1. wpc[w] # "idle"
      BY <1>3
      DEF WorkerActs, Work, WorkStart, WorkRaise, WorkComplete, WorkFail, WorkGive, WorkGiveAgain,
          WorkCrash, WorkCache
    <3> QED  BY <3>1 DEF WorkersTyped
  <2>2. job[w][1] = t /\ job[w][2] = n
    BY <2>1
  <2>3. BillsTyped'
    <3>1. CASE UNCHANGED billVars
      BY <3>1 DEF billVars, BillsTyped
    <3> QED
      BY <1>3, <2>2, <3>1, BillCalls
      DEF WorkerActs, Work, WorkStart, WorkRaise, WorkComplete, WorkFail, WorkGive, WorkGiveAgain,
          WorkCrash, WorkCache
  <2>4. FaultsTyped'
    BY <1>3, <2>2, FaultCalls
    DEF FaultAt, WorkerActs, Work, WorkStart, WorkRaise, WorkComplete, WorkFail, WorkGive, WorkGiveAgain,
        WorkCrash, WorkCache
  <2>5. RowsTyped'
    <3>1. CASE WorkFail(w)
      BY <2>2, <3>1, RowCalls DEF WorkFail, Statuses, Outcomes, Ended
    <3>2. CASE ~WorkFail(w)
      BY <1>3, <2>2, <3>2
      DEF WorkerActs, Work, WorkStart, WorkRaise, WorkComplete, WorkGive, WorkGiveAgain, WorkCrash,
          WorkCache, RowsTyped, SetStatus, Statuses, Open, Outcomes, rowVars
    <3> QED  BY <3>1, <3>2
  <2>6. QueueTyped'
    BY <1>3, <2>1, <2>2
    DEF WorkerActs, Work, WorkStart, WorkRaise, Retry, WorkComplete, WorkFail, WorkGive,
        WorkGiveAgain, WorkCrash, WorkCache, QueueTyped
  <2>7. \/ \E step \in WorkSteps : GoWork(w, step)
        \/ Leave(w) \/ UNCHANGED workVars
    BY <1>3
    DEF WorkerActs, Work, WorkStart, WorkRaise, Retry, WorkComplete, WorkFail, WorkGive,
        WorkGiveAgain, WorkCrash, WorkCache, WorkSteps, GiveSteps
  <2>8. WorkersTyped'
    <3>1. CASE \E step \in WorkSteps : GoWork(w, step)
      BY <2>1, <3>1 DEF WorkersTyped, GoWork
    <3>2. CASE Leave(w)
      BY <2>1, <3>2 DEF WorkersTyped, Leave, NoJob
    <3>3. CASE UNCHANGED workVars
      BY <3>3 DEF WorkersTyped, workVars
    <3> QED  BY <2>7, <3>1, <3>2, <3>3
  <2> QED  BY <1>1, <2>3, <2>4, <2>5, <2>6, <2>8
<1> QED  BY <1>2, <1>3

LEMMA ReaperTypes ==
  ASSUME TypeOK, ReaperActs, UNCHANGED fixedVars
  PROVE  TypeOK'
<1> USE DEF TypeOK
<1>1. AdminTyped' /\ WorkersTyped' /\ RequestsTyped' /\ QueueTyped'
  <2>1. UNCHANGED <<workVars, requestVars, queue>>
    BY DEF ReaperActs, Reap, ReapMarker, ReapStuck, ReapRefund, ReapAbort
  <2> QED
    BY <2>1 DEF fixedVars, adminVars, AdminTyped, WorkersTyped, RequestsTyped, QueueTyped, workVars,
                requestVars
<1>2. ASSUME NEW t \in Tasks, ReapMarker(t) \/ ReapStuck(t)
      PROVE  TypeOK'
  <2>1. BillsTyped' /\ MarksTyped'
    BY <1>2 DEF ReapMarker, ReapStuck, BillsTyped, MarksTyped, ForgetMarker, billVars, markVars
  <2>2. RowsTyped'
    BY <1>2, RowCalls DEF ReapMarker, ReapStuck, Statuses, Outcomes
  <2>3. ReaperTyped'
    BY <1>2 DEF ReapMarker, ReapStuck, ReaperTyped, GoReap, reapVars, ReapSteps, Orphaned
  <2>4. FaultsTyped'
    BY <1>2, FaultCalls DEF ReapMarker, ReapStuck, Old
  <2> QED  BY <1>1, <2>1, <2>2, <2>3, <2>4
<1>3. CASE ReapRefund \/ ReapAbort
  <2>1. xjob \in Tasks
    BY <1>3 DEF ReaperTyped, ReapRefund, ReapAbort
  <2>2. BillsTyped'
    BY <1>3, <2>1, BillCalls DEF ReapRefund, ReapAbort, BillsTyped, billVars
  <2>3. MarksTyped' /\ RowsTyped'
    BY <1>3 DEF ReapRefund, ReapAbort, MarksTyped, RowsTyped, ForgetKey, ForgetMarker, markVars, rowVars
  <2>4. ReaperTyped'
    BY <1>3, <2>1 DEF ReapRefund, ReapAbort, ReaperTyped, GoReap, Resting, ReapSteps, Orphaned
  <2>5. FaultsTyped'
    BY <1>3, <2>1, FaultCalls DEF ReapRefund, ReapAbort, FaultAt
  <2> QED  BY <1>1, <2>2, <2>3, <2>4, <2>5
<1> QED  BY <1>2, <1>3 DEF ReaperActs, Reap

LEMMA AdminTypes ==
  ASSUME TypeOK, Admin
  PROVE  TypeOK' /\ UNCHANGED <<rowVars, markVars, queue, requestVars, workVars, reapVars, astray>>
<1> USE DEF TypeOK
<1>1. UNCHANGED <<active, rowVars, markVars, queue, requestVars, workVars, reapVars, astray>>
  BY DEF Admin, AdminUpdate, AdminSync, AdminLost, taskVars, billVars, faultVars
<1>2. RowsTyped' /\ MarksTyped' /\ QueueTyped' /\ RequestsTyped' /\ WorkersTyped' /\ ReaperTyped'
  BY <1>1 DEF RowsTyped, MarksTyped, QueueTyped, RequestsTyped, WorkersTyped, ReaperTyped,
              rowVars, markVars, requestVars, workVars, reapVars
<1>3. ASSUME NEW a \in Adjusts, AdminUpdate(a)
      PROVE  BillsTyped' /\ AdminTyped' /\ FaultsTyped'
  <2>1. stored'[AdjustUser[a]] = stored[AdjustUser[a]] + AdjustBy[a]
        /\ stored'[AdjustUser[a]] \in Nat
    BY <1>3, Constants DEF AdminUpdate, AdminTyped
  <2> QED
    BY <1>3, <2>1, Constants
    DEF AdminUpdate, taskVars, billVars, faultVars, BillsTyped, AdminTyped, FaultsTyped
<1>4. ASSUME NEW sync \in syncs, AdminSync(sync[1], sync[2]) \/ AdminLost(sync[1], sync[2])
      PROVE  BillsTyped' /\ AdminTyped' /\ FaultsTyped'
  <2>1. PICK a \in Adjusts, n \in Nat : sync = <<a, n>>
    BY DEF AdminTyped
  <2>2. AdminSync(a, n) \/ AdminLost(a, n)
    BY <1>4, <2>1
  <2> QED
    BY <2>2, Constants
    DEF AdminSync, AdminLost, Rewritten, BillsTyped, AdminTyped, FaultsTyped, billVars
<1> QED  BY <1>1, <1>2, <1>3, <1>4 DEF Admin

LEMMA NextTypes ==
  ASSUME TypeOK, [Next]_vars
  PROVE  TypeOK'
<1>1. ASSUME NEW u \in Users, Authenticate(u), UNCHANGED fixedVars PROVE TypeOK'
  BY <1>1 DEF Authenticate, fixedVars, adminVars, rowVars, markVars, requestVars, workVars, reapVars,
              faultVars, TypeOK, BillsTyped, AdminTyped, RowsTyped, MarksTyped, RequestsTyped,
              QueueTyped, WorkersTyped, ReaperTyped, FaultsTyped
<1>2. CASE UNCHANGED vars
  BY <1>2 DEF vars, taskVars, billVars, adminVars, rowVars, markVars, requestVars, workVars, reapVars,
              faultVars, TypeOK, BillsTyped, AdminTyped, RowsTyped, MarksTyped, RequestsTyped,
              QueueTyped, WorkersTyped, ReaperTyped, FaultsTyped
<1> QED  BY <1>1, <1>2, WhoActs, RequestTypes, CancelTypes, WorkerTypes, ReaperTypes, AdminTypes

-----------------------------------------------------------------------------
(* What a step leaves alone *)

LEMMA RequestFrame ==
  ASSUME TypeOK, NEW t \in Tasks, RequestActs(t)
  PROVE  /\ UNCHANGED <<cpc, workVars, reapVars>>
         /\ \A s \in Tasks \ {t} :
              /\ rpc'[s] = rpc[s] /\ status'[s] = status[s] /\ ledger'[s] = ledger[s]
              /\ (s \in markers' <=> s \in markers) /\ (s \in astray' <=> s \in astray)
         /\ \A m \in queue' : m \in queue \/ (Send(t) /\ m[1] = t)
         /\ astray \subseteq astray'
<1> USE DEF TypeOK, RequestsTyped, RowsTyped
<1>1. UNCHANGED <<cpc, workVars, reapVars>>
  BY DEF RequestActs, Request, Gate, GateLost, HydrateRead, HydrateFill, MarkPending, Persist,
         Undo, Send, Revert, Clear, RevertError, RequestAbort, Go
<1>2. ASSUME NEW s \in Tasks \ {t} PROVE rpc'[s] = rpc[s]
  BY DEF RequestActs, Request, Gate, GateLost, HydrateRead, HydrateFill, MarkPending, Persist,
         Undo, Send, Revert, Clear, RevertError, RequestAbort, Go
<1>3. ASSUME NEW s \in Tasks \ {t} PROVE status'[s] = status[s] /\ ledger'[s] = ledger[s]
  BY DEF RequestActs, Request, Gate, GateLost, HydrateRead, HydrateFill, MarkPending, Persist,
         Undo, Send, Revert, Clear, RevertError, RequestAbort, Insert, SetStatus, Ended, rowVars
<1>4. ASSUME NEW s \in Tasks \ {t} PROVE s \in markers' <=> s \in markers
  BY DEF RequestActs, Request, Gate, GateLost, HydrateRead, HydrateFill, MarkPending, Persist,
         Undo, Send, Revert, Clear, RevertError, RequestAbort, Admit, ForgetKey, ForgetMarker,
         markVars
<1>5. \/ UNCHANGED astray \/ astray' = astray \cup {t}
  BY DEF RequestActs, Request, Gate, GateLost, HydrateRead, HydrateFill, MarkPending, Persist,
         Undo, Send, Revert, Clear, RevertError, RequestAbort, Fault, Misled, FaultAt, faultVars
<1>6. \A m \in queue' : m \in queue \/ (Send(t) /\ m[1] = t)
  BY DEF RequestActs, Request, Gate, GateLost, HydrateRead, HydrateFill, MarkPending, Persist,
         Undo, Send, Revert, Clear, RevertError, RequestAbort
<1> QED  BY <1>1, <1>2, <1>3, <1>4, <1>5, <1>6

LEMMA CancelFrame ==
  ASSUME TypeOK, NEW c \in Cancels, CancelActs(c)
  PROVE  /\ UNCHANGED <<rpc, markVars, reapVars>>
         /\ \A d \in Cancels \ {c} : cpc'[d] = cpc[d]
         /\ \A s \in Tasks \ {CancelOf[c]} :
              /\ status'[s] = status[s] /\ ledger'[s] = ledger[s]
              /\ (s \in astray' <=> s \in astray)
         /\ queue' \subseteq queue
         /\ \A w \in Workers :
              \/ wpc'[w] = wpc[w] /\ job'[w] = job[w]
              \/ /\ cpc[c] = "revoke" /\ job[w][1] = CancelOf[c]
                 /\ wpc'[w] = "idle" /\ job'[w] = NoJob
         /\ astray \subseteq astray'
<1> USE DEF TypeOK, RequestsTyped, RowsTyped, WorkersTyped
<1>1. UNCHANGED <<rpc, markVars, reapVars>>
  BY DEF CancelActs, Cancel, CancelRead, CancelTransact, CancelRefund, CancelRevoke, CancelAbort,
         GoCancel
<1>2. ASSUME NEW d \in Cancels \ {c} PROVE cpc'[d] = cpc[d]
  BY DEF CancelActs, Cancel, CancelRead, CancelTransact, CancelRefund, CancelRevoke, CancelAbort,
         GoCancel
<1>3. ASSUME NEW s \in Tasks \ {CancelOf[c]}
      PROVE  status'[s] = status[s] /\ ledger'[s] = ledger[s]
  BY DEF CancelActs, Cancel, CancelRead, CancelTransact, CancelRefund, CancelRevoke, CancelAbort,
         EndWithRefund, SetStatus, Ended, rowVars
<1>4. UNCHANGED astray \/ astray' = astray \cup {CancelOf[c]}
  BY DEF CancelActs, Cancel, CancelRead, CancelTransact, CancelRefund, CancelRevoke, CancelAbort,
         Fault, Misled, FaultAt, faultVars
<1>5. queue' \subseteq queue
  BY DEF CancelActs, Cancel, CancelRead, CancelTransact, CancelRefund, CancelRevoke, CancelAbort
<1>6. ASSUME NEW w \in Workers
      PROVE  \/ wpc'[w] = wpc[w] /\ job'[w] = job[w]
             \/ /\ cpc[c] = "revoke" /\ job[w][1] = CancelOf[c]
                /\ wpc'[w] = "idle" /\ job'[w] = NoJob
  BY DEF CancelActs, Cancel, CancelRead, CancelTransact, CancelRefund, CancelRevoke, CancelAbort,
         workVars
<1> QED  BY <1>1, <1>2, <1>3, <1>4, <1>5, <1>6

(* A worker at work on a task, or that takes its message. *)
LEMMA WorkerFrame ==
  ASSUME TypeOK, NEW w \in Workers, WorkerActs(w)
  PROVE  \/ /\ \E m \in queue : WorkTake(w, m)
            /\ UNCHANGED <<rpc, cpc, rowVars, markVars, reapVars, astray, billVars>>
            /\ wpc[w] = "idle" /\ wpc'[w] = "start" /\ job'[w] \in queue /\ queue' \subseteq queue
            /\ \A v \in Workers \ {w} : wpc'[v] = wpc[v] /\ job'[v] = job[v]
         \/ \E t \in Tasks :
              /\ job[w][1] = t /\ wpc[w] # "idle" /\ job[w][2] \in Nat
              /\ UNCHANGED <<rpc, cpc, markVars, reapVars>>
              /\ \A v \in Workers \ {w} : wpc'[v] = wpc[v] /\ job'[v] = job[v]
              /\ job'[w] = job[w] \/ (wpc'[w] = "idle" /\ job'[w] = NoJob)
              /\ \A s \in Tasks \ {t} :
                   /\ status'[s] = status[s] /\ ledger'[s] = ledger[s]
                   /\ (s \in astray' <=> s \in astray)
              /\ \A m \in queue' : m \in queue \/ m[1] = t
              /\ astray \subseteq astray'
<1> USE DEF TypeOK, RequestsTyped, RowsTyped, WorkersTyped, QueueTyped
<1>1. CASE \E m \in queue : WorkTake(w, m)
  <2>1. PICK m \in queue : WorkTake(w, m)
    BY <1>1
  <2> QED  BY <1>1, <2>1 DEF WorkTake, requestVars, faultVars
<1>2. CASE ~\E m \in queue : WorkTake(w, m)
  <2>1. wpc[w] # "idle"
    BY <1>2 DEF WorkerActs, Work, WorkStart, WorkRaise, WorkComplete, WorkFail, WorkGive,
                WorkGiveAgain, WorkCrash, WorkCache
  <2>2. PICK t \in Tasks, n \in Nat : job[w] = <<t, n>>
    BY <2>1
  <2>3. job[w][1] = t /\ job[w][2] = n
    BY <2>2
  <2>4. UNCHANGED <<rpc, cpc, markVars, reapVars>>
    BY <1>2 DEF WorkerActs, Work, WorkStart, WorkRaise, WorkComplete, WorkFail, WorkGive,
                WorkGiveAgain, WorkCrash, WorkCache, requestVars
  <2>5. \/ \E step \in WorkSteps : GoWork(w, step)
        \/ Leave(w) \/ UNCHANGED workVars
    BY <1>2
    DEF WorkerActs, Work, WorkStart, WorkRaise, Retry, WorkComplete, WorkFail, WorkGive,
        WorkGiveAgain, WorkCrash, WorkCache, WorkSteps, GiveSteps
  <2>6. /\ \A v \in Workers \ {w} : wpc'[v] = wpc[v] /\ job'[v] = job[v]
        /\ job'[w] = job[w] \/ (wpc'[w] = "idle" /\ job'[w] = NoJob)
    BY <2>5 DEF GoWork, Leave, workVars
  <2>7. \A s \in Tasks \ {t} : status'[s] = status[s] /\ ledger'[s] = ledger[s]
    BY <1>2, <2>3
    DEF WorkerActs, Work, WorkStart, WorkRaise, WorkComplete, WorkFail, WorkGive,
        WorkGiveAgain, WorkCrash, WorkCache, EndWithRefund, SetStatus, Ended, rowVars
  <2>8. UNCHANGED astray \/ astray' = astray \cup {t}
    BY <1>2, <2>3
    DEF WorkerActs, Work, WorkStart, WorkRaise, WorkComplete, WorkFail, WorkGive, WorkGiveAgain,
        WorkCrash, WorkCache, Fault, Misled, FaultAt, faultVars
  <2>9. \A m \in queue' : m \in queue \/ m[1] = t
    BY <1>2, <2>2, <2>3
    DEF WorkerActs, Work, WorkStart, WorkRaise, Retry, WorkComplete, WorkFail, WorkGive,
        WorkGiveAgain, WorkCrash, WorkCache
  <2> QED  BY <2>1, <2>3, <2>4, <2>6, <2>7, <2>8, <2>9
<1> QED  BY <1>1, <1>2

LEMMA ReaperFrame ==
  ASSUME TypeOK, ReaperActs
  PROVE  /\ UNCHANGED <<requestVars, workVars, queue>>
         /\ astray \subseteq astray' /\ markers' \subseteq markers
         /\ UNCHANGED rowVars \/ \E t \in Tasks : ReapStuck(t)
<1>1. UNCHANGED <<requestVars, workVars, queue>>
  BY DEF ReaperActs, Reap, ReapMarker, ReapStuck, ReapRefund, ReapAbort
<1>2. astray \subseteq astray' /\ markers' \subseteq markers
  BY DEF ReaperActs, Reap, ReapMarker, ReapStuck, ReapRefund, ReapAbort, Old, Fault, Misled,
         FaultAt, faultVars, ForgetKey, ForgetMarker, markVars
<1>3. UNCHANGED rowVars \/ \E t \in Tasks : ReapStuck(t)
  BY DEF ReaperActs, Reap, ReapMarker, ReapRefund, ReapAbort
<1> QED  BY <1>1, <1>2, <1>3

LEMMA RestFrame ==
  ASSUME TypeOK, UNCHANGED vars \/ Admin \/ \E u \in Users : Authenticate(u)
  PROVE  UNCHANGED <<rowVars, markVars, queue, requestVars, workVars, reapVars, astray, active>>
BY AdminTypes
DEF Authenticate, vars, taskVars, faultVars, billVars, Admin, AdminUpdate, AdminSync, AdminLost

LEMMA AstrayGrows ==
  ASSUME TypeOK, [Next]_vars
  PROVE  astray \subseteq astray'
BY WhoActs, RequestFrame, CancelFrame, WorkerFrame, ReaperFrame, RestFrame

-----------------------------------------------------------------------------
(* Rows, and what their readers know *)

StatusGoes(t) ==
  /\ status[t] # "none" => status'[t] # "none"
  /\ status[t] \in Outcomes => status'[t] = status[t]

LEMMA NextGoes ==
  ASSUME TypeOK, [Next]_vars
  PROVE  \A t \in Tasks : StatusGoes(t)
<1> USE DEF TypeOK, RowsTyped
<1>1. ASSUME UNCHANGED rowVars PROVE \A t \in Tasks : StatusGoes(t)
  BY <1>1 DEF rowVars, StatusGoes
<1>2. ASSUME NEW t \in Tasks, NEW st \in {"FAILED", "CANCELLED"},
             SetStatus(t, Open, st)
      PROVE  \A s \in Tasks : StatusGoes(s)
  BY <1>2 DEF SetStatus, StatusGoes, Open, Outcomes
<1>3. ASSUME NEW t \in Tasks, RequestActs(t) PROVE \A s \in Tasks : StatusGoes(s)
  <2>1. CASE Insert(t)
    <3>1. status[t] = "none"
      BY <2>1 DEF Insert, KeyPersisted, SameKey
    <3> QED  BY <2>1, <3>1 DEF Insert, StatusGoes, Outcomes
  <2>2. CASE SetStatus(t, Open, "FAILED")
    BY <1>2, <2>2
  <2>3. CASE UNCHANGED status
    BY <2>3 DEF StatusGoes
  <2> QED
    BY <1>3, <2>1, <2>2, <2>3
    DEF RequestActs, Request, Gate, GateLost, HydrateRead, HydrateFill, MarkPending, Persist,
        Undo, Send, Revert, Clear, RevertError, RequestAbort, Ended, rowVars
<1>4. ASSUME NEW c \in Cancels, CancelActs(c) PROVE \A s \in Tasks : StatusGoes(s)
  BY <1>1, <1>2, <1>4, Constants
  DEF CancelActs, Cancel, CancelRead, CancelTransact, CancelRefund, CancelRevoke, CancelAbort,
      EndWithRefund, Ended
<1>5. ASSUME NEW w \in Workers, WorkerActs(w) PROVE \A s \in Tasks : StatusGoes(s)
  <2>1. CASE UNCHANGED rowVars
    BY <1>1, <2>1
  <2>2. ASSUME NEW t \in Tasks, job[w][1] = t PROVE \A s \in Tasks : StatusGoes(s)
    BY <1>5, <2>2
    DEF WorkerActs, Work, WorkTake, WorkStart, WorkRaise, WorkComplete, WorkFail, WorkGive,
        WorkGiveAgain, WorkCrash, WorkCache, EndWithRefund, Ended, rowVars, SetStatus, StatusGoes,
        Open, Outcomes
  <2> QED  BY <1>5, <2>1, <2>2, WorkerFrame
<1>6. ASSUME ReaperActs PROVE \A s \in Tasks : StatusGoes(s)
  BY <1>1, <1>2, <1>6, ReaperFrame DEF ReapStuck, EndWithRefund
<1> QED  BY <1>1, <1>3, <1>4, <1>5, <1>6, WhoActs, RestFrame

LEMMA RequestRows ==
  ASSUME Safe, NEW t \in Tasks, RequestActs(t)
  PROVE  /\ rpc'[t] \in {"idle", "hydrate", "fill", "regate", "mark", "persist"} =>
              status'[t] = "none"
         /\ rpc'[t] \in {"idle", "hydrate", "fill", "regate", "mark"} => t \notin markers'
         /\ rpc'[t] \in {"send", "clear"} \cup RevertSteps => status'[t] # "none"
<1> USE DEF Safe, TypeOK, RequestsTyped, RowsTyped, RowsFollow
<1>1. CASE Gate(t) \/ GateLost(t) \/ HydrateRead(t) \/ HydrateFill(t) \/ MarkPending(t)
           \/ RequestAbort(t)
  BY <1>1 DEF Gate, GateLost, Arrives, HydrateRead, HydrateFill, MarkPending, RequestAbort, Go,
              Admit, rowVars, markVars, RevertSteps
<1>2. CASE Persist(t) \/ Undo(t)
  BY <1>2 DEF Persist, Undo, Insert, Go, RevertSteps
<1>3. CASE Send(t) \/ Clear(t) \/ RevertError(t)
  BY <1>3 DEF Send, Clear, RevertError, Go, rowVars, RevertSteps
<1>4. CASE Revert(t)
  BY <1>4 DEF Revert, SetStatus, Ended, Go, rowVars, RevertSteps
<1> QED  BY <1>1, <1>2, <1>3, <1>4 DEF RequestActs, Request

LEMMA RowsFollowNext ==
  ASSUME Safe, [Next]_vars
  PROVE  RowsFollow'
<1> SUFFICES ASSUME NEW t \in Tasks
             PROVE  /\ rpc'[t] \in {"idle", "hydrate", "fill", "regate", "mark", "persist"} =>
                         status'[t] = "none"
                    /\ rpc'[t] \in {"idle", "hydrate", "fill", "regate", "mark"} => t \notin markers'
                    /\ rpc'[t] \in {"send", "clear"} \cup RevertSteps => status'[t] # "none"
  BY DEF RowsFollow
<1>1. CASE RequestActs(t)
  BY <1>1, RequestRows
<1>2. CASE ~RequestActs(t)
  <2>1. rpc'[t] = rpc[t] /\ (t \in markers' => t \in markers)
    BY <1>2, WhoActs, RequestFrame, CancelFrame, WorkerFrame, ReaperFrame, RestFrame
       DEF Safe, markVars, requestVars
  <2>2. status[t] # "none" => status'[t] # "none"
    BY NextGoes DEF Safe, StatusGoes
  <2>3. status[t] = "none" => status'[t] = "none"
    <3>1. ASSUME NEW s \in Tasks, RequestActs(s) PROVE status'[t] = status[t]
      BY <1>2, <3>1, RequestFrame DEF Safe
    <3>2. ASSUME NEW c \in Cancels, CancelActs(c), status[t] = "none" PROVE status'[t] = "none"
      BY <3>2, Constants
      DEF Safe, TypeOK, RowsTyped, CancelActs, Cancel, CancelRead, CancelTransact, CancelRefund,
          CancelRevoke, CancelAbort, EndWithRefund, SetStatus, Ended, rowVars, Open
    <3>3. ASSUME NEW w \in Workers, WorkerActs(w), status[t] = "none" PROVE status'[t] = "none"
      <4>1. CASE UNCHANGED rowVars
        BY <3>3, <4>1 DEF rowVars
      <4>2. ASSUME NEW s \in Tasks, job[w][1] = s PROVE status'[t] = "none"
        BY <3>3, <4>2
        DEF Safe, TypeOK, RowsTyped, WorkerActs, Work, WorkTake, WorkStart, WorkRaise, WorkComplete,
            WorkFail, WorkGive, WorkGiveAgain, WorkCrash, WorkCache, EndWithRefund, Ended, rowVars,
            SetStatus, Open
      <4> QED  BY <3>3, <4>1, <4>2, WorkerFrame DEF Safe
    <3>4. ASSUME ReaperActs, status[t] = "none" PROVE status'[t] = "none"
      BY <3>4, ReaperFrame DEF Safe, TypeOK, RowsTyped, ReapStuck, EndWithRefund, SetStatus, rowVars,
                               Open
    <3> QED  BY <3>1, <3>2, <3>3, <3>4, WhoActs, RestFrame DEF Safe, rowVars
  <2> QED  BY <2>1, <2>2, <2>3 DEF Safe, RowsFollow
<1> QED  BY <1>1, <1>2

LEMMA WorkersKnowNext ==
  ASSUME Safe, [Next]_vars
  PROVE  WorkersKnow'
<1> SUFFICES ASSUME NEW w \in Workers, NEW t \in Tasks, job'[w][1] = t
             PROVE  /\ wpc'[w] \in {"cache", "slot"} => status'[t] = "COMPLETED"
                    /\ wpc'[w] \in {"refund", "slotFailed", "cacheFailed"} => status'[t] = "FAILED"
  BY DEF WorkersKnow
<1>1. StatusGoes(t)
  BY NextGoes DEF Safe
<1>2. CASE WorkerActs(w)
  <2> USE DEF Safe, TypeOK, WorkersTyped, RowsTyped, WorkersKnow
  <2>1. CASE \E m \in queue : WorkTake(w, m)
    BY <2>1 DEF WorkTake
  <2>2. CASE job[w][1] = t /\ ~\E m \in queue : WorkTake(w, m)
    BY <1>1, <1>2, <2>2
    DEF WorkerActs, Work, WorkStart, WorkRaise, Retry, WorkComplete, WorkFail, WorkGive,
        WorkGiveAgain, WorkCrash, WorkCache, EndWithRefund, SetStatus, GoWork, Leave, workVars,
        StatusGoes, Outcomes
  <2>3. wpc'[w] = "idle" \/ wpc'[w] = "start" \/ job[w][1] = t
    BY <1>2, WorkerFrame
  <2> QED  BY <2>1, <2>2, <2>3, <1>2, WorkerFrame
<1>3. CASE ~WorkerActs(w)
  <2>1. wpc'[w] = "idle" \/ (wpc'[w] = wpc[w] /\ job'[w] = job[w])
    BY <1>3, WhoActs, RequestFrame, CancelFrame, WorkerFrame, ReaperFrame, RestFrame
       DEF Safe, workVars
  <2> QED  BY <1>1, <2>1 DEF Safe, WorkersKnow, StatusGoes, Outcomes
<1> QED  BY <1>2, <1>3

LEMMA CancelsKnowNext ==
  ASSUME Safe, [Next]_vars
  PROVE  CancelsKnow'
<1> SUFFICES ASSUME NEW c \in Cancels, cpc'[c] \in {"refund", "slot", "revoke"}
             PROVE  status'[CancelOf[c]] = "CANCELLED"
  BY DEF CancelsKnow
<1>1. StatusGoes(CancelOf[c])
  BY NextGoes, Constants DEF Safe
<1>2. CASE CancelActs(c)
  BY <1>1, <1>2, Constants
  DEF Safe, TypeOK, RequestsTyped, RowsTyped, CancelsKnow, CancelActs, Cancel, CancelRead,
      CancelTransact, CancelRefund, CancelRevoke, CancelAbort, EndWithRefund, SetStatus, GoCancel,
      StatusGoes, Outcomes
<1>3. CASE ~CancelActs(c)
  <2>1. cpc'[c] = cpc[c]
    BY <1>3, WhoActs, RequestFrame, CancelFrame, WorkerFrame, ReaperFrame, RestFrame
       DEF Safe, requestVars
  <2> QED  BY <1>1, <2>1 DEF Safe, CancelsKnow, StatusGoes, Outcomes
<1> QED  BY <1>2, <1>3

-----------------------------------------------------------------------------
(* Sane is kept *)

LEMMA OpenUndue ==
  ASSUME Safe, NEW t \in Tasks, status[t] \in Open
  PROVE  /\ \A c \in Cancels : ~CancelDue(c, t)
         /\ \A w \in Workers : ~WorkDue(w, t)
         /\ t \notin astray => ~(xjob = t /\ xpc # "idle")
BY DEF Safe, CancelsKnow, WorkersKnow, CancelDue, WorkDue, GiveSteps, Open, Sane, ReaperSane

LEMMA SaneKept ==
  ASSUME NEW t \in Tasks, Sane(t),
         rpc'[t] = rpc[t], status'[t] = status[t], ledger'[t] = ledger[t],
         t \in markers' <=> t \in markers,
         Sent(t)' => Sent(t),
         xjob' = t /\ xpc' # "idle" => UNCHANGED reapVars,
         \A c \in Cancels : CancelDue(c, t)' => CancelDue(c, t),
         \A w \in Workers : WorkDue(w, t)' => WorkDue(w, t)
  PROVE  Sane(t)'
<1>1. RequestSane(t)' /\ LedgerSane(t)'
  BY DEF Sane, RequestSane, LedgerSane
<1>2. ReaperSane(t)'
  BY DEF Sane, ReaperSane, reapVars
<1>3. OneEnds(t)'
  BY DEF Sane, OneEnds, ReapDue, reapVars
<1> QED  BY <1>1, <1>2, <1>3 DEF Sane

LEMMA RequestSaneNext ==
  ASSUME Safe, NEW t \in Tasks \ astray', RequestActs(t)
  PROVE  Sane(t)'
<1> USE DEF Safe, TypeOK, RequestsTyped, RowsTyped
<1>1. /\ UNCHANGED <<cpc, workVars, reapVars>> /\ t \notin astray
      /\ Sent(t)' => Sent(t) \/ Send(t)
  BY RequestFrame DEF Sent, workVars
<1>2. /\ RequestSane(t) /\ LedgerSane(t) /\ ReaperSane(t) /\ OneEnds(t)
  BY <1>1 DEF Sane
<1>3. OneEnds(t)'
  BY <1>1, <1>2 DEF OneEnds, CancelDue, WorkDue, ReapDue, workVars, reapVars
<1>4. /\ rpc[t] \in {"idle", "hydrate", "fill", "regate", "mark", "persist"} => status[t] = "none"
      /\ rpc[t] \in {"idle", "hydrate", "fill", "regate", "mark"} => t \notin markers
      /\ rpc[t] \in {"send", "clear"} \cup RevertSteps => status[t] # "none"
  BY DEF RowsFollow
<1>5. ReaperSane(t)' /\ RequestSane(t)' /\ LedgerSane(t)'
  <2>1. CASE Gate(t) \/ GateLost(t) \/ HydrateRead(t) \/ HydrateFill(t)
    <3>0. rpc[t] \in {"idle", "hydrate", "fill", "regate"}
      BY <2>1 DEF Gate, GateLost, Arrives, HydrateRead, HydrateFill
    <3>1. /\ UNCHANGED rowVars /\ status[t] = "none" /\ t \notin markers /\ rpc[t] # "ended"
          /\ rpc'[t] \in {"mark", "hydrate", "fill", "regate", "ended"} /\ ~Send(t)
      <4>1. UNCHANGED rowVars
        BY <2>1 DEF Gate, GateLost, HydrateRead, HydrateFill
      <4>2. rpc'[t] \in {"mark", "hydrate", "fill", "regate", "ended"}
        BY <2>1 DEF Gate, GateLost, HydrateRead, HydrateFill, Go
      <4>3. rpc[t] # "send" /\ rpc[t] # "ended"
        BY <3>0
      <4> QED  BY <1>4, <3>0, <4>1, <4>2, <4>3 DEF Send
    <3> QED  BY <1>1, <1>2, <3>0, <3>1 DEF ReaperSane, RequestSane, LedgerSane, reapVars, rowVars,
                                     UndoSteps, RevertSteps
  <2>2. CASE MarkPending(t)
    <3>1. /\ UNCHANGED rowVars /\ status[t] = "none" /\ t \in markers' /\ rpc[t] = "mark"
          /\ rpc'[t] \in {"persist", "ended"} /\ ~Send(t) /\ t \notin markers
      <4>1. rpc[t] = "mark" /\ UNCHANGED rowVars /\ t \in markers'
        BY <2>2 DEF MarkPending
      <4>2. rpc'[t] \in {"persist", "ended"}
        BY <2>2 DEF MarkPending, Go
      <4>3. ~Send(t)
        BY <4>1 DEF Send
      <4> QED  BY <1>4, <4>1, <4>2, <4>3
    <3> QED  BY <1>1, <1>2, <3>1 DEF ReaperSane, RequestSane, LedgerSane, reapVars, rowVars,
                                     UndoSteps, RevertSteps
  <2>3. CASE Persist(t)
    <3>1. CASE Insert(t) /\ Go(t, "send")
      BY <1>1, <1>2, <1>4, <2>3, <3>1, Constants
      DEF Persist, Insert, Go, Send, ReaperSane, RequestSane, LedgerSane, reapVars, UndoSteps,
          RevertSteps, Open
    <3>2. CASE UNCHANGED rowVars /\ Go(t, "undo")
      BY <1>1, <1>2, <1>4, <2>3, <3>2
      DEF Persist, Go, Send, ReaperSane, RequestSane, LedgerSane, reapVars, rowVars, markVars,
          UndoSteps, RevertSteps
    <3>3. ~Misled(t)
      BY DEF Misled
    <3> QED  BY <2>3, <3>1, <3>2, <3>3 DEF Persist
  <2>4. CASE Undo(t)
    <3>1. /\ UNCHANGED rowVars /\ ~Send(t) /\ rpc[t] \in UndoSteps
          /\ rpc'[t] \in UndoSteps => t \in markers'
          /\ rpc'[t] \in UndoSteps \cup {"ended"}
      BY <1>2, <2>4 DEF Undo, Go, Send, ForgetKey, ForgetMarker, markVars, RequestSane, UndoSteps
    <3> QED  BY <1>1, <1>2, <3>1 DEF ReaperSane, RequestSane, LedgerSane, reapVars, rowVars,
                                     UndoSteps, RevertSteps
  <2>5. CASE Send(t)
    <3>1. UNCHANGED <<rowVars, markVars>> /\ rpc[t] = "send" /\ status[t] # "none"
      BY <1>4, <2>5 DEF Send
    <3>2. CASE rpc'[t] = "clear"
      BY <1>1, <1>2, <3>1, <3>2 DEF ReaperSane, RequestSane, LedgerSane, reapVars, rowVars,
                                    markVars, UndoSteps, RevertSteps
    <3>3. CASE rpc'[t] = "revert" /\ status[t] \in Open /\ ~(Sent(t)')
      BY <1>1, <1>2, <3>1, <3>3 DEF ReaperSane, RequestSane, LedgerSane, reapVars, rowVars,
                                    markVars, UndoSteps, RevertSteps, Open
    <3>4. \/ rpc'[t] = "clear"
          \/ rpc'[t] = "revert" /\ status[t] \in Open /\ UNCHANGED queue
      BY <2>5 DEF Send, Go, FaultAt, Misled
    <3>5. UNCHANGED queue => ~(Sent(t)')
      BY <1>1, <1>2, <3>1 DEF Sent, RequestSane, workVars
    <3> QED  BY <3>2, <3>3, <3>4, <3>5
  <2>6. CASE Revert(t)
    <3>1. ~Send(t) /\ rpc[t] \in RevertSteps
      BY <2>6 DEF Revert, Send, RevertSteps
    <3>2. ~(Sent(t)') /\ (t \in markers' <=> t \in markers)
      BY <1>1, <1>2, <2>6, <3>1 DEF RequestSane, RevertSteps, Revert, ForgetKey, markVars
    <3>3. CASE rpc[t] \in {"revert", "revertSlot", "revertKey"}
      <4>1. UNCHANGED rowVars /\ rpc'[t] \in {"revertSlot", "revertKey", "revertRow"}
        BY <2>6, <3>3 DEF Revert, Go
      <4> QED  BY <1>1, <1>2, <3>2, <3>3, <4>1 DEF ReaperSane, RequestSane, LedgerSane, reapVars,
                                                   rowVars, UndoSteps, RevertSteps
    <3>4. CASE rpc[t] = "revertRow"
      <4>1. status[t] = "PENDING" /\ ledger[t] = -Cost
        BY <1>2, <3>4 DEF RequestSane, LedgerSane, RevertSteps, Open
      <4>2. status'[t] = "FAILED" /\ ledger'[t] = -Cost /\ rpc'[t] = "revertLedger"
        BY <2>6, <3>4, <4>1 DEF Revert, SetStatus, Ended, Go, Open
      <4> QED  BY <1>1, <1>2, <3>2, <3>4, <4>1, <4>2
               DEF ReaperSane, RequestSane, LedgerSane, reapVars, UndoSteps, RevertSteps
    <3>5. CASE rpc[t] = "revertLedger"
      <4>1. status[t] = "FAILED" /\ ledger[t] = -Cost
        BY <1>2, <3>5 DEF RequestSane
      <4>2. status'[t] = "FAILED" /\ ledger'[t] = 0 /\ rpc'[t] = "clear"
        BY <2>6, <3>5, <4>1, Constants DEF Revert, Go
      <4> QED  BY <1>1, <1>2, <3>2, <3>5, <4>1, <4>2
               DEF ReaperSane, RequestSane, LedgerSane, reapVars, UndoSteps, RevertSteps, Open
    <3> QED  BY <3>1, <3>3, <3>4, <3>5 DEF RevertSteps
  <2>7. CASE Clear(t)
    <3>1. UNCHANGED rowVars /\ rpc[t] = "clear" /\ rpc'[t] = "ended" /\ ~Send(t) /\ status[t] # "none"
      BY <1>4, <2>7 DEF Clear, Go, Send
    <3> QED  BY <1>1, <1>2, <3>1 DEF ReaperSane, RequestSane, LedgerSane, reapVars, rowVars,
                                     UndoSteps, RevertSteps
  <2>8. CASE RevertError(t)
    BY <2>8 DEF RevertError, Misled
  <2>9. CASE RequestAbort(t)
    <3>1. /\ UNCHANGED <<rowVars, markVars>> /\ rpc'[t] = "ended" /\ ~Send(t) /\ rpc[t] # "ended"
          /\ rpc[t] \notin RevertSteps
      BY <2>9 DEF RequestAbort, Go, Send, FaultAt, Misled, RequestSteps, UndoSteps, RevertSteps
    <3> QED  BY <1>1, <1>2, <3>1 DEF ReaperSane, RequestSane, LedgerSane, reapVars, rowVars, markVars,
                                     UndoSteps, RevertSteps
  <2> QED  BY <2>1, <2>2, <2>3, <2>4, <2>5, <2>6, <2>7, <2>8, <2>9 DEF RequestActs, Request
<1> QED  BY <1>3, <1>5 DEF Sane

LEMMA CancelSaneNext ==
  ASSUME Safe, NEW c \in Cancels, NEW t \in Tasks \ astray', CancelOf[c] = t, CancelActs(c)
  PROVE  Sane(t)'
<1> USE DEF Safe, TypeOK, RequestsTyped, RowsTyped
<1>1. /\ UNCHANGED <<rpc, markVars, reapVars>> /\ t \notin astray
      /\ Sent(t)' => Sent(t)
      /\ \A d \in Cancels \ {c} : cpc'[d] = cpc[d]
      /\ \A w \in Workers : WorkDue(w, t)' => WorkDue(w, t)
  BY CancelFrame, Constants DEF Sent, WorkDue, GiveSteps, NoJob
<1>2. Sane(t)
  BY <1>1
<1>3. CASE UNCHANGED rowVars
  <2>1. CancelDue(c, t)' => CancelDue(c, t)
    BY <1>3 DEF CancelActs, Cancel, CancelRead, CancelTransact, CancelRefund, CancelRevoke,
                CancelAbort, GoCancel, CancelDue, EndWithRefund, SetStatus, Open, rowVars
  <2>2. \A d \in Cancels : CancelDue(d, t)' => CancelDue(d, t)
    BY <1>1, <2>1 DEF CancelDue
  <2> QED  BY <1>1, <1>2, <1>3, <2>2, SaneKept DEF rowVars, markVars, reapVars
<1>4. CASE CancelTransact(c) /\ EndWithRefund(t, "CANCELLED")
  <2>1. status[t] \in Open /\ rpc[t] \notin RevertSteps
    BY <1>4 DEF CancelTransact, EndWithRefund, SetStatus
  <2>2. status'[t] = "CANCELLED" /\ ledger'[t] = 0
    <3>1. ledger[t] = -Cost
      BY <1>2, <2>1 DEF Sane, LedgerSane, RevertSteps
    <3> QED  BY <1>4, <3>1, Constants DEF EndWithRefund, SetStatus
  <2>3. rpc[t] \in {"send", "clear", "ended"}
    BY <1>2, <2>1 DEF Sane, RequestSane, RowsFollow, RequestSteps, UndoSteps, RevertSteps, Open
  <2>4. RequestSane(t)' /\ LedgerSane(t)'
    BY <1>1, <1>2, <2>2, <2>3 DEF Sane, RequestSane, LedgerSane, UndoSteps, RevertSteps, Open
  <2>5. ~(xjob = t /\ xpc # "idle")
    BY <1>1, <2>1, OpenUndue
  <2>6. OneEnds(t)'
    <3>1. \A d \in Cancels \ {c} : ~CancelDue(d, t)'
      BY <1>1, <2>1, OpenUndue DEF CancelDue
    <3>2. \A w \in Workers : ~WorkDue(w, t)'
      BY <1>1, <2>1, OpenUndue
    <3> QED  BY <3>1, <3>2 DEF OneEnds
  <2>7. ReaperSane(t)'
    BY <1>1, <2>5 DEF ReaperSane, reapVars
  <2> QED  BY <2>4, <2>6, <2>7 DEF Sane
<1> QED
  BY <1>3, <1>4
  DEF CancelActs, Cancel, CancelRead, CancelTransact, CancelRefund, CancelRevoke, CancelAbort, Ended

LEMMA WorkerSaneNext ==
  ASSUME Safe, NEW w \in Workers, NEW t \in Tasks \ astray', job[w][1] = t, wpc[w] # "idle",
         WorkerActs(w)
  PROVE  Sane(t)'
<1> USE DEF Safe, TypeOK, WorkersTyped, RowsTyped
<1>1. ~\E m \in queue : WorkTake(w, m)
  BY DEF WorkTake
<1>2. /\ UNCHANGED <<rpc, cpc, markVars, reapVars>> /\ t \notin astray
      /\ \A v \in Workers \ {w} : wpc'[v] = wpc[v] /\ job'[v] = job[v]
  BY <1>1, WorkerFrame
<1>3. Sane(t) /\ Sent(t) /\ rpc[t] \in {"clear", "ended"}
  BY <1>2 DEF Sent, Sane, RequestSane
<1>4. \A v \in Workers \ {w} : WorkDue(v, t)' => WorkDue(v, t)
  BY <1>2 DEF WorkDue
<1>5. CASE UNCHANGED rowVars
  <2>1. WorkDue(w, t)' => WorkDue(w, t)
    BY <1>1, <1>5
    DEF WorkerActs, Work, WorkStart, WorkRaise, Retry, WorkComplete, WorkFail, WorkGive,
        WorkGiveAgain, WorkCrash, WorkCache, EndWithRefund, SetStatus, GoWork, Leave, workVars,
        WorkDue, GiveSteps, Open, rowVars
  <2>2. \A v \in Workers : WorkDue(v, t)' => WorkDue(v, t)
    BY <1>4, <2>1
  <2>3. \A c \in Cancels : CancelDue(c, t)' => CancelDue(c, t)
    BY <1>2 DEF CancelDue
  <2> QED  BY <1>2, <1>3, <1>5, <2>2, <2>3, SaneKept DEF rowVars, markVars, reapVars
<1>6. CASE ~UNCHANGED rowVars
  <2>1. \/ status[t] \in Open /\ status'[t] \in {"RUNNING", "COMPLETED"} /\ ledger'[t] = ledger[t]
        \/ EndWithRefund(t, "FAILED")
    BY <1>1, <1>6
    DEF WorkerActs, Work, WorkStart, WorkRaise, WorkComplete, WorkFail, WorkGive, WorkGiveAgain,
        WorkCrash, WorkCache, Ended, SetStatus, Open, rowVars
  <2>2. status[t] \in Open /\ ledger[t] = -Cost
    BY <1>3, <2>1 DEF Sane, LedgerSane, EndWithRefund, SetStatus
  <2>3. \/ status'[t] \in {"RUNNING", "COMPLETED"} /\ ledger'[t] = -Cost
        \/ status'[t] = "FAILED" /\ ledger'[t] = 0
    BY <2>1, <2>2, Constants DEF EndWithRefund, SetStatus
  <2>4. RequestSane(t)' /\ LedgerSane(t)'
    BY <1>2, <1>3, <2>3 DEF Sane, RequestSane, LedgerSane, UndoSteps, RevertSteps, Open
  <2>5. ReaperSane(t)'
    BY <1>2, <2>2, OpenUndue DEF ReaperSane, reapVars
  <2>6. OneEnds(t)'
    <3>1. \A c \in Cancels : ~CancelDue(c, t)'
      BY <1>2, <2>2, OpenUndue DEF CancelDue
    <3>2. \A v \in Workers \ {w} : ~WorkDue(v, t)'
      BY <1>4, <2>2, OpenUndue
    <3>3. ~ReapDue(t)'
      BY <1>2, <2>2, OpenUndue DEF ReapDue, reapVars
    <3> QED  BY <3>1, <3>2, <3>3 DEF OneEnds
  <2> QED  BY <2>4, <2>5, <2>6 DEF Sane
<1> QED  BY <1>5, <1>6

LEMMA ReaperSaneNext ==
  ASSUME Safe, NEW t \in Tasks \ astray', ReaperActs
  PROVE  Sane(t)'
<1> USE DEF Safe, TypeOK, ReaperTyped, RowsTyped
<1>1. /\ UNCHANGED <<rpc, cpc, wpc, job, queue>> /\ t \notin astray
      /\ Sent(t)' => Sent(t)
      /\ \A c \in Cancels : CancelDue(c, t)' => CancelDue(c, t)
      /\ \A w \in Workers : WorkDue(w, t)' => WorkDue(w, t)
  BY ReaperFrame DEF requestVars, workVars, Sent, CancelDue, WorkDue
<1>2. Sane(t)
  BY <1>1
<1>3. ASSUME NEW s \in Tasks, ReapMarker(s) PROVE Sane(t)'
  <2>1. UNCHANGED rowVars /\ xpc = "idle"
    BY <1>3 DEF ReapMarker
  <2>2. CASE s = t /\ status[t] = "none"
    <3>1. rpc[t] = "ended" /\ t \in markers /\ UNCHANGED markVars /\ xpc' = "orphan"
      BY <1>3, <2>2 DEF ReapMarker, Old, Misled, GoReap
    <3>2. RequestSane(t)' /\ LedgerSane(t)' /\ ReaperSane(t)'
      BY <1>1, <1>2, <2>1, <2>2, <3>1 DEF Sane, RequestSane, LedgerSane, ReaperSane, Orphaned,
                                          rowVars, markVars
    <3>3. \A w \in Workers : ~WorkDue(w, t)
      BY <2>2 DEF WorkersKnow, WorkDue, GiveSteps
    <3> QED  BY <1>1, <1>2, <3>2, <3>3 DEF Sane, OneEnds
  <2>3. CASE s = t /\ status[t] # "none"
    <3>1. UNCHANGED reapVars
      BY <1>3, <2>3 DEF ReapMarker
    <3>2. RequestSane(t)' /\ LedgerSane(t)' /\ ReaperSane(t)'
      BY <1>1, <1>2, <2>1, <2>3, <3>1 DEF Sane, RequestSane, LedgerSane, ReaperSane, rowVars,
                                          reapVars, UndoSteps
    <3> QED  BY <1>1, <1>2, <2>1, <3>1, <3>2 DEF Sane, OneEnds, ReapDue, reapVars
  <2>4. CASE s # t
    <3>1. (t \in markers' <=> t \in markers) /\ (xjob' = t => UNCHANGED reapVars)
      BY <1>3, <2>4 DEF ReapMarker, ForgetMarker, GoReap, markVars
    <3> QED  BY <1>1, <1>2, <2>1, <3>1, SaneKept DEF rowVars
  <2> QED  BY <2>2, <2>3, <2>4
<1>4. ASSUME NEW s \in Tasks, ReapStuck(s) PROVE Sane(t)'
  <2>1. UNCHANGED markVars /\ xpc' = "refund" /\ xjob' = s
    BY <1>4 DEF ReapStuck, GoReap
  <2>2. CASE s = t
    <3>1. status[t] = "RUNNING" /\ ledger[t] = -Cost /\ rpc[t] \in {"clear", "ended"}
      BY <1>2, <1>4, <2>2 DEF ReapStuck, Sane, RequestSane, LedgerSane, Open
    <3>2. status'[t] = "FAILED" /\ ledger'[t] = 0
      BY <1>4, <2>2, <3>1, Constants DEF ReapStuck, EndWithRefund, SetStatus
    <3>3. RequestSane(t)' /\ LedgerSane(t)' /\ ReaperSane(t)'
      BY <1>1, <1>2, <2>1, <2>2, <3>1, <3>2
      DEF Sane, RequestSane, LedgerSane, ReaperSane, markVars, UndoSteps, RevertSteps, Open
    <3>4. \A w \in Workers : ~WorkDue(w, t)'
      BY <1>1, <3>1, OpenUndue DEF Open
    <3> QED  BY <1>1, <1>2, <3>3, <3>4 DEF Sane, OneEnds
  <2>3. CASE s # t
    <3>1. status'[t] = status[t] /\ ledger'[t] = ledger[t]
      BY <1>4, <2>3 DEF ReapStuck, EndWithRefund, SetStatus
    <3> QED  BY <1>1, <1>2, <2>1, <2>3, <3>1, SaneKept DEF markVars
  <2> QED  BY <2>2, <2>3
<1>5. CASE ReapRefund \/ ReapAbort
  <2>1. xpc # "idle" /\ UNCHANGED rowVars /\ xjob' \in {xjob, NoTask}
    BY <1>5 DEF ReapRefund, ReapAbort, GoReap, Resting
  <2>2. CASE xjob = t
    <3>1. /\ \/ status[t] = "none" /\ rpc[t] = "ended" /\ t \in markers /\ xpc \in Orphaned
             \/ status[t] = "FAILED" /\ xpc \in {"refund", "slot"}
      BY <1>2, <2>1, <2>2 DEF Sane, ReaperSane
    <3>2. RequestSane(t)' /\ LedgerSane(t)'
      BY <1>1, <1>2, <2>1, <3>1 DEF Sane, RequestSane, LedgerSane, rowVars, UndoSteps, RevertSteps
    <3>3. ReaperSane(t)'
      BY <1>1, <1>5, <2>1, <2>2, <3>1
      DEF ReapRefund, ReapAbort, GoReap, Resting, ForgetKey, ForgetMarker, ReaperSane, Orphaned,
          rowVars, markVars
    <3>4. ReapDue(t)' => \A w \in Workers : ~WorkDue(w, t)
      <4>1. CASE status[t] = "none"
        BY <4>1 DEF WorkersKnow, WorkDue, GiveSteps
      <4>2. CASE status[t] = "FAILED"
        BY <1>2, <2>2, <3>1, <4>2 DEF Sane, OneEnds, ReapDue
      <4> QED  BY <3>1, <4>1, <4>2
    <3> QED  BY <1>1, <1>2, <3>2, <3>3, <3>4 DEF Sane, OneEnds
  <2>3. CASE xjob # t
    <3>1. xjob' # t
      BY <2>1, <2>3, Constants
    <3>2. t \in markers' <=> t \in markers
      BY <1>5, <2>3 DEF ReapRefund, ReapAbort, ForgetKey, ForgetMarker, markVars
    <3> QED  BY <1>1, <1>2, <2>1, <3>1, <3>2, SaneKept DEF rowVars
  <2> QED  BY <2>2, <2>3
<1> QED  BY <1>3, <1>4, <1>5 DEF ReaperActs, Reap

(* A step of someone who is not at work on the task. *)
LEMMA OthersSaneNext ==
  ASSUME Safe, [Next]_vars, NEW t \in Tasks \ astray',
         ~RequestActs(t), \A c \in Cancels : CancelOf[c] = t => ~CancelActs(c),
         \A w \in Workers : job[w][1] = t /\ wpc[w] # "idle" => ~WorkerActs(w),
         ~ReaperActs
  PROVE  Sane(t)'
<1> USE DEF Safe, TypeOK
<1>1. t \notin astray /\ Sane(t)
  BY AstrayGrows
<1>2. ASSUME NEW s \in Tasks, RequestActs(s) PROVE Sane(t)'
  <2>1. s # t
    BY <1>2
  <2>2. Sent(t)' => Sent(t)
    BY <1>2, <2>1, RequestFrame DEF Sent, workVars
  <2> QED
    BY <1>1, <1>2, <2>1, <2>2, RequestFrame, SaneKept DEF CancelDue, WorkDue, workVars
<1>3. ASSUME NEW c \in Cancels, CancelActs(c) PROVE Sane(t)'
  <2>1. CancelOf[c] # t
    BY <1>3
  <2>2. Sent(t)' => Sent(t)
    BY <1>3, <2>1, CancelFrame, Constants DEF Sent, NoJob
  <2>3. \A w \in Workers : WorkDue(w, t)' => WorkDue(w, t)
    BY <1>3, CancelFrame DEF WorkDue, GiveSteps
  <2>4. \A d \in Cancels : CancelDue(d, t)' => CancelDue(d, t)
    BY <1>3, <2>1, CancelFrame DEF CancelDue
  <2> QED  BY <1>1, <1>3, <2>1, <2>2, <2>3, <2>4, CancelFrame, SaneKept DEF markVars, reapVars
<1>4. ASSUME NEW w \in Workers, WorkerActs(w) PROVE Sane(t)'
  <2>1. CASE \E m \in queue : WorkTake(w, m)
    <3>1. /\ UNCHANGED <<rpc, cpc, rowVars, markVars, reapVars>>
          /\ wpc'[w] = "start" /\ job'[w] \in queue /\ queue' \subseteq queue
          /\ \A v \in Workers \ {w} : wpc'[v] = wpc[v] /\ job'[v] = job[v]
      BY <1>4, <2>1, WorkerFrame DEF WorkTake
    <3>2. Sent(t)' => Sent(t)
      BY <3>1 DEF Sent
    <3>3. \A v \in Workers : WorkDue(v, t)' => WorkDue(v, t)
      BY <3>1 DEF WorkDue, GiveSteps
    <3> QED  BY <1>1, <3>1, <3>2, <3>3, SaneKept DEF rowVars, markVars, reapVars, CancelDue
  <2>2. CASE ~\E m \in queue : WorkTake(w, m)
    <3>1. PICK s \in Tasks :
            /\ job[w][1] = s /\ wpc[w] # "idle"
            /\ UNCHANGED <<rpc, cpc, markVars, reapVars>>
            /\ \A v \in Workers \ {w} : wpc'[v] = wpc[v] /\ job'[v] = job[v]
            /\ job'[w] = job[w] \/ (wpc'[w] = "idle" /\ job'[w] = NoJob)
            /\ \A r \in Tasks \ {s} : status'[r] = status[r] /\ ledger'[r] = ledger[r]
            /\ \A m \in queue' : m \in queue \/ m[1] = s
      BY <1>4, <2>2, WorkerFrame
    <3>2. s # t
      BY <1>4, <3>1
    <3>3. job'[w][1] # t
      BY <3>1, <3>2, Constants DEF NoJob
    <3>4. Sent(t)' => Sent(t)
      BY <3>1, <3>2, <3>3 DEF Sent
    <3>5. \A v \in Workers : WorkDue(v, t)' => WorkDue(v, t)
      BY <3>1, <3>3 DEF WorkDue
    <3> QED  BY <1>1, <3>1, <3>2, <3>4, <3>5, SaneKept DEF markVars, reapVars, CancelDue
  <2> QED  BY <2>1, <2>2
<1>5. CASE UNCHANGED vars \/ Admin \/ \E u \in Users : Authenticate(u)
  <2>1. UNCHANGED <<rowVars, markVars, queue, requestVars, workVars, reapVars>>
    BY <1>5, RestFrame
  <2>2. UNCHANGED <<rpc, cpc, status, ledger, markers, queue, wpc, job>>
    BY <2>1 DEF rowVars, markVars, requestVars, workVars
  <2>3. (Sent(t)' => Sent(t)) /\ (\A w \in Workers : WorkDue(w, t)' => WorkDue(w, t))
    BY <2>2 DEF Sent, WorkDue
  <2> QED  BY <1>1, <2>1, <2>2, <2>3, SaneKept DEF CancelDue
<1> QED  BY <1>2, <1>3, <1>4, <1>5, WhoActs

LEMMA InitSafe ==
  ASSUME Init
  PROVE  Safe
<1>1. TypeOK
  <2>1. Credits \in [Users -> Nat]
    BY ConstantsOK DEF ConstantsOK
  <2> QED
    BY <2>1 DEF Init, TypeOK, BillsTyped, AdminTyped, RowsTyped, MarksTyped, RequestsTyped,
                QueueTyped, WorkersTyped, ReaperTyped, FaultsTyped, NoJob, Statuses
<1>2. RowsFollow /\ WorkersKnow /\ CancelsKnow
  BY Constants DEF Init, RowsFollow, WorkersKnow, CancelsKnow, RevertSteps
<1>3. \A t \in Tasks : Sane(t)
  BY Constants DEF Init, Sane, RequestSane, LedgerSane, ReaperSane, OneEnds, Sent, NoJob, CancelDue,
                   WorkDue, ReapDue, UndoSteps, RevertSteps, GiveSteps, Open
<1> QED  BY <1>1, <1>2, <1>3 DEF Safe

LEMMA NextSafe ==
  ASSUME Safe, [Next]_vars
  PROVE  Safe'
<1>1. TypeOK'
  BY NextTypes DEF Safe
<1>2. RowsFollow' /\ WorkersKnow' /\ CancelsKnow'
  BY RowsFollowNext, WorkersKnowNext, CancelsKnowNext
<1>3. ASSUME NEW t \in Tasks \ astray' PROVE Sane(t)'
  BY RequestSaneNext, CancelSaneNext, WorkerSaneNext, ReaperSaneNext, OthersSaneNext
<1> QED  BY <1>1, <1>2, <1>3 DEF Safe


-----------------------------------------------------------------------------
(* What a step does to the credits and slots that tasks hold *)

Same(t) == (Holds(t)' <=> Holds(t)) /\ (Occupies(t)' <=> Occupies(t))
Others(t) == \A s \in Tasks \ ({t} \cup astray') : Same(s)

Takes(t) ==
  /\ Admit(t) /\ Others(t)
  /\ t \notin astray' => ~Holds(t) /\ Holds(t)' /\ ~Occupies(t) /\ Occupies(t)'

Refunds(t) ==
  /\ GiveBack(t) /\ Others(t)
  /\ t \notin astray' => Holds(t) /\ ~(Holds(t)') /\ (Occupies(t)' <=> Occupies(t))

Frees(t) ==
  /\ GiveSlot(t) /\ Others(t)
  /\ t \notin astray' => Occupies(t) /\ ~(Occupies(t)') /\ (Holds(t)' <=> Holds(t))

Keeps == \A s \in Tasks \ astray' : Same(s)

Effect(t) ==
  \/ Takes(t) \/ Refunds(t) \/ Frees(t)
  \/ Keeps /\ UNCHANGED billVars

(* The reaper is past the slot of an orphan. *)
Cleared(t) == xjob = t /\ xpc \in {"unkey", "unmark"}

LEMMA SameKept ==
  ASSUME NEW t \in Tasks,
         rpc'[t] = rpc[t], status'[t] = status[t], t \in markers' <=> t \in markers,
         RefundDue(t)' <=> RefundDue(t), SlotDue(t)' <=> SlotDue(t),
         Reaped(t)' <=> Reaped(t), Cleared(t)' <=> Cleared(t)
  PROVE  Same(t)
<1>1. Holds(t)' <=> Holds(t)
  BY DEF Holds
<1>2. Occupies(t)' <=> Occupies(t)
  BY DEF Occupies, Cleared
<1> QED  BY <1>1, <1>2 DEF Same

LEMMA Undue ==
  ASSUME Safe, NEW t \in Tasks \ astray
  PROVE  /\ status[t] \in Open => ~RefundDue(t) /\ ~SlotDue(t)
         /\ rpc[t] # "ended" /\ status[t] = "none" => ~Reaped(t) /\ ~Cleared(t)
<1>1. Sane(t)
  BY DEF Safe
<1>2. ASSUME status[t] \in Open PROVE ~RefundDue(t) /\ ~SlotDue(t)
  BY <1>1, <1>2, OpenUndue DEF RefundDue, SlotDue, CancelDue, WorkDue, GiveSteps
<1>3. ASSUME rpc[t] # "ended", status[t] = "none" PROVE ~Reaped(t) /\ ~Cleared(t)
  BY <1>1, <1>3 DEF Sane, ReaperSane, Reaped, Cleared
<1> QED  BY <1>2, <1>3

LEMMA RequestOthers ==
  ASSUME Safe, NEW t \in Tasks, RequestActs(t)
  PROVE  /\ Others(t)
         /\ RefundDue(t)' <=> RefundDue(t)
         /\ SlotDue(t)' <=> SlotDue(t)
         /\ Reaped(t)' <=> Reaped(t)
         /\ Cleared(t)' <=> Cleared(t)
<1>1. UNCHANGED <<cpc, wpc, job, xpc, xjob>>
  BY RequestFrame DEF Safe, workVars, reapVars
<1>2. ASSUME NEW s \in Tasks
      PROVE  /\ RefundDue(s)' <=> RefundDue(s)
             /\ SlotDue(s)' <=> SlotDue(s)
             /\ Reaped(s)' <=> Reaped(s)
             /\ Cleared(s)' <=> Cleared(s)
  BY <1>1 DEF RefundDue, SlotDue, Reaped, Cleared
<1>3. ASSUME NEW s \in Tasks \ {t} PROVE Same(s)
  BY <1>2, RequestFrame, SameKept DEF Safe
<1> QED  BY <1>2, <1>3 DEF Others

LEMMA RequestEffect ==
  ASSUME Safe, NEW t \in Tasks, RequestActs(t)
  PROVE  Effect(t) \/ (HydrateFill(t) /\ Keeps)
<1> USE DEF Safe, TypeOK, RequestsTyped, RowsTyped
<1>1. /\ Others(t)
      /\ RefundDue(t)' <=> RefundDue(t)
      /\ SlotDue(t)' <=> SlotDue(t)
      /\ Reaped(t)' <=> Reaped(t)
      /\ Cleared(t)' <=> Cleared(t)
  BY RequestOthers
<1>2. CASE t \in astray'
  BY <1>1, <1>2
  DEF Effect, Takes, Refunds, Frees, Keeps, Others, RequestActs, Request, Gate, GateLost,
      HydrateRead, HydrateFill, MarkPending, Persist, Undo, Send, Revert, Clear, RevertError,
      RequestAbort
<1>3. CASE t \notin astray'
  <2>1. t \notin astray /\ RequestSane(t)
    BY <1>3, RequestFrame DEF Sane
  <2>2. /\ rpc[t] \in {"idle", "hydrate", "fill", "regate", "mark", "persist"} => status[t] = "none"
        /\ rpc[t] \in {"idle", "hydrate", "fill", "regate", "mark"} => t \notin markers
        /\ rpc[t] \in {"send", "clear"} \cup RevertSteps => status[t] # "none"
    BY DEF RowsFollow
  <2>3. /\ status[t] \in Open => ~RefundDue(t) /\ ~SlotDue(t)
        /\ rpc[t] # "ended" /\ status[t] = "none" => ~Reaped(t) /\ ~Cleared(t)
    BY <2>1, Undue
  <2>4. ASSUME Same(t), UNCHANGED billVars PROVE Effect(t)
    BY <1>1, <2>4 DEF Effect, Keeps, Others
  <2>5. CASE Gate(t)
    <3>1. UNCHANGED rowVars /\ status[t] = "none" /\ t \notin markers /\ UNCHANGED markers
          /\ rpc[t] \in {"idle", "regate"}
      BY <2>2, <2>5 DEF Gate, Arrives, Admit, markVars
    <3>2. ~Holds(t) /\ ~Occupies(t)
      BY <3>1 DEF Holds, Occupies, Open
    <3>3. CASE Admit(t) /\ Go(t, "mark")
      <4>1. rpc'[t] = "mark"
        BY <3>3 DEF Go
      <4>2. Holds(t)' /\ Occupies(t)'
        BY <4>1 DEF Holds, Occupies
      <4> QED  BY <1>1, <3>2, <3>3, <4>2 DEF Effect, Takes
    <3>4. CASE UNCHANGED billVars /\ Go(t, IF CacheMiss(t) /\ rpc[t] = "idle" THEN "hydrate" ELSE "ended")
      <4>1. rpc'[t] \in {"hydrate", "ended"}
        BY <3>4 DEF Go
      <4>2. ~(Holds(t)') /\ ~(Occupies(t)')
        BY <3>1, <4>1 DEF Holds, Occupies, Open, rowVars, UndoSteps
      <4> QED  BY <2>4, <3>2, <3>4, <4>2 DEF Same
    <3> QED  BY <2>5, <3>3, <3>4 DEF Gate
  <2>6. CASE GateLost(t)
    BY <1>3, <2>6 DEF GateLost, Misled
  <2>7. CASE HydrateRead(t) \/ HydrateFill(t)
    <3>1. UNCHANGED rowVars /\ status[t] = "none" /\ t \notin markers /\ UNCHANGED markers
          /\ rpc[t] \in {"hydrate", "fill"}
      BY <2>2, <2>7 DEF HydrateRead, HydrateFill, markVars
    <3>2. rpc'[t] \in {"fill", "regate"}
      BY <2>7 DEF HydrateRead, HydrateFill
    <3>3. ~Holds(t) /\ ~Occupies(t) /\ ~(Holds(t)') /\ ~(Occupies(t)')
      BY <3>1, <3>2 DEF Holds, Occupies, Open, rowVars
    <3>4. Same(t)
      BY <3>3 DEF Same
    <3>5. Keeps
      BY <1>1, <3>4 DEF Keeps, Others
    <3> QED  BY <2>4, <2>7, <3>4, <3>5 DEF HydrateRead
  <2>8. CASE MarkPending(t)
    <3>1. UNCHANGED <<rowVars, billVars>> /\ status[t] = "none" /\ t \in markers' /\ rpc[t] = "mark"
      BY <2>2, <2>8 DEF MarkPending
    <3>2. rpc'[t] \in {"persist", "ended"}
      BY <2>8 DEF MarkPending, Go
    <3>3. ~(Reaped(t)') /\ ~(Cleared(t)')
      BY <1>1, <2>3, <3>1
    <3>4. Holds(t) /\ Occupies(t)
      BY <3>1 DEF Holds, Occupies
    <3>5. Holds(t)' /\ Occupies(t)'
      BY <3>1, <3>2, <3>3 DEF Holds, Occupies, Cleared, UndoSteps, rowVars
    <3> QED  BY <2>4, <3>1, <3>4, <3>5 DEF Same
  <2>9. CASE Persist(t)
    <3>1. /\ rpc[t] = "persist" /\ status[t] = "none" /\ t \in markers /\ UNCHANGED <<billVars, markVars>>
          /\ \/ status'[t] = "PENDING" /\ rpc'[t] = "send"
             \/ status'[t] = "none" /\ rpc'[t] = "undo"
      BY <1>3, <2>1, <2>2, <2>9 DEF Persist, Insert, Go, Misled, RequestSane, rowVars
    <3>2. ~Reaped(t) /\ ~Cleared(t) /\ ~(Reaped(t)') /\ ~(Cleared(t)')
      BY <1>1, <2>3, <3>1
    <3>3. Holds(t) /\ Occupies(t)
      BY <3>1, <3>2 DEF Holds, Occupies, Cleared, UndoSteps
    <3>4. Holds(t)' /\ Occupies(t)'
      BY <3>1, <3>2 DEF Holds, Occupies, Cleared, UndoSteps, RevertSteps, Open, markVars
    <3> QED  BY <2>4, <3>1, <3>3, <3>4 DEF Same
  <2>10. CASE Undo(t)
    <3>1. status[t] = "none" /\ t \in markers /\ rpc[t] \in UndoSteps /\ UNCHANGED rowVars
      BY <2>1, <2>10 DEF Undo, RequestSane, UndoSteps
    <3>2. ~Reaped(t) /\ ~Cleared(t) /\ ~(Reaped(t)') /\ ~(Cleared(t)')
      BY <1>1, <2>3, <3>1 DEF UndoSteps
    <3>3. CASE rpc[t] = "undo"
      <4>1. GiveBack(t) /\ rpc'[t] = "undoSlot" /\ UNCHANGED markVars
        BY <2>10, <3>3 DEF Undo, Go
      <4>2. Holds(t) /\ ~(Holds(t)')
        BY <3>1, <3>2, <3>3, <4>1 DEF Holds, UndoSteps, Open, rowVars
      <4>3. Occupies(t) /\ Occupies(t)'
        BY <3>3, <4>1 DEF Occupies
      <4> QED  BY <1>1, <4>1, <4>2, <4>3 DEF Effect, Refunds
    <3>4. CASE rpc[t] = "undoSlot"
      <4>1. GiveSlot(t) /\ rpc'[t] = "undoKey" /\ UNCHANGED markVars
        BY <2>10, <3>4 DEF Undo, Go
      <4>2. ~Holds(t) /\ ~(Holds(t)')
        BY <3>1, <3>4, <4>1 DEF Holds, UndoSteps, Open, rowVars
      <4>3. Occupies(t) /\ ~(Occupies(t)')
        BY <3>1, <3>4, <4>1 DEF Occupies, UndoSteps, Open, rowVars
      <4> QED  BY <1>1, <4>1, <4>2, <4>3 DEF Effect, Frees
    <3>5. CASE rpc[t] \in {"undoKey", "undoMark"}
      <4>1. /\ UNCHANGED billVars
            /\ rpc'[t] = "undoMark" \/ (rpc'[t] = "ended" /\ t \notin markers')
        BY <2>10, <3>5 DEF Undo, Go, ForgetMarker
      <4>2. ~Holds(t) /\ ~(Holds(t)')
        BY <3>1, <3>5, <4>1 DEF Holds, UndoSteps, Open, rowVars
      <4>3. ~Occupies(t) /\ ~(Occupies(t)')
        BY <3>1, <3>5, <4>1 DEF Occupies, UndoSteps, Open, rowVars
      <4> QED  BY <2>4, <4>1, <4>2, <4>3 DEF Same
    <3> QED  BY <3>1, <3>3, <3>4, <3>5 DEF UndoSteps
  <2>11. CASE Send(t)
    <3>1. /\ UNCHANGED <<billVars, rowVars, markVars>> /\ rpc[t] = "send" /\ status[t] # "none"
          /\ rpc'[t] = "clear" \/ rpc'[t] = "revert"
      BY <2>2, <2>11 DEF Send, Go
    <3>2. Holds(t)' <=> Holds(t)
      BY <1>1, <3>1 DEF Holds, RevertSteps, rowVars
    <3>3. Occupies(t)' <=> Occupies(t)
      BY <1>1, <3>1 DEF Occupies, rowVars
    <3> QED  BY <2>4, <3>1, <3>2, <3>3 DEF Same
  <2>12. CASE Revert(t)
    <3>1. rpc[t] \in RevertSteps /\ status[t] # "none"
      BY <2>2, <2>12 DEF Revert, RevertSteps
    <3>2. CASE rpc[t] = "revert"
      <4>1. GiveBack(t) /\ rpc'[t] = "revertSlot" /\ UNCHANGED <<rowVars, markVars>>
        BY <2>12, <3>2 DEF Revert, Go
      <4>2. status[t] = "PENDING" /\ status'[t] = "PENDING" /\ ~RefundDue(t)
        BY <2>1, <2>3, <3>2, <4>1 DEF RequestSane, RevertSteps, Open, rowVars
      <4>3. Holds(t) /\ ~(Holds(t)')
        BY <1>1, <3>2, <4>1, <4>2 DEF Holds, RevertSteps, Open
      <4>4. Occupies(t) /\ Occupies(t)'
        BY <3>2, <4>1, <4>2 DEF Occupies, Open
      <4> QED  BY <1>1, <4>1, <4>3, <4>4 DEF Effect, Refunds
    <3>3. CASE rpc[t] = "revertSlot"
      <4>1. GiveSlot(t) /\ rpc'[t] = "revertKey" /\ UNCHANGED <<rowVars, markVars>>
        BY <2>12, <3>3 DEF Revert, Go
      <4>2. status[t] = "PENDING" /\ status'[t] = "PENDING" /\ ~RefundDue(t) /\ ~SlotDue(t)
        BY <2>1, <2>3, <3>3, <4>1 DEF RequestSane, RevertSteps, Open, rowVars
      <4>3. ~Holds(t) /\ ~(Holds(t)')
        BY <1>1, <3>3, <4>1, <4>2 DEF Holds, RevertSteps, Open
      <4>4. Occupies(t) /\ ~(Occupies(t)')
        BY <1>1, <3>3, <4>1, <4>2 DEF Occupies, Open
      <4> QED  BY <1>1, <4>1, <4>3, <4>4 DEF Effect, Frees
    <3>4. CASE rpc[t] \in {"revertKey", "revertRow", "revertLedger"}
      <4>1. /\ UNCHANGED billVars
            /\ \/ status'[t] = status[t] /\ rpc[t] = "revertKey" /\ rpc'[t] = "revertRow"
               \/ rpc[t] = "revertRow" /\ status'[t] = "FAILED" /\ rpc'[t] = "revertLedger"
               \/ rpc[t] = "revertLedger" /\ status'[t] = status[t] /\ rpc'[t] = "clear"
        BY <2>1, <2>12, <3>4
        DEF Revert, Go, SetStatus, Ended, RequestSane, RevertSteps, Open, rowVars
      <4>2. /\ rpc[t] \in {"revertKey", "revertRow"} =>
                 status[t] = "PENDING" /\ ~RefundDue(t) /\ ~SlotDue(t)
            /\ rpc[t] = "revertLedger" => status[t] = "FAILED"
        BY <2>1, <2>3 DEF RequestSane, RevertSteps, Open
      <4>3. Holds(t)' <=> Holds(t)
        BY <1>1, <4>1, <4>2 DEF Holds, RevertSteps, Open
      <4>4. Occupies(t)' <=> Occupies(t)
        BY <1>1, <4>1, <4>2 DEF Occupies, Open
      <4> QED  BY <2>4, <4>1, <4>3, <4>4 DEF Same
    <3> QED  BY <3>1, <3>2, <3>3, <3>4 DEF RevertSteps
  <2>13. CASE Clear(t)
    <3>1. /\ UNCHANGED <<billVars, rowVars>> /\ rpc[t] = "clear" /\ rpc'[t] = "ended"
          /\ status[t] # "none"
      BY <2>2, <2>13 DEF Clear, Go
    <3>2. Holds(t)' <=> Holds(t)
      BY <1>1, <3>1 DEF Holds, RevertSteps, rowVars
    <3>3. Occupies(t)' <=> Occupies(t)
      BY <1>1, <3>1 DEF Occupies, rowVars
    <3> QED  BY <2>4, <3>1, <3>2, <3>3 DEF Same
  <2>14. CASE RevertError(t)
    BY <1>3, <2>14 DEF RevertError, Misled
  <2>15. CASE RequestAbort(t)
    <3>1. /\ UNCHANGED <<billVars, rowVars, markVars>> /\ rpc'[t] = "ended"
          /\ rpc[t] \in {"hydrate", "fill", "regate", "persist", "undo", "clear"}
      BY <1>3, <2>15
      DEF RequestAbort, Go, FaultAt, Misled, RequestSteps, UndoSteps, RevertSteps
    <3>2. rpc[t] = "undo" => status[t] = "none" /\ t \in markers
      BY <2>1 DEF RequestSane, UndoSteps
    <3>3. Holds(t)' <=> Holds(t)
      BY <1>1, <2>2, <3>1, <3>2 DEF Holds, UndoSteps, RevertSteps, rowVars, markVars
    <3>4. Occupies(t)' <=> Occupies(t)
      BY <1>1, <2>2, <2>3, <3>1, <3>2 DEF Occupies, Cleared, UndoSteps, rowVars, markVars
    <3> QED  BY <2>4, <3>1, <3>3, <3>4 DEF Same
  <2> QED
    BY <2>5, <2>6, <2>7, <2>8, <2>9, <2>10, <2>11, <2>12, <2>13, <2>14, <2>15
    DEF RequestActs, Request
<1> QED  BY <1>2, <1>3

(* A step that does not change what is due for a task, nor its row. *)
LEMMA OnesDue ==
  ASSUME Safe, NEW t \in Tasks \ astray
  PROVE  /\ status[t] = "CANCELLED" =>
              /\ RefundDue(t) <=> \E c \in Cancels : CancelOf[c] = t /\ cpc[c] = "refund"
              /\ SlotDue(t) <=> \E c \in Cancels : CancelDue(c, t)
         /\ status[t] \in {"FAILED", "COMPLETED"} =>
              /\ \A c \in Cancels : ~CancelDue(c, t)
              /\ ReapDue(t) => \A w \in Workers : ~WorkDue(w, t)
         /\ \A c, d \in Cancels : CancelDue(c, t) /\ CancelDue(d, t) => c = d
         /\ \A v, w \in Workers : WorkDue(v, t) /\ WorkDue(w, t) => v = w
<1>1. Sane(t)
  BY DEF Safe
<1>2. ASSUME status[t] = "CANCELLED"
      PROVE  /\ \A w \in Workers : ~WorkDue(w, t)
             /\ ~ReapDue(t)
  BY <1>1, <1>2 DEF Safe, WorkersKnow, WorkDue, GiveSteps, Sane, ReaperSane, ReapDue
<1>3. ASSUME status[t] = "CANCELLED"
      PROVE  /\ RefundDue(t) <=> \E c \in Cancels : CancelOf[c] = t /\ cpc[c] = "refund"
             /\ SlotDue(t) <=> \E c \in Cancels : CancelDue(c, t)
  BY <1>2, <1>3 DEF RefundDue, SlotDue, CancelDue, WorkDue, ReapDue, GiveSteps
<1>4. ASSUME status[t] \in {"FAILED", "COMPLETED"} PROVE \A c \in Cancels : ~CancelDue(c, t)
  BY <1>4 DEF Safe, CancelsKnow, CancelDue
<1> QED  BY <1>1, <1>3, <1>4 DEF Sane, OneEnds

LEMMA CancelEffect ==
  ASSUME Safe, NEW c \in Cancels, CancelActs(c)
  PROVE  Effect(CancelOf[c])
<1> USE DEF Safe, TypeOK, RequestsTyped, RowsTyped
<1> DEFINE t == CancelOf[c]
<1>0. t \in Tasks
  BY Constants
<1>1. /\ UNCHANGED <<rpc, markers, xpc, xjob>>
      /\ \A d \in Cancels \ {c} : cpc'[d] = cpc[d]
      /\ \A s \in Tasks \ {t} : status'[s] = status[s]
      /\ \A w \in Workers :
           \/ wpc'[w] = wpc[w] /\ job'[w] = job[w]
           \/ /\ cpc[c] = "revoke" /\ job[w][1] = t
              /\ wpc'[w] = "idle" /\ job'[w] = NoJob
      /\ astray \subseteq astray'
  BY CancelFrame DEF markVars, reapVars
<1>2. ASSUME NEW s \in Tasks
      PROVE  (Reaped(s)' <=> Reaped(s)) /\ (Cleared(s)' <=> Cleared(s))
  BY <1>1 DEF Reaped, Cleared
<1>3. Others(t)
  <2> SUFFICES ASSUME NEW s \in Tasks \ {t} PROVE Same(s)
    BY DEF Others
  <2>1. ASSUME NEW w \in Workers
        PROVE  /\ job'[w][1] = s <=> job[w][1] = s
               /\ job[w][1] = s => wpc'[w] = wpc[w]
    BY <1>1, Constants DEF NoJob
  <2>2. RefundDue(s)' <=> RefundDue(s)
    BY <1>1, <2>1 DEF RefundDue
  <2>3. SlotDue(s)' <=> SlotDue(s)
    BY <1>1, <2>1 DEF SlotDue
  <2> QED  BY <1>1, <1>2, <2>2, <2>3, SameKept
<1>4. CASE t \in astray'
  BY <1>3, <1>4
  DEF Effect, Refunds, Frees, Keeps, Others, CancelActs, Cancel, CancelRead, CancelTransact,
      CancelRefund, CancelRevoke, CancelAbort
<1>5. CASE t \notin astray'
  <2>0. t \in Tasks \ astray
    BY <1>0, <1>1, <1>5
  <2>1. ASSUME Same(t), UNCHANGED billVars PROVE Effect(t)
    BY <1>3, <2>1 DEF Effect, Keeps, Others
  <2>2. CASE cpc[c] \in {"refund", "slot", "revoke"}
    <3>1. status[t] = "CANCELLED"
      BY <2>2 DEF CancelsKnow
    <3>2. status'[t] = "CANCELLED" /\ cpc'[c] \in {"slot", "revoke", "ended"}
      BY <1>0, <1>5, <2>2, <3>1
      DEF CancelActs, Cancel, CancelRead, CancelTransact, CancelRefund, CancelRevoke, CancelAbort,
          GoCancel, Misled, rowVars
    <3>3. \A w \in Workers : ~WorkDue(w, t) /\ ~(WorkDue(w, t)')
      <4>1. \A w \in Workers : ~WorkDue(w, t)
        BY <1>0, <3>1 DEF WorkersKnow, WorkDue, GiveSteps
      <4> QED  BY <1>1, <4>1 DEF WorkDue, GiveSteps
    <3>4. ~ReapDue(t) /\ ~(ReapDue(t)')
      BY <1>1, <2>0, <3>1 DEF Sane, ReaperSane, ReapDue
    <3>5. RefundDue(t)' <=> \E d \in Cancels : CancelOf[d] = t /\ cpc'[d] = "refund"
      BY <3>3, <3>4 DEF RefundDue, WorkDue, ReapDue, GiveSteps
    <3>6. SlotDue(t)' <=> \E d \in Cancels : CancelDue(d, t)'
      BY <3>3, <3>4 DEF SlotDue, WorkDue, ReapDue, CancelDue
    <3>7. cpc[c] \in {"refund", "slot"} => \A d \in Cancels \ {c} : ~CancelDue(d, t) /\ ~(CancelDue(d, t)')
      BY <1>1, <2>0, OnesDue DEF CancelDue
    <3>8. rpc[t] \notin {"mark", "undo", "undoSlot"}
      BY <2>0, <3>1 DEF Sane, RequestSane
    <3>9. /\ Holds(t) <=> RefundDue(t)
          /\ Holds(t)' <=> RefundDue(t)'
          /\ Occupies(t) <=> SlotDue(t)
          /\ Occupies(t)' <=> SlotDue(t)'
      BY <1>1, <3>1, <3>2, <3>8 DEF Holds, Occupies, Open
    <3>10. CASE cpc[c] = "refund"
      <4>1. GiveBack(t) /\ cpc'[c] = "slot"
        BY <1>0, <1>5, <3>1, <3>10
        DEF CancelActs, Cancel, CancelRead, CancelTransact, CancelRefund, CancelRevoke, CancelAbort,
            GoCancel, FaultAt, Misled
      <4>2. RefundDue(t) /\ ~(RefundDue(t)')
        BY <3>5, <3>7, <3>10, <4>1 DEF RefundDue, CancelDue
      <4>3. SlotDue(t) /\ SlotDue(t)'
        BY <3>6, <3>10, <4>1 DEF SlotDue, CancelDue
      <4> QED  BY <1>3, <3>9, <4>1, <4>2, <4>3 DEF Effect, Refunds
    <3>11. CASE cpc[c] = "slot"
      <4>1. GiveSlot(t) /\ cpc'[c] = "revoke"
        BY <1>0, <1>5, <3>1, <3>11
        DEF CancelActs, Cancel, CancelRead, CancelTransact, CancelRefund, CancelRevoke, CancelAbort,
            GoCancel, FaultAt, Misled
      <4>2. ~RefundDue(t) /\ ~(RefundDue(t)')
        BY <2>0, <3>1, <3>5, <3>7, <3>11, <4>1, OnesDue DEF CancelDue
      <4>3. SlotDue(t) /\ ~(SlotDue(t)')
        BY <3>6, <3>7, <3>11, <4>1 DEF SlotDue, CancelDue
      <4> QED  BY <1>3, <3>9, <4>1, <4>2, <4>3 DEF Effect, Frees
    <3>12. CASE cpc[c] = "revoke"
      <4>1. UNCHANGED billVars /\ cpc'[c] = "ended"
        BY <1>0, <3>12
        DEF CancelActs, Cancel, CancelRead, CancelTransact, CancelRefund, CancelRevoke, CancelAbort,
            GoCancel, FaultAt, Misled
      <4>2. RefundDue(t)' <=> RefundDue(t)
        BY <1>1, <2>0, <3>1, <3>5, <3>12, <4>1, OnesDue
      <4>3. SlotDue(t)' <=> SlotDue(t)
        BY <1>1, <2>0, <3>1, <3>6, <3>12, <4>1, OnesDue DEF CancelDue
      <4> QED  BY <2>1, <3>9, <4>1, <4>2, <4>3 DEF Same
    <3> QED  BY <2>2, <3>10, <3>11, <3>12
  <2>3. CASE cpc[c] \notin {"refund", "slot", "revoke"}
    <3>1. UNCHANGED billVars /\ UNCHANGED workVars
      BY <1>1, <2>3
      DEF CancelActs, Cancel, CancelRead, CancelTransact, CancelRefund, CancelRevoke, CancelAbort
    <3>2. CASE UNCHANGED rowVars
      <4>1. cpc'[c] \notin {"refund", "slot", "revoke"}
        BY <1>0, <2>3, <3>2
        DEF CancelActs, Cancel, CancelRead, CancelTransact, CancelRefund, CancelRevoke, CancelAbort,
            GoCancel, EndWithRefund, SetStatus, Open, rowVars
      <4>2. RefundDue(t)' <=> RefundDue(t)
        BY <1>1, <2>3, <3>1, <4>1 DEF RefundDue, workVars
      <4>3. SlotDue(t)' <=> SlotDue(t)
        BY <1>1, <2>3, <3>1, <4>1 DEF SlotDue, workVars
      <4> QED  BY <1>0, <1>1, <1>2, <2>1, <3>1, <3>2, <4>2, <4>3, SameKept DEF rowVars
    <3>3. CASE ~UNCHANGED rowVars
      <4>1. /\ status[t] \in Open /\ status'[t] = "CANCELLED" /\ cpc'[c] = "refund"
            /\ rpc[t] \notin RevertSteps
        BY <1>0, <1>5, <3>3
        DEF CancelActs, Cancel, CancelRead, CancelTransact, CancelRefund, CancelRevoke, CancelAbort,
            GoCancel, EndWithRefund, SetStatus, Ended, Open
      <4>2. RefundDue(t)' /\ SlotDue(t)'
        BY <4>1 DEF RefundDue, SlotDue
      <4>3. Holds(t) /\ Occupies(t)
        BY <4>1 DEF Holds, Occupies, RevertSteps
      <4>4. Holds(t)' /\ Occupies(t)'
        BY <4>1, <4>2 DEF Holds, Occupies
      <4> QED  BY <2>1, <3>1, <4>3, <4>4 DEF Same
    <3> QED  BY <3>2, <3>3
  <2> QED  BY <2>2, <2>3
<1> QED  BY <1>4, <1>5

LEMMA WorkerEffect ==
  ASSUME Safe, NEW w \in Workers, WorkerActs(w)
  PROVE  \/ Keeps /\ UNCHANGED billVars
         \/ \E t \in Tasks : Effect(t)
<1> USE DEF Safe, TypeOK, WorkersTyped, RowsTyped
<1>1. CASE \E m \in queue : WorkTake(w, m)
  <2>1. /\ UNCHANGED <<rpc, cpc, rowVars, markVars, reapVars, billVars>>
        /\ wpc[w] = "idle" /\ wpc'[w] = "start"
        /\ \A v \in Workers \ {w} : wpc'[v] = wpc[v] /\ job'[v] = job[v]
    BY <1>1, WorkerFrame DEF WorkTake
  <2>2. ASSUME NEW s \in Tasks PROVE Same(s)
    <3>1. RefundDue(s)' <=> RefundDue(s)
      BY <2>1 DEF RefundDue, reapVars
    <3>2. SlotDue(s)' <=> SlotDue(s)
      BY <2>1 DEF SlotDue, GiveSteps, reapVars
    <3>3. (Reaped(s)' <=> Reaped(s)) /\ (Cleared(s)' <=> Cleared(s))
      BY <2>1 DEF Reaped, Cleared, reapVars
    <3> QED  BY <2>1, <3>1, <3>2, <3>3, SameKept DEF rowVars, markVars
  <2> QED  BY <2>1, <2>2 DEF Keeps
<1>2. CASE ~\E m \in queue : WorkTake(w, m)
  <2>1. PICK t \in Tasks :
          /\ job[w][1] = t /\ wpc[w] # "idle"
          /\ UNCHANGED <<rpc, cpc, markVars, reapVars>>
          /\ \A v \in Workers \ {w} : wpc'[v] = wpc[v] /\ job'[v] = job[v]
          /\ job'[w] = job[w] \/ (wpc'[w] = "idle" /\ job'[w] = NoJob)
          /\ \A s \in Tasks \ {t} : status'[s] = status[s]
          /\ astray \subseteq astray'
    BY <1>2, WorkerFrame
  <2>2. ASSUME NEW s \in Tasks
        PROVE  /\ Reaped(s)' <=> Reaped(s)
               /\ Cleared(s)' <=> Cleared(s)
    BY <2>1 DEF Reaped, Cleared, reapVars
  <2>3. Others(t)
    <3> SUFFICES ASSUME NEW s \in Tasks \ {t} PROVE Same(s)
      BY DEF Others
    <3>1. job[w][1] # s /\ job'[w][1] # s
      BY <2>1, Constants DEF NoJob
    <3>2. RefundDue(s)' <=> RefundDue(s)
      BY <2>1, <3>1 DEF RefundDue, reapVars
    <3>3. SlotDue(s)' <=> SlotDue(s)
      BY <2>1, <3>1 DEF SlotDue, reapVars
    <3> QED  BY <2>1, <2>2, <3>2, <3>3, SameKept DEF markVars
  <2>4. CASE t \in astray'
    BY <1>2, <2>1, <2>3, <2>4
    DEF Effect, Refunds, Frees, Keeps, Others, WorkerActs, Work, WorkStart, WorkRaise, WorkComplete,
        WorkFail, WorkGive, WorkGiveAgain, WorkCrash, WorkCache
  <2>5. CASE t \notin astray'
    <3>1. t \in Tasks \ astray /\ RequestSane(t)
      BY <2>1, <2>5 DEF Sane
    <3>2. rpc[t] \in {"clear", "ended"}
      BY <2>1, <3>1 DEF RequestSane, Sent
    <3>3. ASSUME Same(t), UNCHANGED billVars PROVE Effect(t)
      BY <2>3, <3>3 DEF Effect, Keeps, Others
    <3>4. /\ \A v \in Workers \ {w} : WorkDue(v, t)' <=> WorkDue(v, t)
          /\ \A c \in Cancels : CancelDue(c, t)' <=> CancelDue(c, t)
          /\ ReapDue(t)' <=> ReapDue(t)
      BY <2>1 DEF WorkDue, CancelDue, ReapDue, reapVars
    <3>5. CASE wpc[w] \in GiveSteps \ {"cache"}
      <4>1. status[t] \in {"FAILED", "COMPLETED"} /\ (wpc[w] # "slot" => status[t] = "FAILED")
            /\ (wpc[w] = "slot" => status[t] = "COMPLETED")
        BY <2>1, <3>5 DEF WorkersKnow, GiveSteps
      <4>2. status'[t] = status[t]
        BY <1>2, <2>1, <2>5, <3>5
        DEF WorkerActs, Work, WorkStart, WorkRaise, WorkComplete, WorkFail, WorkGive, WorkGiveAgain,
            WorkCrash, WorkCache, GiveSteps, rowVars
      <4>3. /\ \A v \in Workers \ {w} : ~WorkDue(v, t) /\ ~(WorkDue(v, t)')
            /\ \A c \in Cancels : ~CancelDue(c, t) /\ ~(CancelDue(c, t)')
            /\ ~ReapDue(t) /\ ~(ReapDue(t)')
        BY <2>1, <3>1, <3>4, <3>5, <4>1, OnesDue DEF WorkDue
      <4>4. /\ RefundDue(t) <=> wpc[w] = "refund"
            /\ SlotDue(t) <=> wpc[w] \in GiveSteps
        BY <2>1, <4>3 DEF RefundDue, SlotDue, WorkDue, CancelDue, ReapDue, GiveSteps
      <4>5. /\ RefundDue(t)' <=> (job'[w][1] = t /\ wpc'[w] = "refund")
            /\ SlotDue(t)' <=> (job'[w][1] = t /\ wpc'[w] \in GiveSteps)
        BY <4>3 DEF RefundDue, SlotDue, WorkDue, CancelDue, ReapDue, GiveSteps
      <4>6. /\ Holds(t) <=> (status[t] = "COMPLETED" \/ RefundDue(t))
            /\ Holds(t)' <=> (status[t] = "COMPLETED" \/ RefundDue(t)')
            /\ Occupies(t) <=> SlotDue(t)
            /\ Occupies(t)' <=> SlotDue(t)'
        BY <2>1, <3>2, <4>1, <4>2 DEF Holds, Occupies, Open, RevertSteps
      <4>7. CASE wpc[w] = "refund"
        <5>1. GiveBack(t) /\ wpc'[w] = "slotFailed" /\ job'[w] = job[w]
          BY <1>2, <2>1, <2>5, <4>7
          DEF WorkerActs, Work, WorkStart, WorkRaise, WorkComplete, WorkFail, WorkGive,
              WorkGiveAgain, WorkCrash, WorkCache, GoWork, Misled, FaultAt, GiveSteps
        <5> QED  BY <2>1, <2>3, <4>1, <4>4, <4>5, <4>6, <4>7, <5>1 DEF Effect, Refunds, GiveSteps
      <4>8. CASE wpc[w] \in {"slot", "slotFailed"}
        <5>1. GiveSlot(t) /\ wpc'[w] \in {"idle", "cacheFailed"}
          BY <1>2, <2>1, <2>5, <4>8
          DEF WorkerActs, Work, WorkStart, WorkRaise, WorkComplete, WorkFail, WorkGive,
              WorkGiveAgain, WorkCrash, WorkCache, GoWork, Leave, Misled, FaultAt, GiveSteps
        <5> QED  BY <2>1, <2>3, <4>1, <4>4, <4>5, <4>6, <4>8, <5>1 DEF Effect, Frees, GiveSteps
      <4> QED  BY <3>5, <4>7, <4>8 DEF GiveSteps
    <3>6. CASE wpc[w] \notin GiveSteps \ {"cache"}
      <4>1. UNCHANGED billVars
        BY <1>2, <2>1, <2>5, <3>6
        DEF WorkerActs, Work, WorkStart, WorkRaise, WorkComplete, WorkFail, WorkGive, WorkGiveAgain,
            WorkCrash, WorkCache, GiveSteps
      <4>2. CASE UNCHANGED rowVars
        <5>1. /\ wpc'[w] = "refund" <=> wpc[w] = "refund"
              /\ wpc'[w] \in GiveSteps <=> wpc[w] \in GiveSteps
              /\ wpc'[w] \in GiveSteps => job'[w] = job[w]
          BY <1>2, <2>1, <2>5, <3>6, <4>2
          DEF WorkerActs, Work, WorkStart, WorkRaise, Retry, WorkComplete, WorkFail, WorkGive,
              WorkGiveAgain, WorkCrash, WorkCache, GoWork, Leave, Misled, FaultAt, GiveSteps,
              EndWithRefund, SetStatus, Open, rowVars, workVars
        <5>2. RefundDue(t)' <=> RefundDue(t)
          BY <2>1, <5>1 DEF RefundDue, GiveSteps, reapVars
        <5>3. SlotDue(t)' <=> SlotDue(t)
          BY <2>1, <5>1 DEF SlotDue, reapVars
        <5> QED  BY <2>1, <2>2, <3>3, <4>1, <4>2, <5>2, <5>3, SameKept DEF rowVars, markVars
      <4>3. CASE ~UNCHANGED rowVars
        <5>1. /\ job'[w] = job[w] \/ status'[t] = "RUNNING"
              /\ \/ status'[t] = "RUNNING"
                 \/ status'[t] = "COMPLETED" /\ wpc'[w] = "cache"
                 \/ status'[t] = "FAILED" /\ wpc'[w] = "refund"
              /\ status[t] \in Open
          BY <1>2, <2>1, <2>5, <4>3
          DEF WorkerActs, Work, WorkStart, WorkRaise, Retry, WorkComplete, WorkFail, WorkGive,
              WorkGiveAgain, WorkCrash, WorkCache, GoWork, Leave, Misled, FaultAt, EndWithRefund,
              Ended, SetStatus, Open, rowVars
        <5>2. Holds(t) /\ Occupies(t)
          BY <3>2, <5>1 DEF Holds, Occupies, RevertSteps
        <5>3. Holds(t)' /\ Occupies(t)'
          <6>1. CASE status'[t] = "RUNNING"
            BY <2>1, <3>2, <6>1 DEF Holds, Occupies, Open, RevertSteps
          <6>2. CASE status'[t] = "COMPLETED" /\ wpc'[w] = "cache" /\ job'[w] = job[w]
            <7>1. SlotDue(t)'
              BY <2>1, <6>2 DEF SlotDue, GiveSteps
            <7> QED  BY <2>1, <3>2, <6>2, <7>1 DEF Holds, Occupies, Open, RevertSteps
          <6>3. CASE status'[t] = "FAILED" /\ wpc'[w] = "refund" /\ job'[w] = job[w]
            <7>1. SlotDue(t)' /\ RefundDue(t)'
              BY <2>1, <6>3 DEF SlotDue, RefundDue, GiveSteps
            <7> QED  BY <6>3, <7>1 DEF Holds, Occupies
          <6> QED  BY <5>1, <6>1, <6>2, <6>3
        <5> QED  BY <3>3, <4>1, <5>2, <5>3 DEF Same
      <4> QED  BY <4>2, <4>3
    <3> QED  BY <3>5, <3>6
  <2> QED  BY <2>4, <2>5
<1> QED  BY <1>1, <1>2

LEMMA ReaperEffect ==
  ASSUME Safe, ReaperActs
  PROVE  \E t \in Tasks : Effect(t)
<1> USE DEF Safe, TypeOK, ReaperTyped, RowsTyped
<1>1. /\ UNCHANGED <<rpc, cpc, wpc, job>>
      /\ astray \subseteq astray'
  BY ReaperFrame DEF requestVars, workVars
<1>2. ASSUME NEW s \in Tasks,
             xjob = s => xpc = "idle",
             xjob' = s => xpc' = "idle"
      PROVE  /\ RefundDue(s)' <=> RefundDue(s)
             /\ SlotDue(s)' <=> SlotDue(s)
             /\ Reaped(s)' <=> Reaped(s)
             /\ Cleared(s)' <=> Cleared(s)
  BY <1>1, <1>2 DEF RefundDue, SlotDue, Reaped, Cleared
<1>3. ASSUME NEW t \in Tasks, ReapMarker(t) \/ ReapStuck(t) PROVE Effect(t)
  <2>1. /\ xpc = "idle" /\ UNCHANGED billVars
        /\ UNCHANGED reapVars \/ (xpc' \in {"orphan", "refund"} /\ xjob' = t)
    BY <1>3 DEF ReapMarker, ReapStuck, GoReap
  <2>2. ASSUME NEW s \in Tasks \ {t} PROVE Same(s)
    <3>1. status'[s] = status[s] /\ (s \in markers' <=> s \in markers)
      BY <1>3
      DEF ReapMarker, ReapStuck, ForgetMarker, EndWithRefund, SetStatus, rowVars, markVars
    <3>2. (xjob = s => xpc = "idle") /\ (xjob' = s => xpc' = "idle")
      BY <2>1 DEF reapVars
    <3> QED  BY <1>1, <1>2, <3>1, <3>2, SameKept
  <2>3. Others(t)
    BY <2>2 DEF Others
  <2>4. CASE t \in astray'
    BY <2>1, <2>3, <2>4 DEF Effect, Keeps, Others
  <2>5. CASE t \notin astray'
    <3>1. t \in Tasks \ astray /\ RequestSane(t)
      BY <1>1, <2>5 DEF Sane
    <3>2. ~Reaped(t) /\ ~(Reaped(t)') /\ ~Cleared(t) /\ ~(Cleared(t)')
      BY <2>1 DEF Reaped, Cleared, reapVars
    <3>3. CASE ReapMarker(t) /\ status[t] = "none"
      <4>1. rpc[t] = "ended" /\ t \in markers /\ UNCHANGED <<rowVars, markVars>>
        BY <2>5, <3>3 DEF ReapMarker, Old, Misled
      <4>2. Holds(t) /\ Occupies(t) /\ Holds(t)' /\ Occupies(t)'
        BY <1>1, <3>2, <3>3, <4>1 DEF Holds, Occupies, Cleared, UndoSteps, rowVars, markVars
      <4> QED  BY <2>1, <2>3, <4>2 DEF Effect, Keeps, Others, Same
    <3>4. CASE ReapMarker(t) /\ status[t] # "none"
      <4>1. UNCHANGED <<rowVars, reapVars>>
        BY <3>4 DEF ReapMarker
      <4>2. (RefundDue(t)' <=> RefundDue(t)) /\ (SlotDue(t)' <=> SlotDue(t))
        BY <1>1, <4>1 DEF RefundDue, SlotDue, reapVars
      <4>3. Same(t)
        BY <1>1, <3>4, <4>1, <4>2 DEF Same, Holds, Occupies, rowVars
      <4> QED  BY <2>1, <2>3, <4>3 DEF Effect, Keeps, Others
    <3>5. CASE ReapStuck(t)
      <4>1. status[t] = "RUNNING" /\ status'[t] = "FAILED" /\ xpc' = "refund" /\ xjob' = t
        BY <3>5 DEF ReapStuck, EndWithRefund, SetStatus, GoReap
      <4>2. rpc[t] \in {"clear", "ended"}
        BY <3>1, <4>1 DEF RequestSane
      <4>3. Holds(t) /\ Occupies(t)
        BY <4>1, <4>2 DEF Holds, Occupies, Open, RevertSteps
      <4>4. RefundDue(t)' /\ SlotDue(t)'
        BY <4>1 DEF RefundDue, SlotDue
      <4>5. Holds(t)' /\ Occupies(t)'
        BY <4>1, <4>4 DEF Holds, Occupies
      <4> QED  BY <2>1, <2>3, <4>3, <4>5 DEF Effect, Keeps, Others, Same
    <3> QED  BY <1>3, <3>3, <3>4, <3>5
  <2> QED  BY <2>4, <2>5
<1>4. CASE ReapRefund \/ ReapAbort
  <2>0. PICK t \in Tasks : xjob = t
    BY <1>4 DEF ReapRefund, ReapAbort
  <2>1. /\ xjob = t /\ xpc # "idle" /\ UNCHANGED rowVars
        /\ xjob' = t \/ (xjob' = NoTask /\ xpc' = "idle")
    BY <1>4, <2>0 DEF ReapRefund, ReapAbort, GoReap, Resting
  <2>2. ASSUME NEW s \in Tasks \ {t} PROVE Same(s)
    <3>1. s \in markers' <=> s \in markers
      BY <1>4, <2>1, <2>2 DEF ReapRefund, ReapAbort, ForgetKey, ForgetMarker, markVars
    <3>2. xjob # s /\ xjob' # s
      BY <2>1, <2>2, Constants
    <3> QED  BY <1>1, <1>2, <2>1, <3>1, <3>2, SameKept DEF rowVars
  <2>3. Others(t)
    BY <2>2 DEF Others
  <2>4. CASE t \in astray'
    BY <1>4, <2>1, <2>3, <2>4 DEF Effect, Refunds, Frees, Keeps, Others, ReapRefund, ReapAbort
  <2>5. CASE t \notin astray'
    <3>1. t \in Tasks \ astray /\ RequestSane(t) /\ ReaperSane(t)
      BY <1>1, <2>1, <2>5 DEF Sane
    <3>2. CASE status[t] = "none"
      <4>1. rpc[t] = "ended" /\ t \in markers /\ status'[t] = "none" /\ xpc \in Orphaned
        BY <2>1, <3>1, <3>2 DEF ReaperSane, rowVars
      <4>2. /\ Holds(t) <=> ~Reaped(t)
            /\ Occupies(t) <=> ~Cleared(t)
            /\ Holds(t)' <=> (t \in markers' /\ ~(Reaped(t)'))
            /\ Occupies(t)' <=> (t \in markers' /\ ~(Cleared(t)'))
        BY <1>1, <3>2, <4>1 DEF Holds, Occupies, Cleared, UndoSteps, Open
      <4>3. CASE ReapRefund
        <5>1. CASE xpc = "orphan"
          BY <2>1, <2>3, <4>1, <4>2, <4>3, <5>1
          DEF ReapRefund, GoReap, Effect, Refunds, Reaped, Cleared, markVars
        <5>2. CASE xpc = "orphanSlot"
          <6>1. GiveSlot(t) /\ xpc' = "unkey" /\ xjob' = t /\ UNCHANGED markers
            BY <2>1, <3>2, <4>3, <5>2 DEF ReapRefund, GoReap, markVars
          <6> QED  BY <2>1, <2>3, <4>1, <4>2, <5>2, <6>1 DEF Effect, Frees, Reaped, Cleared
        <5>3. CASE xpc = "unkey"
          <6>1. UNCHANGED billVars /\ xpc' = "unmark" /\ xjob' = t /\ UNCHANGED markers
            BY <2>1, <4>3, <5>3 DEF ReapRefund, GoReap, ForgetKey
          <6>2. Same(t)
            BY <2>1, <4>1, <4>2, <5>3, <6>1 DEF Same, Reaped, Cleared
          <6> QED  BY <2>3, <6>1, <6>2 DEF Effect, Keeps, Others
        <5>4. CASE xpc = "unmark"
          <6>1. UNCHANGED billVars /\ t \notin markers'
            BY <2>1, <4>3, <5>4 DEF ReapRefund, ForgetMarker
          <6>2. Same(t)
            BY <2>1, <4>1, <4>2, <5>4, <6>1 DEF Same, Reaped, Cleared
          <6> QED  BY <2>3, <6>1, <6>2 DEF Effect, Keeps, Others
        <5> QED  BY <4>1, <5>1, <5>2, <5>3, <5>4 DEF Orphaned
      <4>4. CASE ReapAbort
        <5>1. xpc = "orphan" /\ xpc' = "idle" /\ UNCHANGED <<billVars, markVars>>
          BY <2>1, <2>5, <4>4 DEF ReapAbort, FaultAt, Misled, Resting, GoReap
        <5>2. Same(t)
          BY <4>1, <4>2, <5>1 DEF Same, Reaped, Cleared, markVars
        <5> QED  BY <2>3, <5>1, <5>2 DEF Effect, Keeps, Others
      <4> QED  BY <1>4, <4>3, <4>4
    <3>3. CASE status[t] # "none"
      <4>1. status[t] = "FAILED" /\ status'[t] = "FAILED" /\ xpc \in {"refund", "slot"}
        BY <2>1, <3>1, <3>3 DEF ReaperSane, rowVars
      <4>2. ReapRefund
        BY <1>4, <2>1, <2>5, <4>1 DEF ReapAbort, FaultAt, Misled
      <4>3. /\ \A c \in Cancels : ~CancelDue(c, t) /\ ~(CancelDue(c, t)')
            /\ \A w \in Workers : ~WorkDue(w, t) /\ ~(WorkDue(w, t)')
        <5>1. ReapDue(t)
          BY <2>1, <4>1 DEF ReapDue
        <5>2. /\ \A c \in Cancels : ~CancelDue(c, t)
              /\ \A w \in Workers : ~WorkDue(w, t)
          BY <3>1, <4>1, <5>1, OnesDue
        <5> QED  BY <1>1, <2>1, <5>2 DEF CancelDue, WorkDue
      <4>4. /\ RefundDue(t) <=> xpc = "refund"
            /\ SlotDue(t) <=> xpc \in {"refund", "slot"}
        BY <2>1, <4>3 DEF RefundDue, SlotDue, CancelDue, WorkDue, GiveSteps
      <4>5. rpc[t] \in {"clear", "ended", "revertLedger"}
        BY <3>1, <4>1 DEF RequestSane
      <4>6. /\ Holds(t) <=> RefundDue(t)
            /\ Occupies(t) <=> SlotDue(t)
        BY <4>1, <4>5 DEF Holds, Occupies, Open
      <4>7. /\ Holds(t)' <=> RefundDue(t)'
            /\ Occupies(t)' <=> SlotDue(t)'
        BY <1>1, <4>1, <4>5 DEF Holds, Occupies, Open
      <4>8. CASE xpc = "refund"
        <5>1. GiveBack(t) /\ xpc' = "slot" /\ xjob' = t
          BY <2>1, <4>2, <4>8 DEF ReapRefund, GoReap
        <5>2. ~(RefundDue(t)') /\ SlotDue(t)'
          BY <2>1, <4>3, <5>1 DEF RefundDue, SlotDue, CancelDue, WorkDue, GiveSteps
        <5> QED  BY <2>3, <4>4, <4>6, <4>7, <4>8, <5>1, <5>2 DEF Effect, Refunds
      <4>9. CASE xpc = "slot"
        <5>1. GiveSlot(t) /\ xpc' = "idle"
          BY <2>1, <3>3, <4>2, <4>9 DEF ReapRefund, Resting, GoReap
        <5>2. ~(RefundDue(t)') /\ ~(SlotDue(t)')
          BY <2>1, <4>3, <5>1 DEF RefundDue, SlotDue, CancelDue, WorkDue, GiveSteps
        <5> QED  BY <2>3, <4>4, <4>6, <4>7, <4>9, <5>1, <5>2 DEF Effect, Frees
      <4> QED  BY <4>1, <4>8, <4>9
    <3> QED  BY <3>2, <3>3
  <2> QED  BY <2>1, <2>4, <2>5
<1> QED  BY <1>3, <1>4 DEF ReaperActs, Reap

-----------------------------------------------------------------------------
(* The balance and the counter move with the sizes of the sets *)

LEMMA SetGrows ==
  ASSUME NEW S \in SUBSET Tasks, NEW x \in Tasks \ S
  PROVE  Cardinality(S) \in Nat /\ Cardinality(S \cup {x}) = Cardinality(S) + 1
<1>1. IsFiniteSet(S)
  BY Constants, FS_Subset
<1>2. Cardinality(S \cup {x}) = IF x \in S THEN Cardinality(S) ELSE Cardinality(S) + 1
  BY <1>1, FS_AddElement, Zenon
<1> QED  BY <1>1, <1>2, FS_CardinalityType

LEMMA SetShrinks ==
  ASSUME NEW S \in SUBSET Tasks, NEW x \in S
  PROVE  /\ Cardinality(S) \in Nat /\ Cardinality(S \ {x}) \in Nat
         /\ Cardinality(S) = Cardinality(S \ {x}) + 1
<1>1. IsFiniteSet(S)
  BY Constants, FS_Subset
<1>2. Cardinality(S \ {x}) = Cardinality(S) - 1 /\ IsFiniteSet(S \ {x})
  BY <1>1, FS_RemoveElement
<1> QED  BY <1>1, <1>2, FS_CardinalityType

LEMMA CostSteps ==
  ASSUME NEW m \in Nat
  PROVE  Cost * m \in Int /\ Cost * (m + 1) = Cost * m + Cost /\ Cost * 0 = 0
<1>1. \A c \in Nat : c * m \in Int /\ c * (m + 1) = c * m + c /\ c * 0 = 0
  OBVIOUS
<1> QED  BY <1>1, Constants

LEMMA KeptSets ==
  ASSUME Keeps, NEW u \in Users, \A s \in astray' : UserOf[s] # u
  PROVE  Holding(u)' = Holding(u) /\ Occupying(u)' = Occupying(u)
<1>1. \A s \in Tasks : UserOf[s] = u => Same(s)
  BY DEF Keeps
<1> QED  BY <1>1 DEF Same, Holding, Occupying

LEMMA OthersSets ==
  ASSUME NEW t \in Tasks, Others(t), NEW u \in Users, \A s \in astray' : UserOf[s] # u
  PROVE  /\ UserOf[t] # u => Holding(u)' = Holding(u) /\ Occupying(u)' = Occupying(u)
         /\ Holding(u)' \ {t} = Holding(u) \ {t}
         /\ Occupying(u)' \ {t} = Occupying(u) \ {t}
<1>1. \A s \in Tasks \ {t} : UserOf[s] = u => Same(s)
  BY DEF Others
<1>2. ASSUME UserOf[t] # u
      PROVE  Holding(u)' = Holding(u) /\ Occupying(u)' = Occupying(u)
  BY <1>1, <1>2 DEF Same, Holding, Occupying
<1>3. Holding(u)' \ {t} = Holding(u) \ {t}
  BY <1>1 DEF Same, Holding
<1>4. Occupying(u)' \ {t} = Occupying(u) \ {t}
  BY <1>1 DEF Same, Occupying
<1> QED  BY <1>2, <1>3, <1>4

(* A user none of whose books change. *)
LEMMA BalancedStays ==
  ASSUME NEW u \in Users, CreditsBalance(u), SlotsBalance(u),
         Holding(u)' = Holding(u), Occupying(u)' = Occupying(u),
         credits'[u] = credits[u], active'[u] = active[u], stored'[u] = stored[u],
         Syncing(u) => Syncing(u)'
  PROVE  CreditsBalance(u)' /\ SlotsBalance(u)'
BY DEF CreditsBalance, SlotsBalance

LEMMA EffectBalances ==
  ASSUME Safe, NEW t \in Tasks, Effect(t), UNCHANGED adminVars,
         NEW u \in Users, \A s \in astray' : UserOf[s] # u,
         CreditsBalance(u), SlotsBalance(u)
  PROVE  CreditsBalance(u)' /\ SlotsBalance(u)'
<1>0. ASSUME Others(t)
      PROVE  /\ UserOf[t] # u => Holding(u)' = Holding(u) /\ Occupying(u)' = Occupying(u)
             /\ Holding(u)' \ {t} = Holding(u) \ {t}
             /\ Occupying(u)' \ {t} = Occupying(u) \ {t}
             /\ t \notin Holding(u)' => Holding(u)' = Holding(u) \ {t}
             /\ t \notin Occupying(u)' => Occupying(u)' = Occupying(u) \ {t}
             /\ (t \in Holding(u)' <=> t \in Holding(u)) => Holding(u)' = Holding(u)
             /\ (t \in Occupying(u)' <=> t \in Occupying(u)) => Occupying(u)' = Occupying(u)
  <2>1. /\ UserOf[t] # u => Holding(u)' = Holding(u) /\ Occupying(u)' = Occupying(u)
        /\ Holding(u)' \ {t} = Holding(u) \ {t}
        /\ Occupying(u)' \ {t} = Occupying(u) \ {t}
    BY <1>0, OthersSets
  <2>2. t \notin Holding(u)' => Holding(u)' = Holding(u) \ {t}
    BY <2>1
  <2>3. t \notin Occupying(u)' => Occupying(u)' = Occupying(u) \ {t}
    BY <2>1
  <2>4. (t \in Holding(u)' <=> t \in Holding(u)) => Holding(u)' = Holding(u)
    BY <2>1
  <2>5. (t \in Occupying(u)' <=> t \in Occupying(u)) => Occupying(u)' = Occupying(u)
    BY <2>1
  <2> QED  BY <2>1, <2>2, <2>3, <2>4, <2>5
<1> USE DEF Safe, TypeOK, BillsTyped, AdminTyped
<1>1. stored' = stored /\ (Syncing(u)' <=> Syncing(u))
  BY DEF adminVars, Syncing
<1>2. CASE Keeps /\ UNCHANGED billVars
  BY <1>1, <1>2, KeptSets, BalancedStays DEF billVars
<1>3. CASE ~(Keeps /\ UNCHANGED billVars) /\ UserOf[t] # u
  <2>1. Others(t)
    BY <1>3 DEF Effect, Takes, Refunds, Frees
  <2>2. credits'[u] = credits[u] /\ active'[u] = active[u]
    BY <1>3 DEF Effect, Takes, Refunds, Frees, Admit, GiveBack, Credit, GiveSlot
  <2> QED  BY <1>1, <1>3, <1>0, <2>1, <2>2, BalancedStays
<1>4. CASE Takes(t) /\ UserOf[t] = u
  <2>1. t \notin Holding(u) /\ t \in Holding(u)' /\ t \notin Occupying(u) /\ t \in Occupying(u)'
    BY <1>4 DEF Takes, Holding, Occupying
  <2>2. Holding(u)' = Holding(u) \cup {t} /\ Occupying(u)' = Occupying(u) \cup {t}
    <3>1. Others(t)
      BY <1>4 DEF Takes
    <3> QED  BY <1>0, <2>1, <3>1
  <2>3. credits[u] # NoBalance /\ credits'[u] = credits[u] - Cost /\ active'[u] = active[u] + 1
        /\ credits'[u] \in Nat
    BY <1>4, Constants DEF Takes, Admit, Admissible, NoBalance
  <2>4. /\ Cardinality(Holding(u)) \in Nat
        /\ Cardinality(Holding(u)') = Cardinality(Holding(u)) + 1
        /\ Cardinality(Occupying(u)') = Cardinality(Occupying(u)) + 1
    <3>1. Holding(u) \subseteq Tasks /\ Occupying(u) \subseteq Tasks
      BY DEF Holding, Occupying
    <3> QED  BY <2>1, <2>2, <3>1, SetGrows
  <2>5. SlotsBalance(u)'
    BY <2>3, <2>4 DEF SlotsBalance
  <2>6. CreditsBalance(u)'
    <3> DEFINE m == Cardinality(Holding(u))
    <3>1. m \in Nat /\ Cost * (m + 1) = Cost * m + Cost /\ Cost * m \in Int
      BY <2>4, CostSteps
    <3>2. CASE Syncing(u)
      BY <1>1, <3>2 DEF CreditsBalance
    <3>3. CASE credits[u] = stored[u] - Cost * m
      <4>1. credits[u] \in Int /\ stored[u] \in Int /\ Cost \in Int
        BY Constants DEF NoBalance
      <4>2. credits'[u] = stored[u] - Cost * (m + 1)
        <5> HIDE DEF m
        <5> QED  BY <2>3, <3>1, <3>3, <4>1
      <4> QED  BY <1>1, <2>3, <2>4, <4>2 DEF CreditsBalance, NoBalance
    <3> QED  BY <2>3, <3>2, <3>3 DEF CreditsBalance
  <2> QED  BY <2>5, <2>6
<1>5. CASE Refunds(t) /\ UserOf[t] = u
  <2>1. t \in Holding(u) /\ t \notin Holding(u)' /\ (t \in Occupying(u)' <=> t \in Occupying(u))
    BY <1>5 DEF Refunds, Holding, Occupying
  <2>2. Holding(u)' = Holding(u) \ {t} /\ Occupying(u)' = Occupying(u)
    <3>1. Others(t)
      BY <1>5 DEF Refunds
    <3> QED  BY <1>0, <2>1, <3>1
  <2>3. active'[u] = active[u]
        /\ credits'[u] = IF credits[u] = NoBalance THEN Cost ELSE credits[u] + Cost
    BY <1>5 DEF Refunds, GiveBack, Credit
  <2>4. /\ Cardinality(Holding(u)') \in Nat
        /\ Cardinality(Holding(u)) = Cardinality(Holding(u)') + 1
    <3>1. Holding(u) \subseteq Tasks
      BY DEF Holding
    <3> QED  BY <2>1, <2>2, <3>1, SetShrinks
  <2>5. SlotsBalance(u)'
    BY <2>2, <2>3 DEF SlotsBalance
  <2>6. CreditsBalance(u)'
    <3> DEFINE m == Cardinality(Holding(u)')
    <3>1. m \in Nat /\ Cost * (m + 1) = Cost * m + Cost /\ Cost * m \in Int
      BY <2>4, CostSteps
    <3>2. CASE Syncing(u)
      BY <1>1, <3>2 DEF CreditsBalance
    <3>3. CASE credits[u] # NoBalance /\ credits[u] = stored[u] - Cost * (m + 1)
      <4>1. credits[u] \in Nat /\ stored[u] \in Int /\ Cost \in Nat
        BY <3>3, Constants
      <4>2. credits'[u] = stored[u] - Cost * m /\ credits'[u] # NoBalance
        <5> HIDE DEF m
        <5> QED  BY <2>3, <3>1, <3>3, <4>1 DEF NoBalance
      <4> QED  BY <1>1, <4>2 DEF CreditsBalance
    <3> QED  BY <2>1, <2>4, <3>2, <3>3 DEF CreditsBalance
  <2> QED  BY <2>5, <2>6
<1>6. CASE Frees(t) /\ UserOf[t] = u
  <2>1. t \in Occupying(u) /\ t \notin Occupying(u)' /\ (t \in Holding(u)' <=> t \in Holding(u))
    BY <1>6 DEF Frees, Holding, Occupying
  <2>2. Occupying(u)' = Occupying(u) \ {t} /\ Holding(u)' = Holding(u)
    <3>1. Others(t)
      BY <1>6 DEF Frees
    <3> QED  BY <1>0, <2>1, <3>1
  <2>3. credits'[u] = credits[u] /\ active'[u] = IF active[u] > 0 THEN active[u] - 1 ELSE 0
    BY <1>6 DEF Frees, GiveSlot
  <2>4. /\ Cardinality(Occupying(u)') \in Nat
        /\ Cardinality(Occupying(u)) = Cardinality(Occupying(u)') + 1
    <3>1. Occupying(u) \subseteq Tasks
      BY DEF Occupying
    <3> QED  BY <2>1, <2>2, <3>1, SetShrinks
  <2>5. SlotsBalance(u)'
    BY <2>3, <2>4 DEF SlotsBalance
  <2> QED  BY <1>1, <2>2, <2>3, <2>5 DEF CreditsBalance
<1> QED  BY <1>2, <1>3, <1>4, <1>5, <1>6 DEF Effect

LEMMA NobodyHolds ==
  ASSUME NEW u \in Users, Holding(u) = {}, Holding(u)' = {}, stored'[u] = stored[u],
         stored[u] \in Nat, credits'[u] = stored[u]
  PROVE  CreditsBalance(u)'
<1>1. Cost * Cardinality(Holding(u)') = 0
  BY FS_EmptySet, CostSteps
<1> QED  BY <1>1 DEF CreditsBalance, NoBalance

LEMMA RestKeeps ==
  ASSUME Safe, UNCHANGED vars \/ Admin \/ \E u \in Users : Authenticate(u)
  PROVE  Keeps /\ UNCHANGED active
<1>1. UNCHANGED <<status, markers, rpc, cpc, wpc, job, xpc, xjob, active>>
  BY RestFrame DEF Safe, rowVars, markVars, requestVars, workVars, reapVars
<1>2. ASSUME NEW s \in Tasks PROVE Same(s)
  BY <1>1, SameKept DEF RefundDue, SlotDue, Reaped, Cleared
<1> QED  BY <1>1, <1>2 DEF Keeps

LEMMA SoundShrinks ==
  ASSUME Safe, [Next]_vars, NEW u \in Users, Sound(u)'
  PROVE  Sound(u) /\ u \notin rewritten' /\ \A s \in astray' : UserOf[s] # u
<1>1. astray \subseteq astray'
  BY AstrayGrows DEF Safe
<1>2. rewritten \subseteq rewritten'
  <2>1. ASSUME NEW t \in Tasks, RequestActs(t) PROVE rewritten \subseteq rewritten'
    BY <2>1
    DEF RequestActs, Request, Gate, GateLost, HydrateRead, HydrateFill, MarkPending, Persist, Undo,
        Send, Revert, Clear, RevertError, RequestAbort, Fault, Misled, FaultAt, Rewritten, faultVars
  <2>2. ASSUME NEW c \in Cancels, CancelActs(c) PROVE UNCHANGED rewritten
    BY <2>2
    DEF CancelActs, Cancel, CancelRead, CancelTransact, CancelRefund, CancelRevoke, CancelAbort,
        Fault, Misled, FaultAt, faultVars
  <2>3. ASSUME NEW w \in Workers, WorkerActs(w) PROVE UNCHANGED rewritten
    BY <2>3
    DEF WorkerActs, Work, WorkTake, WorkStart, WorkRaise, WorkComplete, WorkFail, WorkGive,
        WorkGiveAgain, WorkCrash, WorkCache, Fault, Misled, FaultAt, faultVars
  <2>4. ASSUME ReaperActs PROVE UNCHANGED rewritten
    BY <2>4
    DEF ReaperActs, Reap, ReapMarker, ReapStuck, ReapRefund, ReapAbort, Old, Fault, Misled, FaultAt,
        faultVars
  <2>5. ASSUME Admin PROVE rewritten \subseteq rewritten'
    BY <2>5 DEF Admin, AdminUpdate, AdminSync, AdminLost, Rewritten, taskVars, faultVars
  <2>6. ASSUME UNCHANGED vars \/ \E v \in Users : Authenticate(v) PROVE UNCHANGED rewritten
    BY <2>6 DEF Authenticate, vars, taskVars, faultVars
  <2> QED  BY <2>1, <2>2, <2>3, <2>4, <2>5, <2>6, WhoActs
<1> QED  BY <1>1, <1>2 DEF Sound

(* A late hydration finds nobody holding, or the user is no longer sound. *)
LEMMA FillBalances ==
  ASSUME Safe, NEW t \in Tasks, HydrateFill(t), Keeps, UNCHANGED adminVars,
         NEW u \in Users, u \notin rewritten', \A s \in astray' : UserOf[s] # u,
         CreditsBalance(u), SlotsBalance(u)
  PROVE  CreditsBalance(u)' /\ SlotsBalance(u)'
<1> USE DEF Safe, TypeOK, BillsTyped, AdminTyped
<1>1. stored' = stored /\ active' = active /\ (Syncing(u)' <=> Syncing(u))
  BY DEF adminVars, Syncing, HydrateFill
<1>2. Holding(u)' = Holding(u) /\ Occupying(u)' = Occupying(u)
  BY KeptSets
<1>3. CASE UserOf[t] # u
  <2>1. credits'[u] = credits[u]
    BY <1>3 DEF HydrateFill
  <2> QED  BY <1>1, <1>2, <2>1, BalancedStays
<1>4. CASE UserOf[t] = u
  <2>1. Holding(u) = {} /\ credits'[u] = stored[u]
    BY <1>4 DEF HydrateFill, Rewritten
  <2>2. CreditsBalance(u)'
    BY <1>1, <1>2, <2>1, NobodyHolds
  <2> QED  BY <1>1, <1>2, <2>2 DEF SlotsBalance
<1> QED  BY <1>3, <1>4

LEMMA AdminBalances ==
  ASSUME Safe, Admin,
         NEW u \in Users, u \notin rewritten', \A s \in astray' : UserOf[s] # u,
         CreditsBalance(u), SlotsBalance(u)
  PROVE  CreditsBalance(u)' /\ SlotsBalance(u)'
<1> USE DEF Safe, TypeOK, BillsTyped, AdminTyped
<1>1. /\ active' = active
      /\ Holding(u)' = Holding(u) /\ Occupying(u)' = Occupying(u)
  BY RestKeeps, KeptSets
<1>2. SlotsBalance(u)'
  BY <1>1 DEF SlotsBalance
<1>3. ASSUME NEW a \in Adjusts, AdminUpdate(a) PROVE CreditsBalance(u)'
  <2>1. /\ credits' = credits /\ syncs' = syncs \cup {<<a, stored'[AdjustUser[a]]>>}
        /\ AdjustUser[a] # u => stored'[u] = stored[u]
    BY <1>3 DEF AdminUpdate, taskVars, billVars
  <2>2. Syncing(u) => Syncing(u)'
    BY <2>1 DEF Syncing
  <2>3. CASE AdjustUser[a] = u
    <3>1. Syncing(u)'
      <4> DEFINE sync == <<a, stored'[AdjustUser[a]]>>
      <4>1. sync \in syncs' /\ AdjustUser[sync[1]] = u
        BY <2>1, <2>3
      <4> HIDE DEF sync
      <4> QED  BY <4>1 DEF Syncing
    <3> QED  BY <3>1 DEF CreditsBalance
  <2>4. CASE AdjustUser[a] # u
    BY <1>1, <2>1, <2>2, <2>4, BalancedStays
  <2> QED  BY <2>3, <2>4
<1>4. ASSUME NEW sync \in syncs, AdminSync(sync[1], sync[2]) \/ AdminLost(sync[1], sync[2])
      PROVE  CreditsBalance(u)'
  <2>1. PICK a \in Adjusts, n \in Nat : sync = <<a, n>>
    OBVIOUS
  <2>2. AdminSync(a, n) \/ AdminLost(a, n)
    BY <1>4, <2>1
  <2>3. stored' = stored /\ \A s \in syncs : s # <<a, n>> => s \in syncs'
    BY <2>2 DEF AdminSync, AdminLost
  <2>4. CASE AdjustUser[a] = u
    <3>1. Holding(u) = {} /\ credits'[u] = stored[u]
      BY <2>2, <2>4 DEF AdminSync, AdminLost, Rewritten
    <3> QED  BY <1>1, <2>3, <3>1, NobodyHolds
  <2>5. CASE AdjustUser[a] # u
    <3>1. credits'[u] = credits[u]
      BY <2>2, <2>5 DEF AdminSync, AdminLost, billVars
    <3>2. Syncing(u) => Syncing(u)'
      <4>1. ASSUME NEW s \in syncs, AdjustUser[s[1]] = u PROVE s \in syncs'
        BY <2>3, <2>5, <4>1
      <4> QED  BY <4>1 DEF Syncing
    <3> QED  BY <1>1, <2>3, <3>1, <3>2, BalancedStays
  <2> QED  BY <2>4, <2>5
<1> QED  BY <1>2, <1>3, <1>4 DEF Admin

LEMMA NextBalanced ==
  ASSUME Safe, Balanced, [Next]_vars
  PROVE  Balanced'
<1> SUFFICES ASSUME NEW u \in Users, Sound(u)'
             PROVE  CreditsBalance(u)' /\ SlotsBalance(u)'
  BY DEF Balanced
<1>1. /\ CreditsBalance(u) /\ SlotsBalance(u)
      /\ u \notin rewritten' /\ \A s \in astray' : UserOf[s] # u
  BY SoundShrinks DEF Balanced
<1>2. ASSUME NEW t \in Tasks, Effect(t), UNCHANGED fixedVars
      PROVE  CreditsBalance(u)' /\ SlotsBalance(u)'
  BY <1>1, <1>2, EffectBalances DEF fixedVars
<1>3. ASSUME NEW t \in Tasks, RequestActs(t), UNCHANGED fixedVars
      PROVE  CreditsBalance(u)' /\ SlotsBalance(u)'
  BY <1>1, <1>2, <1>3, RequestEffect, FillBalances DEF fixedVars
<1>4. ASSUME NEW c \in Cancels, CancelActs(c), UNCHANGED fixedVars
      PROVE  CreditsBalance(u)' /\ SlotsBalance(u)'
  BY <1>2, <1>4, CancelEffect, Constants
<1>5. ASSUME Keeps, UNCHANGED billVars, UNCHANGED fixedVars
      PROVE  CreditsBalance(u)' /\ SlotsBalance(u)'
  <2>1. /\ stored' = stored /\ active' = active /\ credits' = credits
        /\ Syncing(u) => Syncing(u)'
    BY <1>5 DEF billVars, fixedVars, adminVars, Syncing
  <2> QED  BY <1>1, <1>5, <2>1, KeptSets, BalancedStays
<1>6. ASSUME NEW w \in Workers, WorkerActs(w), UNCHANGED fixedVars
      PROVE  CreditsBalance(u)' /\ SlotsBalance(u)'
  BY <1>2, <1>5, <1>6, WorkerEffect
<1>7. ASSUME ReaperActs, UNCHANGED fixedVars
      PROVE  CreditsBalance(u)' /\ SlotsBalance(u)'
  BY <1>2, <1>7, ReaperEffect
<1>8. ASSUME NEW v \in Users, Authenticate(v), UNCHANGED fixedVars
      PROVE  CreditsBalance(u)' /\ SlotsBalance(u)'
  <2>1. /\ stored' = stored /\ active' = active
        /\ Syncing(u) => Syncing(u)'
        /\ v # u => credits'[u] = credits[u]
        /\ stored[u] \in Nat
    BY <1>8 DEF Authenticate, fixedVars, adminVars, Syncing, Safe, TypeOK, AdminTyped, BillsTyped
  <2>2. Holding(u)' = Holding(u) /\ Occupying(u)' = Occupying(u)
    BY <1>1, <1>8, RestKeeps, KeptSets
  <2>3. CASE v # u
    BY <1>1, <2>1, <2>2, <2>3, BalancedStays
  <2>4. CASE v = u
    <3>1. credits[u] = NoBalance /\ credits'[u] = stored[u]
      BY <1>8, <2>4 DEF Authenticate, Safe, TypeOK, BillsTyped
    <3>2. SlotsBalance(u)'
      BY <1>1, <2>1, <2>2 DEF SlotsBalance
    <3>3. ASSUME Syncing(u) PROVE CreditsBalance(u)'
      BY <2>1, <3>3 DEF CreditsBalance
    <3>4. ASSUME Holding(u) = {} PROVE CreditsBalance(u)'
      BY <2>1, <2>2, <3>1, <3>4, NobodyHolds
    <3> QED  BY <1>1, <3>1, <3>2, <3>3, <3>4 DEF CreditsBalance
  <2> QED  BY <2>3, <2>4
<1>9. ASSUME UNCHANGED vars PROVE CreditsBalance(u)' /\ SlotsBalance(u)'
  BY <1>5, <1>9, RestKeeps DEF vars, taskVars, fixedVars
<1>10. ASSUME Admin PROVE CreditsBalance(u)' /\ SlotsBalance(u)'
  BY <1>1, <1>10, AdminBalances
<1> QED  BY <1>3, <1>4, <1>6, <1>7, <1>8, <1>9, <1>10, WhoActs

LEMMA InitBalanced ==
  ASSUME Init
  PROVE  Balanced
<1> SUFFICES ASSUME NEW u \in Users PROVE CreditsBalance(u) /\ SlotsBalance(u)
  BY DEF Balanced
<1>1. \A t \in Tasks : ~Holds(t) /\ ~Occupies(t)
  BY DEF Init, Holds, Occupies, RefundDue, SlotDue, Open
<1>2. Holding(u) = {} /\ Occupying(u) = {}
  BY <1>1 DEF Holding, Occupying
<1>3. credits[u] = NoBalance /\ active[u] = 0
  BY DEF Init
<1> QED  BY <1>2, <1>3, FS_EmptySet DEF CreditsBalance, SlotsBalance

-----------------------------------------------------------------------------
(* Theorems *)

LEMMA AlwaysSafe == Init /\ [][Next]_vars => [](Safe /\ Balanced)
<1>1. Init => Safe /\ Balanced
  BY InitSafe, InitBalanced
<1>2. Safe /\ Balanced /\ [Next]_vars => Safe' /\ Balanced'
  BY NextSafe, NextBalanced
<1> QED  BY <1>1, <1>2, PTL

LEMMA BooksFollow ==
  ASSUME Safe, Balanced
  PROVE  BooksBalance
<1>1. ASSUME NEW u \in Users, Sound(u)
      PROVE  /\ \/ credits[u] \in {NoBalance, stored[u] - Cost * Cardinality(Holding(u))}
                \/ \E sync \in syncs : AdjustUser[sync[1]] = u
             /\ active[u] = Cardinality(Occupying(u))
  BY <1>1 DEF Balanced, CreditsBalance, SlotsBalance, Syncing
<1>2. ASSUME NEW t \in Tasks \ astray, rpc[t] # "revertLedger"
      PROVE  ledger[t] = IF status[t] \in Open \cup {"COMPLETED"} THEN -Cost ELSE 0
  BY <1>2 DEF Safe, Sane, LedgerSane
<1> QED  BY <1>1, <1>2 DEF BooksBalance

(* Everything has the type the code gives it: balances, counters and prices   *)
(* are never negative, and whoever is at work has a task to work on.          *)
THEOREM TypeCorrect == Spec => []TypeOK
<1>1. Safe => TypeOK
  BY DEF Safe
<1> QED  BY <1>1, AlwaysSafe, PTL DEF Spec

(* Whatever the order in which request, cancel, workers and reaper come to a  *)
(* task, its credits and its slot are taken once and given back once, and the *)
(* ledger has charged whom the balance has.                                   *)
THEOREM BooksAlwaysBalance == Spec => []BooksBalance
<1>1. Safe /\ Balanced => BooksBalance
  BY BooksFollow
<1> QED  BY <1>1, AlwaysSafe, PTL DEF Spec

LEMMA ReadsStep == [ReadNext]_allVars => [Next]_vars
<1>1. ASSUME NEW w \in Workers, CacheOutcome(w) PROVE Next
  BY <1>1 DEF CacheOutcome, Next, fixedVars
<1>2. ASSUME NEW t \in Tasks, Age(t) \/ ReapAged(t) \/ ShownExpires(t) \/ PollShown(t)
                              \/ PollRow(t) \/ PollExpire(t)
      PROVE  UNCHANGED vars
  BY <1>2 DEF Age, ReapAged, ShownExpires, PollShown, PollRow, PollExpire
<1> QED  BY <1>1, <1>2 DEF ReadNext, Next, allVars, fixedVars

(* The same holds while clients poll and outcomes are shown and expire, which *)
(* is the specification the runs check.                                       *)
THEOREM BooksBalanceWhenRead == ReadSpec => []BooksBalance
<1>1. Safe /\ Balanced => BooksBalance
  BY BooksFollow
<1>2. [ReadNext]_allVars => [Next]_vars
  BY ReadsStep
<1>3. ReadInit => Init
  BY DEF ReadInit
<1> QED  BY <1>1, <1>2, <1>3, AlwaysSafe, PTL DEF ReadSpec

-----------------------------------------------------------------------------
(* What clients see: the hash and the polls follow the row *)

ShowSteps == GiveSteps \cup {"cacheFailed"}

ReadTyped ==
  /\ shown \in [Tasks -> Outcomes \cup {"none"}]
  /\ aged \subseteq Tasks /\ expired \subseteq aged
  /\ poll \in [Tasks -> {"idle", "row", "expire"}]
  /\ told \in [Tasks -> Statuses \cup {"EXPIRED"}]

ShownTrue == \A t \in Tasks : shown[t] # "none" => status[t] = shown[t]

ToldTrue ==
  \A t \in Tasks :
    /\ told[t] \in Outcomes => status[t] = told[t]
    /\ told[t] = "EXPIRED" => t \in expired /\ shown[t] = "none"

(* Nobody is to show an outcome that is a day old. *)
Quiet(t) == \A w \in Workers : job[w][1] = t => wpc[w] \notin ShowSteps

AgedOver ==
  /\ \A t \in aged :
       status[t] \in Outcomes /\ Quiet(t) /\ (poll[t] # "idle" => shown[t] = "none")
  /\ \A t \in Tasks : poll[t] = "expire" => t \in aged

ReadSafe == ReadTyped /\ ShownTrue /\ ToldTrue /\ AgedOver

LEMMA QuietStays ==
  ASSUME Safe, [Next]_vars, NEW t \in Tasks, status[t] \in Outcomes, Quiet(t)
  PROVE  Quiet(t)'
<1> USE DEF Safe, TypeOK, WorkersTyped, RowsTyped
<1> SUFFICES ASSUME NEW w \in Workers, job'[w][1] = t PROVE wpc'[w] \notin ShowSteps
  BY DEF Quiet
<1>1. CASE WorkerActs(w)
  <2>1. CASE \E m \in queue : WorkTake(w, m)
    BY <2>1 DEF WorkTake, ShowSteps, GiveSteps
  <2>2. CASE job[w][1] = t /\ ~\E m \in queue : WorkTake(w, m)
    <3>1. wpc[w] \notin ShowSteps
      BY <2>2 DEF Quiet
    <3>2. status[t] \notin Open
      BY DEF Open, Outcomes
    <3> QED
      BY <1>1, <2>2, <3>1, <3>2
      DEF WorkerActs, Work, WorkStart, WorkRaise, Retry, WorkComplete, WorkFail, WorkGive,
          WorkGiveAgain, WorkCrash, WorkCache, EndWithRefund, SetStatus, GoWork, Leave, workVars,
          ShowSteps, GiveSteps, Open
  <2>3. wpc'[w] = "idle" \/ wpc'[w] = "start" \/ job[w][1] = t
    BY <1>1, WorkerFrame
  <2> QED  BY <2>1, <2>2, <2>3 DEF ShowSteps, GiveSteps
<1>2. CASE ~WorkerActs(w)
  <2>1. wpc'[w] = "idle" \/ (wpc'[w] = wpc[w] /\ job'[w] = job[w])
    BY <1>2, WhoActs, RequestFrame, CancelFrame, WorkerFrame, ReaperFrame, RestFrame DEF workVars
  <2> QED  BY <2>1 DEF Quiet, ShowSteps, GiveSteps
<1> QED  BY <1>1, <1>2

(* A worker shows what the row says, of a task that is not a day old. *)
LEMMA ShowsTruth ==
  ASSUME Safe, AgedOver, NEW w \in Workers, CacheOutcome(w)
  PROVE  \E t \in Tasks \ aged :
           /\ job[w][1] = t /\ status'[t] = status[t]
           /\ \/ UNCHANGED shown
              \/ \E st \in {"COMPLETED", "FAILED"} :
                   status[t] = st /\ shown' = [shown EXCEPT ![t] = st]
<1> USE DEF Safe, TypeOK, WorkersTyped, RowsTyped
<1>1. wpc[w] \in {"cache", "cacheFailed"} /\ UNCHANGED rowVars
  BY DEF CacheOutcome, WorkCache
<1>2. PICK t \in Tasks, n \in Nat : job[w] = <<t, n>>
  BY <1>1
<1>3. job[w][1] = t
  BY <1>2
<1>4. t \notin aged
  BY <1>1, <1>3 DEF AgedOver, Quiet, ShowSteps, GiveSteps
<1>5. /\ wpc[w] = "cache" => status[t] = "COMPLETED"
      /\ wpc[w] = "cacheFailed" => status[t] = "FAILED"
  BY <1>3 DEF WorkersKnow
<1>6. \/ UNCHANGED shown
      \/ shown' = [shown EXCEPT ![t] = IF wpc[w] = "cache" THEN "COMPLETED" ELSE "FAILED"]
  BY <1>3 DEF CacheOutcome
<1> QED  BY <1>1, <1>3, <1>4, <1>5, <1>6 DEF rowVars

LEMMA InitReadSafe ==
  ASSUME ReadInit
  PROVE  ReadSafe
BY DEF ReadInit, ReadSafe, ReadTyped, ShownTrue, ToldTrue, AgedOver, Outcomes, Statuses

LEMMA NextReadSafe ==
  ASSUME Safe, ReadSafe, [ReadNext]_allVars
  PROVE  ReadSafe'
<1> USE DEF ReadSafe
<1>1. [Next]_vars
  BY ReadsStep
<1>2. \A t \in Tasks : StatusGoes(t)
  BY <1>1, NextGoes DEF Safe
<1>3. \A t \in aged : Quiet(t)'
  BY <1>1, QuietStays DEF AgedOver, ReadTyped
<1>4. ASSUME UNCHANGED readVars PROVE ReadSafe'
  <2>1. ReadTyped'
    BY <1>4 DEF readVars, ageVars, pollVars, ReadTyped
  <2>2. ShownTrue' /\ ToldTrue'
    BY <1>2, <1>4 DEF readVars, ageVars, pollVars, ReadTyped, ShownTrue, ToldTrue, StatusGoes
  <2>3. AgedOver'
    BY <1>2, <1>3, <1>4 DEF readVars, ageVars, pollVars, ReadTyped, AgedOver, StatusGoes
  <2> QED  BY <2>1, <2>2, <2>3
<1>5. ASSUME NEW w \in Workers, CacheOutcome(w) PROVE ReadSafe'
  <2>1. PICK t \in Tasks \ aged :
          /\ status'[t] = status[t]
          /\ \/ UNCHANGED shown
             \/ \E st \in {"COMPLETED", "FAILED"} :
                  status[t] = st /\ shown' = [shown EXCEPT ![t] = st]
    BY <1>5, ShowsTruth
  <2>2. UNCHANGED <<aged, expired, poll, told>>
    BY <1>5 DEF CacheOutcome, ageVars, pollVars
  <2>3. ReadTyped'
    BY <2>1, <2>2 DEF ReadTyped, Outcomes
  <2>4. \A s \in aged : shown'[s] = shown[s]
    BY <2>1 DEF ReadTyped
  <2>5. ShownTrue'
    BY <1>2, <2>1 DEF ReadTyped, ShownTrue, StatusGoes
  <2>6. ToldTrue'
    BY <1>2, <2>2, <2>4 DEF ReadTyped, ToldTrue, StatusGoes
  <2>7. AgedOver'
    BY <1>2, <1>3, <2>2, <2>4 DEF ReadTyped, AgedOver, StatusGoes
  <2> QED  BY <2>3, <2>5, <2>6, <2>7
<1>6. ASSUME NEW t \in Tasks,
             Age(t) \/ ReapAged(t) \/ ShownExpires(t) \/ PollShown(t) \/ PollRow(t) \/ PollExpire(t)
      PROVE  ReadSafe'
  <2>1. UNCHANGED <<status, wpc, job>>
    BY <1>6 DEF Age, ReapAged, ShownExpires, PollShown, PollRow, PollExpire, vars, taskVars, rowVars,
                workVars
  <2>2. \A s \in Tasks : (Quiet(s)' <=> Quiet(s))
    BY <2>1 DEF Quiet
  <2>3. Age(t) => Quiet(t)
    BY DEF Age, Busy, Quiet
  <2>4. ReadTyped'
    BY <1>6 DEF Age, ReapAged, ShownExpires, PollShown, PollRow, PollExpire, Expire, LookAt, Tell,
                RowStatus, ageVars, pollVars, ReadTyped, AgedOver, Statuses, Outcomes, Safe, TypeOK,
                RowsTyped
  <2>5. ShownTrue'
    BY <1>6, <2>1 DEF Age, ReapAged, ShownExpires, PollShown, PollRow, PollExpire, ReadTyped, ShownTrue
  <2>6. ToldTrue'
    <3>1. /\ expired \subseteq expired'
          /\ \A s \in Tasks : shown'[s] = shown[s] \/ shown'[s] = "none"
      BY <1>6
      DEF Age, ReapAged, ShownExpires, PollShown, PollRow, PollExpire, Expire, ageVars, ReadTyped
    <3>2. CASE UNCHANGED told
      BY <2>1, <3>1, <3>2 DEF ToldTrue
    <3>3. ASSUME NEW st, Tell(t, st),
                 st \in Outcomes => st = status[t],
                 st = "EXPIRED" => t \in expired' /\ shown'[t] = "none"
          PROVE  ToldTrue'
      BY <2>1, <3>1, <3>3 DEF Tell, ToldTrue, ReadTyped
    <3>4. CASE Tell(t, shown[t]) /\ shown[t] # "none"
      BY <3>3, <3>4 DEF ShownTrue, ReadTyped, Outcomes
    <3>5. CASE PollRow(t) /\ Tell(t, RowStatus(t))
      <4>1. UNCHANGED shown /\ (t \in expired => shown[t] = "none")
        BY <3>5 DEF PollRow, AgedOver, ReadTyped
      <4> QED  BY <3>1, <3>3, <3>5, <4>1 DEF RowStatus, Outcomes, Safe, TypeOK, RowsTyped, Statuses, Open
    <3>6. CASE PollExpire(t)
      <4>1. UNCHANGED shown /\ shown[t] = "none" /\ t \in expired' /\ Tell(t, "EXPIRED")
        BY <3>6 DEF PollExpire, Expire, AgedOver
      <4> QED  BY <3>3, <4>1 DEF Outcomes
    <3> QED
      BY <1>6, <3>2, <3>4, <3>5, <3>6
      DEF Age, ReapAged, ShownExpires, PollShown, PollRow, LookAt, pollVars
  <2>7. AgedOver'
    BY <1>6, <2>1, <2>2, <2>3
    DEF Age, Busy, ReapAged, ShownExpires, PollShown, PollRow, PollExpire, Expire, LookAt, Tell,
        ageVars, pollVars, ReadTyped, AgedOver
  <2> QED  BY <2>4, <2>5, <2>6, <2>7
<1> QED  BY <1>4, <1>5, <1>6 DEF ReadNext, allVars

KeepsOutcome(t) ==
  /\ told'[t] \in Outcomes => told'[t] = status[t]
  /\ told[t] \in Outcomes \cup {"EXPIRED"} => told'[t] \in {told[t], "EXPIRED"}

LEMMA StepKeepsOutcome ==
  ASSUME Safe, ReadSafe, [ReadNext]_allVars
  PROVE  \A t \in Tasks : KeepsOutcome(t)
<1> USE DEF ReadSafe
<1>1. ASSUME UNCHANGED told PROVE \A t \in Tasks : KeepsOutcome(t)
  BY <1>1 DEF ToldTrue, KeepsOutcome
<1>2. ASSUME NEW s \in Tasks, NEW st, Tell(s, st),
             st \in Outcomes => st = status[s],
             told[s] \in Outcomes => st \in {status[s], "EXPIRED"},
             told[s] = "EXPIRED" => st = "EXPIRED"
      PROVE  \A t \in Tasks : KeepsOutcome(t)
  BY <1>2 DEF Tell, ReadTyped, ToldTrue, KeepsOutcome
<1>3. ASSUME NEW s \in Tasks, PollShown(s) \/ PollRow(s) \/ PollExpire(s)
      PROVE  \A t \in Tasks : KeepsOutcome(t)
  <2>1. CASE Tell(s, shown[s]) /\ shown[s] # "none"
    BY <1>2, <2>1 DEF ShownTrue, ToldTrue
  <2>2. CASE Tell(s, RowStatus(s))
    BY <1>2, <2>2 DEF RowStatus, ToldTrue, Outcomes
  <2>3. CASE Tell(s, "EXPIRED")
    BY <1>2, <2>3 DEF Outcomes
  <2>4. CASE UNCHANGED told
    BY <1>1, <2>4
  <2> QED  BY <1>3, <2>1, <2>2, <2>3, <2>4 DEF PollShown, PollRow, PollExpire, LookAt
<1>4. \/ UNCHANGED told
      \/ \E s \in Tasks : PollShown(s) \/ PollRow(s) \/ PollExpire(s)
  BY DEF ReadNext, allVars, readVars, pollVars, CacheOutcome, Age, ReapAged, ShownExpires
<1> QED  BY <1>1, <1>3, <1>4

(* A poll tells an outcome only of a task that has it, and never another one  *)
(* later: who shows an outcome has ended the task with it, and once a day has *)
(* passed nobody is left to show it again.                                    *)
THEOREM PollsAlwaysKeepOutcome == ReadSpec => PollsKeepOutcome
<1>1. Init /\ ReadInit => Safe /\ ReadSafe
  BY InitSafe, InitReadSafe
<1>2. Safe /\ ReadSafe /\ [ReadNext]_allVars => Safe' /\ ReadSafe'
  BY ReadsStep, NextSafe, NextReadSafe
<1>3. Safe /\ ReadSafe /\ [ReadNext]_allVars =>
        [\A t \in Tasks :
           /\ told'[t] \in Outcomes => told'[t] = status[t]
           /\ told[t] \in Outcomes \cup {"EXPIRED"} => told'[t] \in {told[t], "EXPIRED"}]_allVars
  BY StepKeepsOutcome DEF KeepsOutcome
<1>4. ReadInit => Init
  BY DEF ReadInit
<1> QED  BY <1>1, <1>2, <1>3, <1>4, PTL DEF ReadSpec, PollsKeepOutcome
=============================================================================

------------------------- MODULE StreamServiceProofs --------------------------
(***************************************************************************)
(* Proofs about Solution 1 as it is deployed, for any users, tasks,        *)
(* workers, dispatchers, tokens, keys and failures.                        *)
(*                                                                         *)
(* Callbacks, tokens and keys leave the tasks alone, so StreamService      *)
(* implements StreamTask.  The event of a task is in one place: still to   *)
(* be announced, in the queue, on the schedule, in the hands of a          *)
(* dispatcher, a dead letter, in the hands of the operator's script, or    *)
(* confirmed by the receiver (OneKind, and Single... within a kind of      *)
(* place); every step takes an event out of one place and puts it into one *)
(* other, if any.  It tells the task's outcome in each of them (Good).     *)
(*                                                                         *)
(* A client of the key set only holds keys published or withdrawn after it *)
(* was made, and a verification uses a client that was young when it began *)
(* (KeySafe).  A revocation that Redis has not missed is in a bucket that  *)
(* outlives the token and that is looked up on the last day of its life    *)
(* (TokenSafe).                                                            *)
(***************************************************************************)
EXTENDS StreamService, StreamTaskProofs

-----------------------------------------------------------------------------
(* Callbacks, tokens and keys only watch the tasks *)

hookAllVars == <<vars, hookVars>>

LEMMA HookStep ==
  ASSUME [HookNext]_hookAllVars
  PROVE  [Next]_vars
<1>1. CASE \E w \in Workers : WorkerAnnounces(w)
  BY <1>1 DEF WorkerAnnounces, Next, Work
<1>2. CASE \E c \in Cancels : CancelAnnounces(c)
  BY <1>2 DEF CancelAnnounces, Next
<1> QED  BY <1>1, <1>2 DEF HookNext, hookAllVars

LEMMA ServiceStep ==
  ASSUME [ServiceNext]_<<taskHookVars, tokenVars, keyVars>>
  PROVE  [HookNext]_hookAllVars
BY DEF ServiceNext, taskHookVars, hookAllVars

LEMMA HookImplementsTask == HookSpec => Spec
<1>1. HookInit => Init
  BY DEF HookInit
<1> QED  BY <1>1, HookStep, PTL DEF HookSpec, Spec, hookAllVars

LEMMA ServiceImplementsHooks == ServiceSpec => HookSpec
<1>1. ServiceInit => HookInit
  BY DEF ServiceInit
<1> QED  BY <1>1, ServiceStep, PTL DEF ServiceSpec, HookSpec, hookAllVars

(* The service does with tasks and credits what StreamTask does: whatever is *)
(* proved of Spec holds with callbacks, tokens and keys beside it.           *)
THEOREM ServiceImplementsTasks == ServiceSpec => Spec
BY ServiceImplementsHooks, HookImplementsTask

-----------------------------------------------------------------------------
(* The places of an event *)

EventRecords == [task : Tasks, status : Terminal, attempt : Nat]

Good(e) == e \in EventRecords /\ status[e.task] \in {e.status, "EXPIRED"}

(* Every event, and whatever a receiver was told, is true; a dispatcher's    *)
(* hands are full from its ZREM or BLPOP to the end of the hand-over.        *)
EventsGood ==
  /\ queue \in Seq(EventRecords) /\ \A i \in 1 .. Len(queue) : Good(queue[i])
  /\ \A e \in later \cup dlq : Good(e)
  /\ dpc \in [Dispatchers -> {"idle", "promote", "push", "look", "send"}]
  /\ held \in [Dispatchers -> EventRecords \cup {NoEvent}]
  /\ \A d \in Dispatchers : /\ held[d] # NoEvent => Good(held[d])
                            /\ held[d] # NoEvent <=> dpc[d] \in {"push", "look", "send"}
  /\ replayed # NoEvent => Good(replayed)
  /\ heard \in [Tasks -> Nat] /\ outcomes \in [Tasks -> SUBSET Terminal]
  /\ \A t \in Tasks : /\ \A st \in outcomes[t] : status[t] \in {st, "EXPIRED"}
                      /\ heard[t] > 0 => status[t] \in Terminal \cup {"EXPIRED"}

WorkTells(w, t) ==
  job[w] = t /\ wpc[w] \in {"refund", "release", "published", "finished", "failed"}
CancelTells(c, t) == CancelOf[c] = t /\ cpc[c] \in {"refund", "release", "cache"}

Telling(t) == (\E w \in Workers : WorkTells(w, t)) \/ \E c \in Cancels : CancelTells(c, t)
Queued(t) == \E i \in 1 .. Len(queue) : queue[i].task = t
Scheduled(t) == \E e \in later : e.task = t
Held(t) == \E d \in Dispatchers : held[d] # NoEvent /\ held[d].task = t
Dead(t) == \E e \in dlq : e.task = t
Replayed(t) == replayed # NoEvent /\ replayed.task = t
Heard(t) == heard[t] > 0

Kinds == {"telling", "queue", "later", "held", "dlq", "replayed", "heard"}
In(k, t) ==
  \/ k = "telling" /\ Telling(t)
  \/ k = "queue" /\ Queued(t)
  \/ k = "later" /\ Scheduled(t)
  \/ k = "held" /\ Held(t)
  \/ k = "dlq" /\ Dead(t)
  \/ k = "replayed" /\ Replayed(t)
  \/ k = "heard" /\ Heard(t)

OneKind == \A t \in Tasks, k, l \in Kinds : In(k, t) /\ In(l, t) => k = l

SingleTells ==
  \A t \in Tasks :
    /\ \A c, d \in Cancels : CancelTells(c, t) /\ CancelTells(d, t) => c = d
    /\ \A v, w \in Workers : WorkTells(v, t) /\ WorkTells(w, t) => v = w
    /\ \A c \in Cancels, w \in Workers : ~(CancelTells(c, t) /\ WorkTells(w, t))
SingleQueue == \A i, j \in 1 .. Len(queue) : queue[i].task = queue[j].task => i = j
SingleLater == \A e, f \in later : e.task = f.task => e = f
SingleHeld ==
  \A d, x \in Dispatchers :
    held[d] # NoEvent /\ held[x] # NoEvent /\ held[d].task = held[x].task => d = x
SingleDlq == \A e, f \in dlq : e.task = f.task => e = f
SingleHeard == \A t \in Tasks : heard[t] <= 1

Singles == SingleTells /\ SingleQueue /\ SingleLater /\ SingleHeld /\ SingleDlq /\ SingleHeard

HookSafe == EventsGood /\ OneKind /\ Singles

LEMMA InitHookSafe == HookInit => HookSafe
<1> SUFFICES ASSUME HookInit PROVE HookSafe
  OBVIOUS
<1> USE DEF HookInit, Init
<1>1. EventsGood
  BY DEF EventsGood
<1>2. OneKind
  BY DEF OneKind, In, Telling, Queued, Scheduled, Held, Dead, Replayed, Heard, WorkTells, CancelTells
<1>3. Singles
  BY DEF Singles, SingleTells, SingleQueue, SingleLater, SingleHeld, SingleDlq, SingleHeard,
         WorkTells, CancelTells
<1> QED  BY <1>1, <1>2, <1>3 DEF HookSafe

LEMMA EventFacts ==
  /\ \A e \in EventRecords : e # NoEvent /\ e.task \in Tasks /\ e.status \in Terminal /\ e.attempt \in Nat
  /\ \A e : Good(e) => e \in EventRecords
BY CallbackConstantsOK DEF CallbackConstantsOK, EventRecords, Good

(* A task that has not ended has no event, and no one is to announce one.    *)
LEMMA OverFirst ==
  ASSUME Safe, EventsGood, NEW t \in Tasks, NEW k \in Kinds, In(k, t)
  PROVE  status[t] \in Terminal \cup {"EXPIRED"}
<1>1. CASE Telling(t)
  BY <1>1 DEF Telling, WorkTells, CancelTells, Safe, WorkersKnow, CancelsKnow, Terminal
<1>2. CASE \E e : Good(e) /\ e.task = t
  BY <1>2, EventFacts DEF Good
<1>3. CASE Queued(t) \/ Scheduled(t) \/ Held(t) \/ Dead(t) \/ Replayed(t)
  BY <1>2, <1>3 DEF EventsGood, Queued, Scheduled, Held, Dead, Replayed
<1>4. CASE Heard(t)
  BY <1>4 DEF EventsGood, Heard
<1> QED  BY <1>1, <1>3, <1>4 DEF In

LEMMA Stays ==
  /\ UNCHANGED <<cpc, workVars>> => SingleTells' = SingleTells /\ \A t : Telling(t)' = Telling(t)
  /\ UNCHANGED queue => SingleQueue' = SingleQueue /\ \A t : Queued(t)' = Queued(t)
  /\ UNCHANGED later => SingleLater' = SingleLater /\ \A t : Scheduled(t)' = Scheduled(t)
  /\ UNCHANGED held => SingleHeld' = SingleHeld /\ \A t : Held(t)' = Held(t)
  /\ UNCHANGED dlq => SingleDlq' = SingleDlq /\ \A t : Dead(t)' = Dead(t)
  /\ UNCHANGED replayed => \A t : Replayed(t)' = Replayed(t)
  /\ UNCHANGED heard => SingleHeard' = SingleHeard /\ \A t : Heard(t)' = Heard(t)
BY DEF workVars, SingleTells, Telling, WorkTells, CancelTells, SingleQueue, Queued, SingleLater,
       Scheduled, SingleHeld, Held, SingleDlq, Dead, Replayed, SingleHeard, Heard

(* A step that takes a task's event from one kind of place into another.     *)
LEMMA KindsMove ==
  ASSUME OneKind, NEW s \in Tasks, NEW from \in Kinds, NEW into \in Kinds,
         In(from, s), ~In(from, s)' \/ from = into,
         \A t \in Tasks, k \in Kinds : In(k, t)' => In(k, t) \/ (t = s /\ k = into)
  PROVE  OneKind'
BY DEF OneKind

LEMMA KindsDrop ==
  ASSUME OneKind, \A t \in Tasks, k \in Kinds : In(k, t)' => In(k, t)
  PROVE  OneKind'
BY DEF OneKind

-----------------------------------------------------------------------------
(* How each kind of place changes *)

LEMMA QueueTail ==
  ASSUME EventsGood, SingleQueue, queue # <<>>, queue' = Tail(queue)
  PROVE  /\ queue' \in Seq(EventRecords) /\ SingleQueue'
         /\ \A i \in 1 .. Len(queue') : \E j \in 1 .. Len(queue) : queue'[i] = queue[j]
         /\ Good(Head(queue)) /\ Queued(Head(queue).task)
         /\ \A t : Queued(t)' => Queued(t) /\ t # Head(queue).task
<1>1. queue \in Seq(EventRecords) /\ Len(queue) \in Nat \ {0} /\ Head(queue) = queue[1]
  BY DEF EventsGood
<1>2. /\ queue' \in Seq(EventRecords) /\ Len(queue') = Len(queue) - 1
      /\ \A i \in 1 .. Len(queue) - 1 : queue'[i] = queue[i + 1]
  BY <1>1
<1>3. \A i \in 1 .. Len(queue') : i + 1 \in 1 .. Len(queue) /\ i + 1 # 1 /\ queue'[i] = queue[i + 1]
  BY <1>1, <1>2
<1>4. SingleQueue'
  <2>1. ASSUME NEW i \in 1 .. Len(queue'), NEW j \in 1 .. Len(queue'), queue'[i].task = queue'[j].task
        PROVE  i = j
    <3>1. i + 1 = j + 1
      BY <1>3, <2>1 DEF SingleQueue
    <3> QED  BY <3>1
  <2> QED  BY <2>1 DEF SingleQueue
<1>5. 1 \in 1 .. Len(queue) /\ Good(queue[1])
  BY <1>1 DEF EventsGood
<1>6. \A t : Queued(t)' => t # queue[1].task
  BY <1>1, <1>3, <1>5 DEF Queued, SingleQueue
<1>7. \A t : Queued(t)' => Queued(t)
  BY <1>3 DEF Queued
<1> QED  BY <1>1, <1>2, <1>3, <1>4, <1>5, <1>6, <1>7 DEF Queued

LEMMA QueueGrows ==
  ASSUME EventsGood, SingleQueue, NEW e \in EventRecords, ~Queued(e.task),
         queue' = Append(queue, e) \/ queue' = <<e>> \o queue
  PROVE  /\ queue' \in Seq(EventRecords) /\ SingleQueue'
         /\ \A i \in 1 .. Len(queue') : queue'[i] = e \/ \E j \in 1 .. Len(queue) : queue'[i] = queue[j]
         /\ \A t : Queued(t)' => Queued(t) \/ t = e.task
<1>1. queue \in Seq(EventRecords) /\ Len(queue) \in Nat
  BY DEF EventsGood
<1>2. CASE queue' = Append(queue, e)
  <2>1. /\ queue' \in Seq(EventRecords) /\ Len(queue') = Len(queue) + 1
        /\ queue'[Len(queue) + 1] = e
        /\ \A i \in 1 .. Len(queue) : queue'[i] = queue[i]
    BY <1>1, <1>2
  <2>2. \A i \in 1 .. Len(queue') :
          \/ i = Len(queue) + 1 /\ queue'[i] = e
          \/ i \in 1 .. Len(queue) /\ queue'[i] = queue[i]
    BY <1>1, <2>1
  <2>3. SingleQueue'
    BY <2>2 DEF SingleQueue, Queued
  <2> QED  BY <2>1, <2>2, <2>3 DEF Queued
<1>3. CASE queue' = <<e>> \o queue
  <2>1. <<e>> \in Seq(EventRecords) /\ Len(<<e>>) = 1 /\ <<e>>[1] = e
    OBVIOUS
  <2>2. /\ queue' \in Seq(EventRecords) /\ Len(queue') = Len(queue) + 1 /\ queue'[1] = e
        /\ \A i \in 2 .. Len(queue) + 1 : queue'[i] = queue[i - 1]
    BY <1>1, <1>3, <2>1
  <2>3. \A i \in 1 .. Len(queue') :
          \/ i = 1 /\ queue'[i] = e
          \/ i - 1 \in 1 .. Len(queue) /\ queue'[i] = queue[i - 1]
    BY <1>1, <2>2
  <2>4. SingleQueue'
    <3>1. ASSUME NEW i \in 1 .. Len(queue'), NEW j \in 1 .. Len(queue'), queue'[i].task = queue'[j].task
          PROVE  i = j
      <4>1. \A k \in 1 .. Len(queue') : k # 1 => queue'[k].task # e.task
        BY <2>3 DEF Queued
      <4>2. i = 1 <=> j = 1
        BY <2>2, <3>1, <4>1
      <4>3. i # 1 /\ j # 1 => i - 1 = j - 1
        BY <2>3, <3>1 DEF SingleQueue
      <4> QED  BY <2>2, <4>2, <4>3
    <3> QED  BY <3>1 DEF SingleQueue
  <2> QED  BY <2>2, <2>3, <2>4 DEF Queued
<1> QED  BY <1>2, <1>3

LEMMA HandTakes ==
  ASSUME EventsGood, SingleHeld, NEW d \in Dispatchers, held[d] = NoEvent,
         NEW e \in EventRecords, ~Held(e.task), held' = [held EXCEPT ![d] = e]
  PROVE  SingleHeld' /\ \A t : Held(t)' => Held(t) \/ t = e.task
<1>1. held'[d] = e /\ \A x \in Dispatchers \ {d} : held'[x] = held[x]
  BY DEF EventsGood
<1>2. \A t : Held(t)' => Held(t) \/ t = e.task
  BY <1>1 DEF Held
<1>3. SingleHeld'
  BY <1>1 DEF SingleHeld, Held
<1> QED  BY <1>2, <1>3

LEMMA HandGives ==
  ASSUME EventsGood, SingleHeld, NEW d \in Dispatchers, held[d] # NoEvent,
         held' = [held EXCEPT ![d] = NoEvent]
  PROVE  /\ SingleHeld' /\ \A t : Held(t)' => Held(t) /\ t # held[d].task
         /\ Good(held[d]) /\ Held(held[d].task)
<1>1. held'[d] = NoEvent /\ \A x \in Dispatchers \ {d} : held'[x] = held[x]
  BY DEF EventsGood
<1>2. \A t : Held(t)' => Held(t)
  BY <1>1 DEF Held
<1>3. SingleHeld' /\ \A t : Held(t)' => t # held[d].task
  BY <1>1 DEF SingleHeld, Held
<1>4. Good(held[d]) /\ Held(held[d].task)
  BY DEF EventsGood, Held
<1> QED  BY <1>2, <1>3, <1>4

LEMMA SetsMove ==
  /\ \A e : /\ SingleLater /\ later' = later \cup {e} /\ ~Scheduled(e.task)
               => SingleLater' /\ \A t : Scheduled(t)' => Scheduled(t) \/ t = e.task
            /\ SingleLater /\ later' = later \ {e}
               => SingleLater' /\ \A t : Scheduled(t)' => Scheduled(t)
            /\ SingleLater /\ later' = later \ {e} /\ e \in later
               => Scheduled(e.task) /\ ~Scheduled(e.task)'
            /\ SingleDlq /\ dlq' = dlq \cup {e} /\ ~Dead(e.task)
               => SingleDlq' /\ \A t : Dead(t)' => Dead(t) \/ t = e.task
            /\ SingleDlq /\ dlq' = dlq \ {e} /\ e \in dlq
               => SingleDlq' /\ (\A t : Dead(t)' => Dead(t)) /\ Dead(e.task) /\ ~Dead(e.task)'
BY DEF SingleLater, Scheduled, SingleDlq, Dead

-----------------------------------------------------------------------------
(* The steps of the tasks *)

LEMMA GoodStays ==
  ASSUME Safe, RowsMove
  PROVE  /\ \A e : Good(e) => Good(e)'
         /\ \A t \in Tasks : /\ \A st \in Terminal : status[t] \in {st, "EXPIRED"}
                                                     => status'[t] \in {st, "EXPIRED"}
                             /\ status[t] \in Terminal \cup {"EXPIRED"}
                                => status'[t] \in Terminal \cup {"EXPIRED"}
<1>1. \A t \in Tasks : \/ status'[t] = status[t]
                       \/ status[t] \in Terminal /\ status'[t] = "EXPIRED"
                       \/ status[t] \notin Terminal \cup {"EXPIRED"}
  BY DEF RowsMove, RowMoves, Terminal, Cancellable
<1>2. \A t \in Tasks, st \in Terminal : status[t] \in {st, "EXPIRED"} => status'[t] \in {st, "EXPIRED"}
  BY <1>1
<1>3. \A e : Good(e) => Good(e)'
  BY <1>2, EventFacts DEF Good
<1> QED  BY <1>1, <1>2, <1>3

LEMMA EventsGoodStay ==
  ASSUME Safe, EventsGood, RowsMove, UNCHANGED hookVars
  PROVE  EventsGood'
<1>1. \A e : Good(e) => Good(e)'
  BY GoodStays
<1>2. UNCHANGED <<queue, later, dpc, held, heard, outcomes, dlq, replayed>>
  BY DEF hookVars, dispatchVars, heardVars, fateVars, replayVars
<1>3. /\ queue' \in Seq(EventRecords) /\ \A i \in 1 .. Len(queue') : Good(queue[i])'
      /\ \A e \in later' \cup dlq' : Good(e)'
  BY <1>1, <1>2 DEF EventsGood, Good
<1>4. /\ dpc' \in [Dispatchers -> {"idle", "promote", "push", "look", "send"}]
      /\ held' \in [Dispatchers -> EventRecords \cup {NoEvent}]
      /\ \A d \in Dispatchers : /\ held'[d] # NoEvent => Good(held[d])'
                                /\ held'[d] # NoEvent <=> dpc'[d] \in {"push", "look", "send"}
      /\ replayed' # NoEvent => Good(replayed)'
  BY <1>1, <1>2 DEF EventsGood, Good
<1>5. /\ heard' \in [Tasks -> Nat] /\ outcomes' \in [Tasks -> SUBSET Terminal]
      /\ \A t \in Tasks : /\ \A st \in outcomes'[t] : status'[t] \in {st, "EXPIRED"}
                          /\ heard'[t] > 0 => status'[t] \in Terminal \cup {"EXPIRED"}
  BY <1>2, GoodStays DEF EventsGood
<1> QED  BY <1>3, <1>4, <1>5 DEF EventsGood

LEMMA CancelTellsGrows ==
  ASSUME Safe, NEW c \in Cancels, CancelActs(c), NEW t \in Tasks
  PROVE  CancelTells(c, t)' => CancelTells(c, t) \/ status[t] \in Cancellable
BY CancelsGo DEF CancelTells, EndWithRefund

LEMMA WorkTellsGrows ==
  ASSUME Safe, NEW w \in Workers, WorkerActs(w), NEW t \in Tasks
  PROVE  WorkTells(w, t)' => WorkTells(w, t) \/ status[t] \in Cancellable
<1> USE DEF Safe, TypeOK
<1>1. CASE wpc'[w] \notin {"refund", "release", "published", "finished", "failed"}
  BY <1>1 DEF WorkTells
<1>2. CASE \E s \in Tasks : WorkRead(w, s) \/ WorkClaim(w, s)
  BY <1>1, <1>2 DEF WorkRead, WorkClaim, Take
<1>3. CASE WorkComplete(w) \/ WorkFail(w)
  BY <1>3 DEF WorkComplete, WorkFail, GoWork, EndWithRefund, WorkTells, Cancellable
<1>4. CASE WorkPublish(w) \/ WorkFinish(w) \/ WorkRefund(w) \/ WorkRelease(w) \/ WorkGiveUp(w)
           \/ WorkRetry(w)
  BY <1>4 DEF WorkPublish, WorkFinish, WorkRefund, WorkRelease, WorkGiveUp, WorkRetry, GoWork,
              workVars, WorkTells
<1>5. CASE WorkStart(w) \/ WorkMark(w) \/ WorkRaise(w) \/ WorkError(w) \/ WorkFailError(w)
  BY <1>1, <1>5 DEF WorkStart, WorkMark, WorkRaise, WorkError, WorkFailError, GoWork
<1>6. CASE WorkLook(w) \/ WorkAck(w) \/ WorkCrash(w)
  BY <1>1, <1>6 DEF WorkLook, WorkAck, WorkCrash, Leave
<1> QED  BY <1>2, <1>3, <1>4, <1>5, <1>6 DEF WorkerActs, Work

(* Only who ends a task comes to owe its announcement. *)
LEMMA TellsGrow ==
  ASSUME Safe, SingleTells, [Next]_vars, NEW t \in Tasks
  PROVE  /\ Telling(t)' => Telling(t) \/ status[t] \in Cancellable
         /\ \A c, d \in Cancels : CancelTells(c, t)' /\ CancelTells(d, t)' => c = d
         /\ \A v, w \in Workers : WorkTells(v, t)' /\ WorkTells(w, t)' => v = w
         /\ \A c \in Cancels, w \in Workers : ~(CancelTells(c, t)' /\ WorkTells(w, t)')
<1>1. /\ \A c, d \in Cancels : CancelTells(c, t) /\ CancelTells(d, t) => c = d
      /\ \A v, w \in Workers : WorkTells(v, t) /\ WorkTells(w, t) => v = w
      /\ \A c \in Cancels, w \in Workers : ~(CancelTells(c, t) /\ WorkTells(w, t))
  BY DEF SingleTells
<1>2. status[t] \in Cancellable => ~Telling(t)
  BY DEF Safe, WorkersKnow, CancelsKnow, Telling, WorkTells, CancelTells, Cancellable
<1>3. UNCHANGED cpc => \A c \in Cancels : CancelTells(c, t)' <=> CancelTells(c, t)
  BY DEF CancelTells
<1>4. UNCHANGED workVars => \A w \in Workers : WorkTells(w, t)' <=> WorkTells(w, t)
  BY DEF WorkTells, workVars
<1>5. CASE UNCHANGED <<cpc, workVars>>
  BY <1>1, <1>3, <1>4, <1>5 DEF Telling
<1>6. ASSUME NEW c \in Cancels, CancelActs(c)
      PROVE  /\ UNCHANGED workVars
             /\ \A d \in Cancels \ {c} : CancelTells(d, t)' <=> CancelTells(d, t)
             /\ CancelTells(c, t)' => CancelTells(c, t) \/ status[t] \in Cancellable
  BY <1>6, CancelFrame, CancelTellsGrows DEF Safe, CancelTells
<1>7. ASSUME NEW w \in Workers, WorkerActs(w)
      PROVE  /\ UNCHANGED cpc
             /\ \A v \in Workers \ {w} : WorkTells(v, t)' <=> WorkTells(v, t)
             /\ WorkTells(w, t)' => WorkTells(w, t) \/ status[t] \in Cancellable
  BY <1>7, WorkerFrame, WorkTellsGrows DEF Safe, WorkTells, requestVars
<1>8. CASE \E c \in Cancels : CancelActs(c)
  BY <1>1, <1>2, <1>4, <1>6, <1>8 DEF Telling
<1>9. CASE \E w \in Workers : WorkerActs(w)
  BY <1>1, <1>2, <1>3, <1>7, <1>9 DEF Telling
<1> QED
  BY <1>5, <1>8, <1>9, WhoActs, RequestFrame, AdjustFrame, ReaperFrame, RestFrame DEF Safe, requestVars

LEMMA TaskStep ==
  ASSUME Safe, HookSafe, [Next]_vars, UNCHANGED hookVars
  PROVE  HookSafe'
<1> USE DEF HookSafe
<1>1. EventsGood'
  BY NextMoves, EventsGoodStay
<1>2. UNCHANGED <<queue, later, held, heard, dlq, replayed>>
  BY DEF hookVars, dispatchVars, heardVars, fateVars, replayVars
<1>3. \A t \in Tasks : Telling(t)' => Telling(t) \/ status[t] \in Cancellable
  BY TellsGrow DEF Singles
<1>4. Singles'
  <2>1. SingleTells'
    BY TellsGrow DEF Singles, SingleTells
  <2> QED  BY <1>2, <2>1, Stays DEF Singles
<1>5. \A t \in Tasks, k \in Kinds : In(k, t)' => In(k, t) \/ (k = "telling" /\ status[t] \in Cancellable)
  BY <1>2, <1>3, Stays DEF In
<1>6. OneKind'
  <2>1. ASSUME NEW t \in Tasks, NEW k \in Kinds, NEW l \in Kinds, In(k, t)', In(l, t)'
        PROVE  k = l
    <3>1. CASE status[t] \in Cancellable
      <4>1. ~In(k, t) /\ ~In(l, t)
        BY <3>1, OverFirst DEF Terminal, Cancellable
      <4> QED  BY <1>5, <2>1, <4>1
    <3>2. CASE status[t] \notin Cancellable
      BY <1>5, <2>1, <3>2 DEF OneKind
    <3> QED  BY <3>1, <3>2
  <2> QED  BY <2>1 DEF OneKind
<1> QED  BY <1>1, <1>4, <1>6

-----------------------------------------------------------------------------
(* An outcome is announced *)

GoodStill == \A e : Good(e)' = Good(e)

LEMMA SameStatusGood == UNCHANGED status => GoodStill
BY DEF GoodStill, Good

(* What the steps leave of EventsGood, part by part. *)
QueueGood == queue \in Seq(EventRecords) /\ \A i \in 1 .. Len(queue) : Good(queue[i])
SetsGood == \A e \in later \cup dlq : Good(e)
HandsGood ==
  /\ dpc \in [Dispatchers -> {"idle", "promote", "push", "look", "send"}]
  /\ held \in [Dispatchers -> EventRecords \cup {NoEvent}]
  /\ \A d \in Dispatchers : /\ held[d] # NoEvent => Good(held[d])
                            /\ held[d] # NoEvent <=> dpc[d] \in {"push", "look", "send"}
ReplayGood == replayed # NoEvent => Good(replayed)
HeardGood ==
  /\ heard \in [Tasks -> Nat] /\ outcomes \in [Tasks -> SUBSET Terminal]
  /\ \A t \in Tasks : /\ \A st \in outcomes[t] : status[t] \in {st, "EXPIRED"}
                      /\ heard[t] > 0 => status[t] \in Terminal \cup {"EXPIRED"}

LEMMA GoodParts ==
  /\ EventsGood <=> QueueGood /\ SetsGood /\ HandsGood /\ ReplayGood /\ HeardGood
  /\ EventsGood' <=> QueueGood' /\ SetsGood' /\ HandsGood' /\ ReplayGood' /\ HeardGood'
BY DEF EventsGood, QueueGood, SetsGood, HandsGood, ReplayGood, HeardGood

LEMMA PartsStay ==
  ASSUME UNCHANGED status
  PROVE  /\ UNCHANGED queue => QueueGood' = QueueGood
         /\ UNCHANGED <<later, dlq>> => SetsGood' = SetsGood
         /\ UNCHANGED <<dpc, held>> => HandsGood' = HandsGood
         /\ UNCHANGED replayed => ReplayGood' = ReplayGood
         /\ UNCHANGED <<heard, outcomes>> => HeardGood' = HeardGood
BY DEF Good, QueueGood, SetsGood, HandsGood, ReplayGood, HeardGood

LEMMA QueueAdds ==
  ASSUME HookSafe, UNCHANGED status, NEW e, Good(e), ~Queued(e.task),
         queue' = Append(queue, e) \/ queue' = <<e>> \o queue
  PROVE  QueueGood' /\ SingleQueue' /\ \A t : Queued(t)' => Queued(t) \/ t = e.task
<1>1. EventsGood /\ SingleQueue /\ e \in EventRecords
  BY EventFacts DEF HookSafe, Singles
<1>2. /\ queue' \in Seq(EventRecords) /\ SingleQueue'
      /\ \A i \in 1 .. Len(queue') : queue'[i] = e \/ \E j \in 1 .. Len(queue) : queue'[i] = queue[j]
      /\ \A t : Queued(t)' => Queued(t) \/ t = e.task
  BY <1>1, QueueGrows
<1>3. \A i \in 1 .. Len(queue') : Good(queue'[i])
  BY <1>1, <1>2 DEF EventsGood
<1>4. QueueGood'
  BY <1>2, <1>3, SameStatusGood DEF QueueGood, GoodStill, Good
<1> QED  BY <1>2, <1>4

LEMMA AnnounceKeeps ==
  ASSUME Safe, HookSafe, UNCHANGED status, NEW s \in Tasks, NEW st \in Terminal, status[s] = st,
         Telling(s), ~Telling(s)', \A t \in Tasks : Telling(t)' => Telling(t), SingleTells',
         Announce(s, st)
  PROVE  HookSafe'
<1>1. /\ UNCHANGED <<later, dpc, held, heard, outcomes, dlq, replayed>>
      /\ UNCHANGED queue \/ queue' = Append(queue, Event(s, st))
  BY DEF Announce, Enqueue, EnqueueError, dispatchVars, heardVars, replayVars
<1>2. Event(s, st) \in EventRecords /\ Good(Event(s, st)) /\ Event(s, st).task = s
  BY DEF Event, EventRecords, Good
<1>3. \A k \in Kinds \ {"telling"} : ~In(k, s)
  BY DEF HookSafe, OneKind, In, Kinds
<1>4. ~Queued(s)
  BY <1>3 DEF In, Kinds
<1>5. QueueGood' /\ SingleQueue' /\ \A t : Queued(t)' => Queued(t) \/ t = s
  <2>1. CASE UNCHANGED queue
    BY <2>1, GoodParts, PartsStay, Stays DEF HookSafe, Singles
  <2>2. CASE queue' = Append(queue, Event(s, st))
    BY <1>2, <1>4, <2>2, QueueAdds
  <2> QED  BY <1>1, <2>1, <2>2
<1>6. EventsGood'
  BY <1>1, <1>5, GoodParts, PartsStay DEF HookSafe
<1>7. Singles'
  BY <1>1, <1>5, Stays DEF HookSafe, Singles
<1>8. OneKind'
  <2>1. \A t \in Tasks, k \in Kinds : In(k, t)' => In(k, t) \/ (t = s /\ k = "queue")
    BY <1>1, <1>5, Stays DEF In
  <2>2. In("telling", s) /\ ~In("telling", s)'
    BY DEF In
  <2> QED  BY <2>1, <2>2, KindsMove DEF HookSafe, Kinds
<1> QED  BY <1>6, <1>7, <1>8 DEF HookSafe

LEMMA WorkerKeeps ==
  ASSUME Safe, HookSafe, NEW w \in Workers, WorkerAnnounces(w)
  PROVE  HookSafe'
<1>1. /\ wpc[w] \in {"finished", "failed"} /\ wpc' = [wpc EXCEPT ![w] = "ack"]
      /\ UNCHANGED <<job, cpc, status>>
  BY DEF WorkerAnnounces, WorkFinish, WorkPublish, WorkGiveUp, GoWork, requestVars, rowVars
<1>2. job[w] \in Tasks /\ wpc'[w] = "ack" /\ \A v \in Workers \ {w} : wpc'[v] = wpc[v]
  BY <1>1 DEF Safe, WorkersKnow, TypeOK
<1>3. status[job[w]] = IF wpc[w] = "finished" THEN "COMPLETED" ELSE "FAILED"
  BY <1>1 DEF Safe, WorkersKnow
<1>4. /\ \A t \in Tasks, v \in Workers : WorkTells(v, t)' => WorkTells(v, t) /\ v # w
      /\ \A t \in Tasks, c \in Cancels : CancelTells(c, t)' <=> CancelTells(c, t)
      /\ WorkTells(w, job[w])
  BY <1>1, <1>2 DEF WorkTells, CancelTells
<1>5. Telling(job[w]) /\ ~Telling(job[w])' /\ \A t \in Tasks : Telling(t)' => Telling(t)
  BY <1>1, <1>2, <1>4 DEF HookSafe, Singles, SingleTells, Telling
<1>6. SingleTells'
  BY <1>4 DEF HookSafe, Singles, SingleTells
<1>7. Announce(job[w], IF wpc[w] = "finished" THEN "COMPLETED" ELSE "FAILED")
  BY DEF WorkerAnnounces
<1>8. (IF wpc[w] = "finished" THEN "COMPLETED" ELSE "FAILED") \in Terminal
  BY DEF Terminal
<1> QED  BY <1>1, <1>2, <1>3, <1>5, <1>6, <1>7, <1>8, AnnounceKeeps

LEMMA CancelKeeps ==
  ASSUME Safe, HookSafe, NEW c \in Cancels, CancelAnnounces(c)
  PROVE  HookSafe'
<1>1. cpc[c] = "cache" /\ cpc' = [cpc EXCEPT ![c] = "ended"] /\ UNCHANGED <<wpc, job, status>>
  BY DEF CancelAnnounces, CancelCache, GoCancel, workVars, rowVars
<1>2. CancelOf[c] \in Tasks /\ cpc'[c] = "ended" /\ \A d \in Cancels \ {c} : cpc'[d] = cpc[d]
  BY <1>1, CancelOfTask DEF Safe, TypeOK
<1>3. status[CancelOf[c]] = "CANCELLED"
  BY <1>1 DEF Safe, CancelsKnow
<1>4. /\ \A t \in Tasks, d \in Cancels : CancelTells(d, t)' => CancelTells(d, t) /\ d # c
      /\ \A t \in Tasks, w \in Workers : WorkTells(w, t)' <=> WorkTells(w, t)
      /\ CancelTells(c, CancelOf[c])
  BY <1>1, <1>2 DEF WorkTells, CancelTells
<1>5. Telling(CancelOf[c]) /\ ~Telling(CancelOf[c])' /\ \A t \in Tasks : Telling(t)' => Telling(t)
  BY <1>2, <1>4 DEF HookSafe, Singles, SingleTells, Telling
<1>6. SingleTells'
  BY <1>4 DEF HookSafe, Singles, SingleTells
<1>7. Announce(CancelOf[c], "CANCELLED")
  BY DEF CancelAnnounces
<1> QED  BY <1>1, <1>2, <1>3, <1>5, <1>6, <1>7, AnnounceKeeps DEF Terminal

-----------------------------------------------------------------------------
(* An event changes hands *)

Still == UNCHANGED <<status, cpc, workVars>>

LEMMA VarsStill == UNCHANGED vars => Still
BY DEF vars, Still, rowVars, requestVars

LEMMA SameKeeps ==
  ASSUME HookSafe, Still, UNCHANGED <<queue, later, dpc, held, heard, outcomes, dlq, replayed>>
  PROVE  HookSafe'
<1>1. EventsGood'
  BY GoodParts, PartsStay DEF HookSafe, Still
<1>2. Singles'
  BY Stays DEF HookSafe, Singles, Still
<1>3. OneKind'
  <2>1. \A t \in Tasks, k \in Kinds : In(k, t)' => In(k, t)
    BY Stays DEF In, Still
  <2> QED  BY <2>1, KindsDrop DEF HookSafe
<1> QED  BY <1>1, <1>2, <1>3 DEF HookSafe

LEMMA HandsMove ==
  ASSUME EventsGood, UNCHANGED status, NEW d \in Dispatchers, NEW step, NEW e, GoDispatch(d, step, e),
         step \in {"idle", "promote", "push", "look", "send"}, e = NoEvent \/ Good(e),
         e # NoEvent <=> step \in {"push", "look", "send"}
  PROVE  HandsGood'
<1>1. /\ dpc'[d] = step /\ \A x \in Dispatchers \ {d} : dpc'[x] = dpc[x]
      /\ held'[d] = e /\ \A x \in Dispatchers \ {d} : held'[x] = held[x]
  BY DEF EventsGood, GoDispatch
<1>2. /\ dpc' \in [Dispatchers -> {"idle", "promote", "push", "look", "send"}]
      /\ held' \in [Dispatchers -> EventRecords \cup {NoEvent}]
  BY EventFacts DEF EventsGood, GoDispatch
<1>3. GoodStill
  BY SameStatusGood
<1>4. ASSUME NEW x \in Dispatchers
      PROVE  /\ held'[x] # NoEvent => Good(held'[x])
             /\ held'[x] # NoEvent <=> dpc'[x] \in {"push", "look", "send"}
  BY <1>1 DEF EventsGood
<1> QED  BY <1>2, <1>3, <1>4 DEF HandsGood, GoodStill, Good

(* A dispatcher goes on with what it holds, or without anything. *)
LEMMA GoesOn ==
  ASSUME HookSafe, Still, NEW d \in Dispatchers, NEW step, GoDispatch(d, step, held[d]),
         step \in {"idle", "promote", "push", "look", "send"},
         held[d] # NoEvent <=> step \in {"push", "look", "send"},
         UNCHANGED <<queue, later, heard, outcomes, dlq, replayed>>
  PROVE  HookSafe'
<1>1. EventsGood /\ (held[d] = NoEvent \/ Good(held[d])) /\ held' = held
  BY DEF HookSafe, EventsGood, GoDispatch
<1>2. HandsGood'
  BY <1>1, HandsMove DEF Still
<1>3. EventsGood'
  BY <1>2, GoodParts, PartsStay DEF HookSafe, Still
<1>4. Singles'
  BY <1>1, Stays DEF HookSafe, Singles, Still
<1>5. OneKind'
  <2>1. \A t \in Tasks, k \in Kinds : In(k, t)' => In(k, t)
    BY <1>1, Stays DEF In, Still
  <2> QED  BY <2>1, KindsDrop DEF HookSafe
<1> QED  BY <1>3, <1>4, <1>5 DEF HookSafe

(* ZREM and BLPOP: it takes the event from the schedule or the queue. *)
LEMMA TakesOver ==
  ASSUME HookSafe, Still, NEW d \in Dispatchers, held[d] = NoEvent, NEW e, Good(e),
         NEW step \in {"push", "look"}, GoDispatch(d, step, e),
         NEW from \in {"queue", "later"}, In(from, e.task), ~In(from, e.task)',
         QueueGood', SetsGood', SingleQueue', SingleLater',
         \A t \in Tasks : (Queued(t)' => Queued(t)) /\ (Scheduled(t)' => Scheduled(t)),
         UNCHANGED <<heard, outcomes, dlq, replayed>>
  PROVE  HookSafe'
<1>1. e \in EventRecords /\ e # NoEvent /\ e.task \in Tasks /\ EventsGood /\ SingleHeld
  BY EventFacts DEF HookSafe, Singles
<1>2. ~Held(e.task)
  BY <1>1 DEF HookSafe, OneKind, In, Kinds
<1>3. SingleHeld' /\ \A t : Held(t)' => Held(t) \/ t = e.task
  BY <1>1, <1>2, HandTakes DEF GoDispatch
<1>4. HandsGood'
  BY <1>1, HandsMove DEF Still
<1>5. EventsGood'
  BY <1>4, GoodParts, PartsStay DEF HookSafe, Still
<1>6. Singles'
  BY <1>3, Stays DEF HookSafe, Singles, Still
<1>7. \A t \in Tasks, k \in Kinds : In(k, t)' => In(k, t) \/ (t = e.task /\ k = "held")
  BY <1>3, Stays DEF In, Still
<1>8. OneKind'
  BY <1>1, <1>7, KindsMove DEF HookSafe, Kinds
<1> QED  BY <1>5, <1>6, <1>8 DEF HookSafe

(* It lets go of the event, and puts it into at most one other place. *)
LEMMA LetsGo ==
  ASSUME HookSafe, Still, NEW d \in Dispatchers, held[d] # NoEvent,
         NEW step \in {"idle", "promote"}, GoDispatch(d, step, NoEvent), NEW into \in Kinds,
         QueueGood', SetsGood', HeardGood', SingleQueue', SingleLater', SingleDlq', SingleHeard',
         UNCHANGED replayed,
         \A t \in Tasks, k \in Kinds \ {"held"} : In(k, t)' => In(k, t) \/ (t = held[d].task /\ k = into),
         into # "held"
  PROVE  HookSafe'
<1>1. EventsGood /\ SingleHeld
  BY DEF HookSafe, Singles
<1>2. /\ SingleHeld' /\ \A t : Held(t)' => Held(t) /\ t # held[d].task
      /\ Good(held[d]) /\ Held(held[d].task)
  BY <1>1, HandGives DEF GoDispatch
<1>3. HandsGood'
  BY <1>1, HandsMove DEF Still
<1>4. EventsGood'
  BY <1>3, GoodParts, PartsStay DEF HookSafe, Still
<1>5. Singles'
  BY <1>2, Stays DEF HookSafe, Singles, Still
<1>6. OneKind'
  <2>1. PICK s \in Tasks : s = held[d].task
    BY <1>2, EventFacts
  <2>2. In("held", s) /\ ~In("held", s)'
    BY <1>2, <2>1 DEF In
  <2>3. \A t \in Tasks, k \in Kinds : In(k, t)' => In(k, t) \/ (t = s /\ k = into)
    BY <1>2, <2>1 DEF In
  <2> QED  BY <2>2, <2>3, KindsMove DEF HookSafe, Kinds
<1> QED  BY <1>4, <1>5, <1>6 DEF HookSafe

-----------------------------------------------------------------------------
(* The steps of a dispatcher *)

LEMMA PromoteReadKeeps ==
  ASSUME HookSafe, Still, NEW d \in Dispatchers, PromoteRead(d)
  PROVE  HookSafe'
<1>1. held[d] = NoEvent
  BY DEF HookSafe, EventsGood, PromoteRead
<1> QED  BY <1>1, GoesOn DEF PromoteRead, heardVars, fateVars, replayVars

LEMMA PromoteTakeKeeps ==
  ASSUME HookSafe, Still, NEW d \in Dispatchers, NEW e, PromoteTake(d, e)
  PROVE  HookSafe'
<1>1. held[d] = NoEvent /\ EventsGood /\ SingleLater
  BY DEF HookSafe, Singles, EventsGood, PromoteTake
<1>2. /\ later' = later \ {e} /\ UNCHANGED <<queue, heard, outcomes, dlq, replayed>>
      /\ IF e \in later THEN GoDispatch(d, "push", e) ELSE UNCHANGED <<dpc, held>>
  BY DEF PromoteTake, heardVars, fateVars, replayVars
<1>3. CASE e \notin later
  BY <1>2, <1>3, SameKeeps
<1>4. CASE e \in later
  <2>1. Good(e) /\ In("later", e.task) /\ ~In("later", e.task)'
    BY <1>1, <1>2, <1>4, SetsMove DEF EventsGood, In
  <2>2. SingleLater' /\ \A t : Scheduled(t)' => Scheduled(t)
    BY <1>1, <1>2, SetsMove
  <2>3. SetsGood'
    BY <1>1, <1>2, SameStatusGood DEF EventsGood, SetsGood, GoodStill, Good, Still
  <2>4. QueueGood' /\ SingleQueue' /\ \A t : Queued(t)' => Queued(t)
    BY <1>1, <1>2, GoodParts, PartsStay, Stays DEF HookSafe, Singles, Still
  <2>5. GoDispatch(d, "push", e)
    BY <1>2, <1>4
  <2> QED  BY <1>1, <1>2, <2>1, <2>2, <2>3, <2>4, <2>5, TakesOver
<1> QED  BY <1>3, <1>4

LEMMA PopKeeps ==
  ASSUME HookSafe, Still, NEW d \in Dispatchers, Pop(d)
  PROVE  HookSafe'
<1>1. held[d] = NoEvent /\ EventsGood /\ SingleQueue
  BY DEF HookSafe, Singles, EventsGood, Pop
<1>2. UNCHANGED <<later, heard, outcomes, dlq, replayed>>
  BY DEF Pop, heardVars, fateVars, replayVars
<1>3. CASE queue = <<>> /\ PassOver(d) /\ UNCHANGED queue
  BY <1>1, <1>2, <1>3, GoesOn DEF PassOver
<1>4. CASE queue # <<>> /\ queue' = Tail(queue) /\ GoDispatch(d, "look", Head(queue))
  <2>1. /\ queue' \in Seq(EventRecords) /\ SingleQueue'
        /\ \A i \in 1 .. Len(queue') : \E j \in 1 .. Len(queue) : queue'[i] = queue[j]
        /\ Good(Head(queue)) /\ Queued(Head(queue).task)
        /\ \A t : Queued(t)' => Queued(t) /\ t # Head(queue).task
    BY <1>1, <1>4, QueueTail
  <2>2. \A i \in 1 .. Len(queue') : Good(queue'[i])
    BY <1>1, <2>1 DEF EventsGood
  <2>3. QueueGood'
    BY <2>1, <2>2, SameStatusGood DEF QueueGood, GoodStill, Good, Still
  <2>4. PICK e : e = Head(queue)
    OBVIOUS
  <2>5. Good(e) /\ In("queue", e.task) /\ ~In("queue", e.task)'
    BY <2>1, <2>4 DEF In
  <2>6. SetsGood' /\ SingleLater' /\ \A t : Scheduled(t)' => Scheduled(t)
    BY <1>1, <1>2, GoodParts, PartsStay, Stays DEF HookSafe, Singles, Still
  <2> QED  BY <1>1, <1>2, <1>4, <2>1, <2>3, <2>4, <2>5, <2>6, TakesOver
<1> QED  BY <1>3, <1>4 DEF Pop

(* What holds of a held event: it is nowhere else. *)
LEMMA HeldOnly ==
  ASSUME HookSafe, NEW d \in Dispatchers, held[d] # NoEvent
  PROVE  /\ Good(held[d]) /\ held[d].task \in Tasks
         /\ LET t == held[d].task IN ~Queued(t) /\ ~Scheduled(t) /\ ~Dead(t) /\ ~Heard(t)
<1>1. Good(held[d]) /\ held[d].task \in Tasks
  BY EventFacts DEF HookSafe, EventsGood
<1>2. PICK t \in Tasks : t = held[d].task
  BY <1>1
<1>3. In("held", t)
  BY <1>2 DEF In, Held
<1>4. \A k \in Kinds \ {"held"} : ~In(k, t)
  BY <1>3 DEF HookSafe, OneKind, Kinds
<1> QED  BY <1>1, <1>2, <1>4 DEF In, Kinds

LEMMA PromotePushKeeps ==
  ASSUME HookSafe, Still, NEW d \in Dispatchers, PromotePush(d)
  PROVE  HookSafe'
<1>1. held[d] # NoEvent
  BY DEF HookSafe, EventsGood, PromotePush
<1>2. /\ queue' = <<held[d]>> \o queue /\ GoDispatch(d, "promote", NoEvent)
      /\ UNCHANGED <<later, heard, outcomes, dlq, replayed>>
  BY DEF PromotePush, heardVars, fateVars, replayVars
<1>3. Good(held[d]) /\ ~Queued(held[d].task)
  BY <1>1, HeldOnly
<1>4. QueueGood' /\ SingleQueue' /\ \A t : Queued(t)' => Queued(t) \/ t = held[d].task
  BY <1>2, <1>3, QueueAdds DEF Still
<1>5. SetsGood' /\ HeardGood' /\ SingleLater' /\ SingleDlq' /\ SingleHeard'
  BY <1>2, GoodParts, PartsStay, Stays DEF HookSafe, Singles, Still
<1>6. \A t \in Tasks, k \in Kinds \ {"held"} :
        In(k, t)' => In(k, t) \/ (t = held[d].task /\ k = "queue")
  BY <1>2, <1>4, Stays DEF In, Still, Kinds
<1> QED  BY <1>1, <1>2, <1>4, <1>5, <1>6, LetsGo DEF Kinds

(* What a receiver is told is the outcome of the task. *)
LEMMA ToldGood ==
  ASSUME HookSafe, Still, NEW d \in Dispatchers, held[d] # NoEvent,
         Told(d) \/ UNCHANGED outcomes,
         heard' = heard \/ heard' = [heard EXCEPT ![held[d].task] = @ + 1]
  PROVE  HeardGood'
<1>1. Good(held[d]) /\ held[d].task \in Tasks /\ held[d].status \in Terminal
  BY HeldOnly, EventFacts DEF Good
<1>2. HeardGood /\ UNCHANGED status
  BY GoodParts DEF HookSafe, Still
<1>3. heard' \in [Tasks -> Nat] /\ \A t \in Tasks : heard'[t] > 0 => heard[t] > 0 \/ t = held[d].task
  BY <1>1, <1>2 DEF HeardGood
<1>4. outcomes' \in [Tasks -> SUBSET Terminal]
  BY <1>1, <1>2 DEF HeardGood, Told
<1>5. \A t \in Tasks : \A st \in outcomes'[t] : st \in outcomes[t] \/ (t = held[d].task /\ st = held[d].status)
  BY <1>1, <1>2 DEF HeardGood, Told
<1>6. status[held[d].task] \in {held[d].status, "EXPIRED"}
  BY <1>1 DEF Good
<1>7. ASSUME NEW t \in Tasks
      PROVE  /\ \A st \in outcomes'[t] : status'[t] \in {st, "EXPIRED"}
             /\ heard'[t] > 0 => status'[t] \in Terminal \cup {"EXPIRED"}
  <2>1. \A st \in outcomes'[t] : status'[t] \in {st, "EXPIRED"}
    BY <1>2, <1>5, <1>6 DEF HeardGood
  <2>2. heard'[t] > 0 => status'[t] \in Terminal \cup {"EXPIRED"}
    BY <1>1, <1>2, <1>3, <1>6 DEF HeardGood
  <2> QED  BY <2>1, <2>2
<1> QED  BY <1>3, <1>4, <1>7 DEF HeardGood

LEMMA LookKeeps ==
  ASSUME HookSafe, Still, NEW d \in Dispatchers, Look(d)
  PROVE  HookSafe'
<1>1. held[d] # NoEvent
  BY DEF HookSafe, EventsGood, Look
<1>2. /\ UNCHANGED <<queue, later, heard, outcomes, dlq, replayed>>
      /\ GoDispatch(d, "send", held[d]) \/ GoDispatch(d, "idle", NoEvent)
  BY DEF Look, PassOver, heardVars, replayVars
<1>3. CASE GoDispatch(d, "send", held[d])
  BY <1>1, <1>2, <1>3, GoesOn
<1>4. CASE GoDispatch(d, "idle", NoEvent)
  <2>1. /\ QueueGood' /\ SetsGood' /\ HeardGood'
        /\ SingleQueue' /\ SingleLater' /\ SingleDlq' /\ SingleHeard'
    BY <1>2, GoodParts, PartsStay, Stays DEF HookSafe, Singles, Still
  <2>2. \A t \in Tasks, k \in Kinds \ {"held"} :
          In(k, t)' => In(k, t) \/ (t = held[d].task /\ k = "queue")
    BY <1>2, Stays DEF In, Still, Kinds
  <2> QED  BY <1>1, <1>2, <1>4, <2>1, <2>2, LetsGo DEF Kinds
<1> QED  BY <1>2, <1>3, <1>4

LEMMA DispatchAbortKeeps ==
  ASSUME HookSafe, Still, NEW d \in Dispatchers, DispatchAbort(d)
  PROVE  HookSafe'
<1>1. /\ UNCHANGED <<queue, later, heard, dlq, replayed>> /\ GoDispatch(d, "idle", NoEvent)
      /\ (dpc[d] = "send" /\ Told(d)) \/ UNCHANGED outcomes
  BY DEF DispatchAbort, replayVars
<1>2. CASE held[d] = NoEvent
  <2>1. UNCHANGED outcomes
    BY <1>1, <1>2 DEF HookSafe, EventsGood
  <2> QED  BY <1>1, <1>2, <2>1, GoesOn
<1>3. CASE held[d] # NoEvent
  <2>1. HeardGood'
    BY <1>1, <1>3, ToldGood
  <2>2. QueueGood' /\ SetsGood' /\ SingleQueue' /\ SingleLater' /\ SingleDlq' /\ SingleHeard'
    BY <1>1, GoodParts, PartsStay, Stays DEF HookSafe, Singles, Still
  <2>3. \A t \in Tasks, k \in Kinds \ {"held"} :
          In(k, t)' => In(k, t) \/ (t = held[d].task /\ k = "queue")
    BY <1>1, Stays DEF In, Still, Kinds
  <2> QED  BY <1>1, <1>3, <2>1, <2>2, <2>3, LetsGo DEF Kinds
<1> QED  BY <1>2, <1>3

(* The next attempt is at the same event. *)
LEMMA LaterEvent ==
  ASSUME HookSafe, NEW d \in Dispatchers, held[d] # NoEvent
  PROVE  Good(Later(d)) /\ Later(d).task = held[d].task
<1>1. PICK e \in EventRecords : e = held[d]
  BY HeldOnly, EventFacts
<1>2. [e EXCEPT !.attempt = @ + 1] = [task |-> e.task, status |-> e.status, attempt |-> e.attempt + 1]
  BY <1>1 DEF EventRecords
<1>3. Good(e) /\ e.attempt + 1 \in Nat
  BY <1>1, HeldOnly, EventFacts
<1> QED  BY <1>1, <1>2, <1>3 DEF Later, Good, EventRecords

LEMMA PutsAside ==
  ASSUME HookSafe, Still, NEW d \in Dispatchers, held[d] # NoEvent, GoDispatch(d, "idle", NoEvent),
         Reschedule(d) \/ Bury(d), HeardGood', UNCHANGED <<queue, heard, replayed>>
  PROVE  HookSafe'
<1>1. PICK e : e = Later(d)
  OBVIOUS
<1>2. Good(e) /\ e.task = held[d].task /\ ~Scheduled(e.task) /\ ~Dead(e.task)
  BY <1>1, HeldOnly, LaterEvent
<1>3. \/ later' = later \cup {e} /\ UNCHANGED dlq
      \/ dlq' = dlq \cup {e} /\ UNCHANGED later
  BY <1>1 DEF Reschedule, Bury
<1>4. SetsGood'
  BY <1>2, <1>3, GoodParts, SameStatusGood DEF HookSafe, SetsGood, GoodStill, Good, Still
<1>5. QueueGood' /\ SingleQueue' /\ SingleHeard'
  BY GoodParts, PartsStay, Stays DEF HookSafe, Singles, Still
<1>6. CASE later' = later \cup {e} /\ UNCHANGED dlq
  <2>1. SingleLater' /\ \A t : Scheduled(t)' => Scheduled(t) \/ t = e.task
    BY <1>2, <1>6, SetsMove DEF HookSafe, Singles
  <2>2. SingleDlq'
    BY <1>6, Stays DEF HookSafe, Singles
  <2>3. \A t \in Tasks, k \in Kinds \ {"held"} :
          In(k, t)' => In(k, t) \/ (t = held[d].task /\ k = "later")
    BY <1>2, <1>6, <2>1, Stays DEF In, Still, Kinds
  <2> QED  BY <1>4, <1>5, <2>1, <2>2, <2>3, LetsGo DEF Kinds
<1>7. CASE dlq' = dlq \cup {e} /\ UNCHANGED later
  <2>1. SingleDlq' /\ \A t : Dead(t)' => Dead(t) \/ t = e.task
    BY <1>2, <1>7, SetsMove DEF HookSafe, Singles
  <2>2. SingleLater'
    BY <1>7, Stays DEF HookSafe, Singles
  <2>3. \A t \in Tasks, k \in Kinds \ {"held"} :
          In(k, t)' => In(k, t) \/ (t = held[d].task /\ k = "dlq")
    BY <1>2, <1>7, <2>1, Stays DEF In, Still, Kinds
  <2> QED  BY <1>4, <1>5, <2>1, <2>2, <2>3, LetsGo DEF Kinds
<1> QED  BY <1>3, <1>6, <1>7

LEMMA LookErrorKeeps ==
  ASSUME HookSafe, Still, NEW d \in Dispatchers, LookError(d)
  PROVE  HookSafe'
<1>1. held[d] # NoEvent
  BY DEF HookSafe, EventsGood, LookError
<1>2. /\ GoDispatch(d, "idle", NoEvent) /\ Reschedule(d)
      /\ UNCHANGED <<queue, heard, outcomes, replayed>>
  BY DEF LookError, PassOver, heardVars, replayVars
<1>3. HeardGood'
  BY <1>2, GoodParts, PartsStay DEF HookSafe, Still
<1> QED  BY <1>1, <1>2, <1>3, PutsAside

LEMMA SendRefusedKeeps ==
  ASSUME HookSafe, Still, NEW d \in Dispatchers, SendRefused(d)
  PROVE  HookSafe'
<1>1. held[d] # NoEvent
  BY DEF HookSafe, EventsGood, SendRefused
<1>2. /\ GoDispatch(d, "idle", NoEvent) /\ (Reschedule(d) \/ Bury(d))
      /\ Told(d) \/ UNCHANGED outcomes
      /\ UNCHANGED <<queue, heard, replayed>>
  BY DEF SendRefused, PassOver, Retry, replayVars
<1>3. HeardGood'
  BY <1>1, <1>2, ToldGood
<1> QED  BY <1>1, <1>2, <1>3, PutsAside

(* It was not confirmed before. *)
LEMMA SendHeardKeeps ==
  ASSUME HookSafe, Still, NEW d \in Dispatchers, SendHeard(d)
  PROVE  HookSafe'
<1>1. held[d] # NoEvent
  BY DEF HookSafe, EventsGood, SendHeard
<1>2. /\ GoDispatch(d, "idle", NoEvent) /\ Told(d)
      /\ heard' = [heard EXCEPT ![held[d].task] = @ + 1]
      /\ UNCHANGED <<queue, later, dlq, replayed>>
  BY DEF SendHeard, PassOver, fateVars, replayVars
<1>3. HeardGood'
  BY <1>1, <1>2, ToldGood
<1>4. heard \in [Tasks -> Nat] /\ held[d].task \in Tasks /\ ~(heard[held[d].task] > 0)
  BY <1>1, HeldOnly DEF HookSafe, EventsGood, Heard
<1>5. SingleHeard' /\ \A t \in Tasks : Heard(t)' => Heard(t) \/ t = held[d].task
  BY <1>2, <1>4 DEF HookSafe, Singles, SingleHeard, Heard
<1>6. QueueGood' /\ SetsGood' /\ SingleQueue' /\ SingleLater' /\ SingleDlq'
  BY <1>2, GoodParts, PartsStay, Stays DEF HookSafe, Singles, Still
<1>7. \A t \in Tasks, k \in Kinds \ {"held"} :
        In(k, t)' => In(k, t) \/ (t = held[d].task /\ k = "heard")
  BY <1>2, <1>5, Stays DEF In, Still, Kinds
<1> QED  BY <1>1, <1>2, <1>3, <1>5, <1>6, <1>7, LetsGo DEF Kinds

-----------------------------------------------------------------------------
(* The operator's script *)

LEMMA ReplayTakeKeeps ==
  ASSUME HookSafe, Still, NEW e \in dlq, ReplayTake(e)
  PROVE  HookSafe'
<1>1. /\ dlq' = dlq \ {e} /\ replayed' = [e EXCEPT !.attempt = 0] /\ replayed = NoEvent
      /\ UNCHANGED <<queue, later, dpc, held, heard, outcomes>>
  BY DEF ReplayTake, dispatchVars, heardVars
<1>2. Good(e) /\ e \in EventRecords /\ e.task \in Tasks
  BY EventFacts DEF HookSafe, EventsGood
<1>3. replayed' = [task |-> e.task, status |-> e.status, attempt |-> 0]
  BY <1>1, <1>2 DEF EventRecords
<1>4. SingleDlq' /\ (\A t : Dead(t)' => Dead(t)) /\ Dead(e.task) /\ ~Dead(e.task)'
  BY <1>1, SetsMove DEF HookSafe, Singles
<1>5. ReplayGood' /\ \A t : Replayed(t)' => t = e.task
  <2>1. Good(replayed')
    BY <1>2, <1>3 DEF Good, EventRecords
  <2> QED  BY <1>3, <2>1, SameStatusGood DEF ReplayGood, Replayed, GoodStill, Good, Still
<1>6. SetsGood'
  BY <1>1, GoodParts, SameStatusGood DEF HookSafe, SetsGood, GoodStill, Good, Still
<1>7. EventsGood'
  BY <1>1, <1>5, <1>6, GoodParts, PartsStay DEF HookSafe, Still
<1>8. Singles'
  BY <1>1, <1>4, Stays DEF HookSafe, Singles, Still
<1>9. OneKind'
  <2>1. \A t \in Tasks, k \in Kinds : In(k, t)' => In(k, t) \/ (t = e.task /\ k = "replayed")
    BY <1>1, <1>4, <1>5, Stays DEF In, Still
  <2>2. In("dlq", e.task) /\ ~In("dlq", e.task)'
    BY <1>4 DEF In
  <2> QED  BY <1>2, <2>1, <2>2, KindsMove DEF HookSafe, Kinds
<1> QED  BY <1>7, <1>8, <1>9 DEF HookSafe

LEMMA ReplayPushKeeps ==
  ASSUME HookSafe, Still, ReplayPush
  PROVE  HookSafe'
<1>1. /\ replayed # NoEvent /\ queue' = <<replayed>> \o queue /\ replayed' = NoEvent
      /\ UNCHANGED <<later, dpc, held, heard, outcomes, dlq>>
  BY DEF ReplayPush, dispatchVars, heardVars, fateVars
<1>2. PICK e : e = replayed
  OBVIOUS
<1>3. Good(e) /\ e \in EventRecords /\ e.task \in Tasks
  BY <1>1, <1>2, EventFacts DEF HookSafe, EventsGood
<1>4. In("replayed", e.task) /\ ~In("replayed", e.task)'
  BY <1>1, <1>2 DEF In, Replayed
<1>5. ~Queued(e.task)
  BY <1>3, <1>4 DEF HookSafe, OneKind, In, Kinds
<1>6. QueueGood' /\ SingleQueue' /\ \A t : Queued(t)' => Queued(t) \/ t = e.task
  BY <1>1, <1>2, <1>3, <1>5, QueueAdds DEF Still
<1>7. EventsGood'
  BY <1>1, <1>6, GoodParts, PartsStay DEF HookSafe, Still, ReplayGood
<1>8. Singles'
  BY <1>1, <1>6, Stays DEF HookSafe, Singles, Still
<1>9. OneKind'
  <2>1. \A t \in Tasks, k \in Kinds : In(k, t)' => In(k, t) \/ (t = e.task /\ k = "queue")
    BY <1>1, <1>6, Stays DEF In, Still, Replayed
  <2> QED  BY <1>3, <1>4, <2>1, KindsMove DEF HookSafe, Kinds
<1> QED  BY <1>7, <1>8, <1>9 DEF HookSafe

LEMMA ReplayAbortKeeps ==
  ASSUME HookSafe, Still, ReplayAbort
  PROVE  HookSafe'
<1>1. replayed' = NoEvent /\ UNCHANGED <<queue, later, dpc, held, heard, outcomes, dlq>>
  BY DEF ReplayAbort, dispatchVars, heardVars
<1>2. EventsGood'
  BY <1>1, GoodParts, PartsStay DEF HookSafe, Still, ReplayGood
<1>3. Singles'
  BY <1>1, Stays DEF HookSafe, Singles, Still
<1>4. OneKind'
  <2>1. \A t \in Tasks, k \in Kinds : In(k, t)' => In(k, t)
    BY <1>1, Stays DEF In, Still, Replayed
  <2> QED  BY <2>1, KindsDrop DEF HookSafe
<1> QED  BY <1>2, <1>3, <1>4 DEF HookSafe

-----------------------------------------------------------------------------
LEMMA NextHookSafe ==
  ASSUME Safe, HookSafe, [HookNext]_hookAllVars
  PROVE  HookSafe'
<1>1. CASE \E w \in Workers : WorkerAnnounces(w)
  BY <1>1, WorkerKeeps
<1>2. CASE \E c \in Cancels : CancelAnnounces(c)
  BY <1>2, CancelKeeps
<1>3. CASE Next /\ ~Announcing /\ UNCHANGED hookVars
  BY <1>3, TaskStep
<1>4. CASE \E u \in Users : (PutWebhook(u) \/ DeleteWebhook(u)) /\ UNCHANGED vars
  BY <1>4, VarsStill, SameKeeps DEF PutWebhook, DeleteWebhook, Subscribe, dispatchVars, heardVars,
     fateVars, replayVars
<1>5. ASSUME NEW d \in Dispatchers, UNCHANGED vars,
             PromoteRead(d) \/ Dispatch(d) \/ LookError(d) \/ DispatchAbort(d)
      PROVE  HookSafe'
  BY <1>5, VarsStill, PromoteReadKeeps, PromoteTakeKeeps, PromotePushKeeps, PopKeeps, LookKeeps,
     LookErrorKeeps, SendHeardKeeps, SendRefusedKeeps, DispatchAbortKeeps DEF Dispatch
<1>6. CASE (ReplayPush \/ ReplayAbort \/ \E e \in dlq : ReplayTake(e)) /\ UNCHANGED vars
  BY <1>6, VarsStill, ReplayTakeKeeps, ReplayPushKeeps, ReplayAbortKeeps
<1>7. CASE UNCHANGED hookAllVars
  BY <1>7, VarsStill, SameKeeps DEF hookAllVars, hookVars, dispatchVars, heardVars, fateVars, replayVars
<1> QED  BY <1>1, <1>2, <1>3, <1>4, <1>5, <1>6, <1>7 DEF HookNext

LEMMA AlwaysHookSafe == HookSpec => []HookSafe
<1>1. HookSpec => []Safe
  BY HookImplementsTask, AlwaysSafe
<1>2. HookInit => HookSafe
  BY InitHookSafe
<1>3. Safe /\ HookSafe /\ [HookNext]_hookAllVars => HookSafe'
  BY NextHookSafe
<1> QED  BY <1>1, <1>2, <1>3, PTL DEF HookSpec, hookAllVars

(* A receiver is told the outcome a task has and no other, and an event it   *)
(* has confirmed is never posted again: not by another dispatcher that read  *)
(* it from the schedule, not after a requeue, and not by the replay of the   *)
(* dead letters.                                                             *)
THEOREM CallbacksAlwaysTrue == ServiceSpec => []CallbacksTrue
<1>1. HookSafe => CallbacksTrue
  BY DEF HookSafe, EventsGood, Singles, SingleHeard, CallbacksTrue
<1> QED  BY <1>1, ServiceImplementsHooks, AlwaysHookSafe, PTL

-----------------------------------------------------------------------------
(* The signing keys *)

ClientRecords == [made : Nat, keys : SUBSET Keys, read : Int]

(* What a client has read is still published or was withdrawn after the      *)
(* client was made; and a verification uses a client that was young enough   *)
(* when it began.                                                            *)
ClientGood(c) == c.made <= clock /\ \A k \in c.keys : k \in published \/ gone[k] >= c.made

UsesYoung(v) ==
  vpc[v] = "find" =>
    /\ using[v] \in 1 .. Len(clients)
    /\ begun[v] <= clock /\ clock <= begun[v] + 1
    /\ begun[v] <= clients[using[v]].made + JwksTtl

KeySafe ==
  /\ clock \in Nat /\ signing \in Keys /\ published \subseteq Keys /\ issued \subseteq Keys
  /\ gone \in [Keys -> Nat] /\ outages \in Nat
  /\ vpc \in [Verifiers -> {"idle", "find"}]
  /\ key \in [Verifiers -> Nat] /\ using \in [Verifiers -> Nat] /\ begun \in [Verifiers -> Nat]
  /\ clients \in Seq(ClientRecords) /\ \A i \in 1 .. Len(clients) : ClientGood(clients[i])
  /\ \A v \in Verifiers : UsesYoung(v)

LEMMA InitKeySafe == KeyInit => KeySafe
<1> SUFFICES ASSUME KeyInit PROVE KeySafe
  OBVIOUS
<1>1. 1 \in Keys
  BY KeyConstantsOK DEF KeyConstantsOK, Keys
<1>2. clients \in Seq(ClientRecords) /\ Len(clients) = 0
  BY DEF KeyInit
<1> QED  BY <1>1, <1>2 DEF KeyInit, KeySafe, UsesYoung

(* Time passes, Hydra goes on, and the clients stay as they are. *)
LEMMA HydraKeeps ==
  ASSUME KeySafe, TimePasses \/ Rotate \/ Exchange \/ \E k \in Keys : Withdraw(k)
  PROVE  KeySafe'
<1> USE DEF KeySafe
<1>1. UNCHANGED <<clients, vpc, key, using, begun, outages>>
  BY DEF TimePasses, Rotate, Exchange, Withdraw, verifyVars
<1>2. /\ clock' \in Nat /\ clock <= clock' /\ signing' \in Keys
      /\ published' \subseteq Keys /\ issued' \subseteq Keys /\ gone' \in [Keys -> Nat]
  <2>1. CASE TimePasses
    BY <2>1 DEF TimePasses, hydraVars
  <2>2. CASE Rotate
    BY <2>2 DEF Rotate
  <2>3. CASE Exchange
    BY <2>3 DEF Exchange
  <2>4. CASE \E k \in Keys : Withdraw(k)
    BY <2>4 DEF Withdraw
  <2> QED  BY <2>1, <2>2, <2>3, <2>4
<1>3. ASSUME NEW i \in 1 .. Len(clients) PROVE ClientGood(clients[i])'
  <2>1. PICK c \in ClientRecords : c = clients[i]
    BY <1>3
  <2>2. c.made \in Nat /\ c.keys \subseteq Keys /\ ClientGood(c)
    BY <2>1 DEF ClientRecords
  <2>3. ASSUME NEW k \in c.keys PROVE k \in published' \/ gone'[k] >= c.made
    BY <2>2 DEF TimePasses, Rotate, Exchange, Withdraw, hydraVars, ClientGood
  <2> QED  BY <1>1, <1>2, <2>1, <2>2, <2>3 DEF ClientGood
<1>4. ASSUME NEW v \in Verifiers PROVE UsesYoung(v)'
  <2>1. CASE TimePasses /\ vpc[v] = "find"
    <3>1. begun[v] = clock /\ clock' = clock + 1
      BY <2>1 DEF TimePasses
    <3> QED  BY <1>1, <2>1, <3>1 DEF UsesYoung
  <2>2. CASE vpc[v] # "find"
    BY <1>1, <2>2 DEF UsesYoung
  <2>3. CASE Rotate \/ Exchange \/ \E k \in Keys : Withdraw(k)
    BY <1>1, <2>3 DEF UsesYoung, Rotate, Exchange, Withdraw
  <2> QED  BY <2>1, <2>2, <2>3
<1> QED  BY <1>1, <1>2, <1>3, <1>4

(* A client is picked or made. *)
LEMMA PickKeeps ==
  ASSUME KeySafe, NEW v \in Verifiers, NEW k \in Keys, PickClient(v, k)
  PROVE  KeySafe'
<1> USE DEF KeySafe
<1>1. /\ UNCHANGED <<clock, signing, published, gone, issued, outages>>
      /\ clients' = IF Current THEN clients ELSE Append(clients, NewClient)
      /\ vpc' = [vpc EXCEPT ![v] = "find"] /\ key' = [key EXCEPT ![v] = k]
      /\ using' = [using EXCEPT ![v] = Len(clients')] /\ begun' = [begun EXCEPT ![v] = clock]
  BY DEF PickClient, Start, hydraVars
<1>2. NewClient \in ClientRecords /\ ClientGood(NewClient) /\ NewClient.made = clock
  BY DEF NewClient, ClientRecords, ClientGood
<1>3. /\ clients' \in Seq(ClientRecords) /\ Len(clients') \in Nat \ {0} /\ Len(clients) <= Len(clients')
      /\ \A i \in 1 .. Len(clients) : clients'[i] = clients[i]
      /\ \A i \in 1 .. Len(clients') : ClientGood(clients'[i])
      /\ clock <= clients'[Len(clients')].made + JwksTtl
  <2>1. CASE Current
    <3>1. clients' = clients /\ clients # <<>> /\ clock - clients[Len(clients)].made <= JwksTtl
      BY <1>1, <2>1 DEF Current
    <3>2. Len(clients) \in Nat \ {0} /\ clients[Len(clients)] \in ClientRecords
      BY <3>1
    <3>3. clients[Len(clients)].made \in Nat
      BY <3>2 DEF ClientRecords
    <3> QED  BY <3>1, <3>2, <3>3, KeyConstantsOK DEF KeyConstantsOK
  <2>2. CASE ~Current
    <3>1. clients' = Append(clients, NewClient)
      BY <1>1, <2>2
    <3>2. /\ clients' \in Seq(ClientRecords) /\ Len(clients') = Len(clients) + 1 /\ Len(clients) \in Nat
          /\ \A i \in 1 .. Len(clients) : clients'[i] = clients[i]
          /\ clients'[Len(clients) + 1] = NewClient
      BY <1>2, <3>1
    <3>3. \A i \in 1 .. Len(clients') : i \in 1 .. Len(clients) \/ i = Len(clients) + 1
      BY <3>2
    <3>4. \A i \in 1 .. Len(clients') : ClientGood(clients'[i])
      BY <1>2, <3>2, <3>3
    <3>5. clock <= clients'[Len(clients')].made + JwksTtl
      <4>1. clients'[Len(clients')] = NewClient
        BY <3>2
      <4>2. clock <= clock + JwksTtl
        BY KeyConstantsOK DEF KeyConstantsOK
      <4>3. clients'[Len(clients')].made = clock
        BY <1>2, <4>1
      <4> QED  BY <4>2, <4>3, KeyConstantsOK DEF KeyConstantsOK
    <3>6. Len(clients') \in Nat \ {0} /\ Len(clients) <= Len(clients')
      BY <3>2
    <3> QED  BY <3>2, <3>4, <3>5, <3>6
  <2> QED  BY <2>1, <2>2
<1>4. ASSUME NEW x \in Verifiers PROVE UsesYoung(x)'
  <2>1. CASE x = v
    BY <1>1, <1>3, <2>1 DEF UsesYoung
  <2>2. CASE x # v
    <3>1. UsesYoung(x) /\ vpc'[x] = vpc[x] /\ using'[x] = using[x] /\ begun'[x] = begun[x]
      BY <1>1, <2>2
    <3> QED  BY <1>1, <1>3, <3>1 DEF UsesYoung
  <2> QED  BY <2>1, <2>2
<1>5. (\A i \in 1 .. Len(clients) : ClientGood(clients[i]))'
  BY <1>1, <1>3 DEF ClientGood
<1>6. /\ vpc' \in [Verifiers -> {"idle", "find"}] /\ key' \in [Verifiers -> Nat]
      /\ using' \in [Verifiers -> Nat] /\ begun' \in [Verifiers -> Nat]
  BY <1>1, <1>3 DEF Keys
<1> QED  BY <1>1, <1>3, <1>4, <1>5, <1>6

(* A verification that ends reads the client's keys again or leaves them. *)
FindEnds(v) ==
  /\ vpc[v] = "find" /\ UNCHANGED <<clock, signing, published, gone, issued>> /\ Stop(v)
  /\ outages' \in {outages, outages + 1}
  /\ \/ clients' \in {clients, Read(v)}
     \/ clients' = [clients EXCEPT ![using[v]].keys = {}, ![using[v]].read = -1]

LEMMA RereadForm ==
  ASSUME NEW c \in ClientRecords, NEW ks, NEW n
  PROVE  [c EXCEPT !.keys = ks, !.read = n] = [made |-> c.made, keys |-> ks, read |-> n]
<1>1. DOMAIN c = {"made", "keys", "read"}
  BY DEF ClientRecords
<1> DEFINE f == [c EXCEPT !.keys = ks]
<1>2. /\ DOMAIN f = {"made", "keys", "read"}
      /\ f.made = c.made /\ f.keys = ks /\ f.read = c.read
  BY <1>1
<1>3. f = [made |-> c.made, keys |-> ks, read |-> c.read]
  BY DEF ClientRecords
<1> HIDE DEF f
<1>4. [f EXCEPT !.read = n] = [made |-> c.made, keys |-> ks, read |-> n]
  BY <1>3
<1> QED  BY <1>4 DEF f

LEMMA FindEndsKeep ==
  ASSUME KeySafe, NEW v \in Verifiers, FindEnds(v)
  PROVE  KeySafe'
<1> USE DEF KeySafe
<1>1. PICK n \in 1 .. Len(clients) : n = using[v]
  BY DEF UsesYoung, FindEnds
<1>2. PICK c \in ClientRecords : c = clients[n]
  BY <1>1
<1>3. c.made \in Nat /\ ClientGood(c)
  BY <1>1, <1>2 DEF ClientRecords
<1>4. PICK e \in ClientRecords :
        /\ clients' = [clients EXCEPT ![n] = e] /\ e.made = c.made
        /\ e.keys \in {{}, published, c.keys}
  <2>1. CASE clients' = clients
    BY <1>2, <2>1
  <2>2. CASE clients' = Read(v)
    <3>1. clients' = [clients EXCEPT ![n] = [c EXCEPT !.keys = published, !.read = clock]]
      BY <1>1, <1>2, <2>2 DEF Read
    <3>2. [c EXCEPT !.keys = published, !.read = clock]
            = [made |-> c.made, keys |-> published, read |-> clock]
      BY RereadForm
    <3>3. PICK e : e = [made |-> c.made, keys |-> published, read |-> clock]
      OBVIOUS
    <3>4. e \in ClientRecords /\ e.made = c.made /\ e.keys = published
      BY <1>3, <3>3 DEF ClientRecords
    <3> QED  BY <3>1, <3>2, <3>3, <3>4
  <2>3. CASE clients' = [clients EXCEPT ![using[v]].keys = {}, ![using[v]].read = -1]
    <3>1. clients' = [clients EXCEPT ![n] = [c EXCEPT !.keys = {}, !.read = -1]]
      BY <1>1, <1>2, <2>3
    <3>2. [c EXCEPT !.keys = {}, !.read = -1] = [made |-> c.made, keys |-> {}, read |-> -1]
      BY RereadForm
    <3>3. PICK e : e = [made |-> c.made, keys |-> {}, read |-> -1]
      OBVIOUS
    <3>4. e \in ClientRecords /\ e.made = c.made /\ e.keys = {}
      BY <1>3, <3>3 DEF ClientRecords
    <3> QED  BY <3>1, <3>2, <3>3, <3>4
  <2> QED  BY <2>1, <2>2, <2>3 DEF FindEnds
<1>5. /\ clients' \in Seq(ClientRecords) /\ Len(clients') = Len(clients)
      /\ \A i \in 1 .. Len(clients) : clients'[i] = IF i = n THEN e ELSE clients[i]
  BY <1>4
<1>6. ClientGood(e)
  BY <1>3, <1>4 DEF ClientGood
<1>7. \A i \in 1 .. Len(clients) : /\ ClientGood(clients'[i])
                                   /\ clients'[i].made = clients[i].made
  BY <1>2, <1>4, <1>5, <1>6
<1>8. (\A i \in 1 .. Len(clients) : ClientGood(clients[i]))'
  BY <1>5, <1>7 DEF ClientGood, FindEnds
<1>9. ASSUME NEW x \in Verifiers PROVE UsesYoung(x)'
  <2>1. CASE x = v
    BY <2>1 DEF UsesYoung, FindEnds, Stop
  <2>2. CASE x # v
    <3>1. UsesYoung(x) /\ vpc'[x] = vpc[x] /\ using'[x] = using[x] /\ begun'[x] = begun[x]
      BY <2>2 DEF FindEnds, Stop
    <3> QED  BY <1>5, <1>7, <3>1 DEF UsesYoung, FindEnds
  <2> QED  BY <2>1, <2>2
<1>10. /\ vpc' \in [Verifiers -> {"idle", "find"}] /\ key' \in [Verifiers -> Nat]
       /\ using' \in [Verifiers -> Nat] /\ begun' \in [Verifiers -> Nat] /\ outages' \in Nat
  BY DEF FindEnds, Stop
<1> QED  BY <1>5, <1>8, <1>9, <1>10 DEF FindEnds

LEMMA FindsEnd ==
  ASSUME NEW v \in Verifiers, FindKey(v) \/ FindKeyError(v)
  PROVE  FindEnds(v)
BY DEF FindKey, FindKeyError, FindEnds, hydraVars

LEMMA KeyStep ==
  ASSUME [ServiceNext]_<<taskHookVars, tokenVars, keyVars>>
  PROVE  \/ UNCHANGED keyVars
         \/ TimePasses \/ Rotate \/ Exchange \/ \E k \in Keys : Withdraw(k)
         \/ \E v \in Verifiers, k \in Keys : PickClient(v, k)
         \/ \E v \in Verifiers : FindKey(v) \/ FindKeyError(v)
BY DEF ServiceNext, KeyNext

LEMMA NextKeySafe ==
  ASSUME KeySafe, [ServiceNext]_<<taskHookVars, tokenVars, keyVars>>
  PROVE  KeySafe'
<1>1. CASE UNCHANGED keyVars
  BY <1>1 DEF keyVars, hydraVars, verifyVars, KeySafe, ClientGood, UsesYoung
<1> QED  BY <1>1, KeyStep, HydraKeeps, PickKeeps, FindsEnd, FindEndsKeep

LEMMA AlwaysKeySafe == ServiceSpec => []KeySafe
<1>1. ServiceInit => KeySafe
  BY InitKeySafe DEF ServiceInit
<1>2. KeySafe /\ [ServiceNext]_<<taskHookVars, tokenVars, keyVars>> => KeySafe'
  BY NextKeySafe
<1> QED  BY <1>1, <1>2, PTL DEF ServiceSpec

LEMMA EndsFollow ==
  ASSUME KeySafe, [ServiceNext]_<<taskHookVars, tokenVars, keyVars>>, NEW v \in Verifiers
  PROVE  /\ Fails(v) => key[v] \notin published
         /\ Passes(v) => key[v] \in published \/ clock - gone[key[v]] <= JwksTtl + 1
<1> SUFFICES ASSUME Ends(v), outages' = outages
             PROVE  /\ key[v] \notin clients'[using[v]].keys => key[v] \notin published
                    /\ key[v] \in clients'[using[v]].keys =>
                         key[v] \in published \/ clock - gone[key[v]] <= JwksTtl + 1
  BY DEF Fails, Passes
<1> USE DEF KeySafe
<1>1. FindKey(v)
  <2>1. ~(UNCHANGED keyVars \/ TimePasses \/ Rotate \/ Exchange \/ \E k \in Keys : Withdraw(k))
    BY DEF Ends, keyVars, verifyVars, TimePasses, Rotate, Exchange, Withdraw
  <2>2. ~\E x \in Verifiers, k \in Keys : PickClient(x, k)
    BY DEF Ends, PickClient, Start
  <2>3. ASSUME NEW x \in Verifiers, FindKeyError(x) PROVE FALSE
    <3>1. outages' = outages + 1 /\ outages \in Nat
      BY <2>3 DEF FindKeyError
    <3> QED  BY <3>1
  <2>4. \A x \in Verifiers : FindKey(x) => x = v
    BY DEF Ends, FindKey, Stop
  <2> QED  BY <2>1, <2>2, <2>3, <2>4, KeyStep
<1>2. PICK n \in 1 .. Len(clients) : n = using[v]
  BY DEF UsesYoung, Ends
<1>3. PICK c \in ClientRecords : c = clients[n]
  BY <1>2
<1>4. /\ c.made \in Nat /\ c.keys \subseteq Keys /\ ClientGood(c)
      /\ clock <= c.made + JwksTtl + 1
  <2>1. c.made \in Nat /\ c.keys \subseteq Keys /\ ClientGood(c)
    BY <1>2, <1>3 DEF ClientRecords
  <2>2. clock <= begun[v] + 1 /\ begun[v] <= c.made + JwksTtl
    BY <1>2, <1>3 DEF UsesYoung, Ends
  <2>3. clock \in Nat /\ begun[v] \in Nat /\ JwksTtl \in Nat
    BY KeyConstantsOK DEF KeyConstantsOK
  <2> QED  BY <2>1, <2>2, <2>3
<1>5. CASE Has(v)
  <2>1. clients' = clients /\ key[v] \in c.keys
    BY <1>1, <1>2, <1>3, <1>5 DEF FindKey, Has
  <2>2. key[v] \in published \/ gone[key[v]] >= c.made
    BY <1>4, <2>1 DEF ClientGood
  <2>3. gone[key[v]] \in Nat /\ clock \in Nat /\ JwksTtl \in Nat
    BY <1>4, <2>1, KeyConstantsOK DEF KeyConstantsOK
  <2>4. gone[key[v]] >= c.made => clock - gone[key[v]] <= JwksTtl + 1
    BY <1>4, <2>3
  <2>5. key[v] \in clients'[using[v]].keys
    BY <1>2, <1>3, <2>1
  <2> QED  BY <2>2, <2>4, <2>5
<1>6. CASE ~Has(v)
  <2>1. clients' = [clients EXCEPT ![n] = [c EXCEPT !.keys = published, !.read = clock]]
    BY <1>1, <1>2, <1>3, <1>6 DEF FindKey, Read
  <2>2. clients'[n].keys = published
    BY <2>1 DEF ClientRecords
  <2> QED  BY <1>2, <2>2
<1> QED  BY <1>5, <1>6

(* A token of a published key is refused only when Hydra does not answer,    *)
(* and one of a withdrawn key is accepted no longer than the lifetime of the *)
(* cached client and a request, whatever the lifetime of its key set, and    *)
(* however many verifications share and replace the client.                  *)
THEOREM KeysAlwaysFollowed == ServiceSpec => KeysFollowed
<1>1. KeySafe /\ [ServiceNext]_<<taskHookVars, tokenVars, keyVars>> =>
        [\A v \in Verifiers :
           /\ Fails(v) => key[v] \notin published
           /\ Passes(v) => key[v] \in published \/ clock - gone[key[v]] <= JwksTtl + 1]_keyVars
  BY EndsFollow
<1> QED  BY <1>1, AlwaysKeySafe, PTL DEF ServiceSpec, KeysFollowed

-----------------------------------------------------------------------------
(* The days of the buckets *)

LEMMA DivBounds ==
  ASSUME NEW n \in Nat, NEW p \in Nat \ {0}
  PROVE  n \div p \in Nat /\ p * (n \div p) <= n /\ n < p * (n \div p) + p
OBVIOUS

LEMMA DivBelow ==
  ASSUME NEW m \in Nat, NEW n \in Nat, NEW p \in Nat \ {0}, NEW k \in Nat, m < p * (n \div p) + p + p * k
  PROVE  m \div p <= (n \div p) + k
<1> DEFINE a == m \div p
           b == n \div p
<1>1. a \in Nat /\ b \in Nat /\ p * a <= m
  BY DivBounds
<1>2. a >= b + k + 1 => p * a >= p * (b + k + 1)
  BY <1>1
<1>3. p * (b + k + 1) = p * b + p + p * k
  BY <1>1
<1> QED  BY <1>1, <1>2, <1>3

LEMMA DayFacts ==
  /\ \A n \in Nat : Day(n) \in Nat
  /\ \A m, n \in Nat : m <= n => Day(m) <= Day(n)
  /\ \A m, n \in Nat : m < n + OneDay => Day(m) <= Day(n) + 1
  /\ \A n \in Nat : n <= Horizon => Day(n) \in Days
  /\ \A n \in Nat : OneDay <= n => Day(n) >= 1
<1> USE TokenConstantsOK DEF TokenConstantsOK
<1>1. \A n \in Nat : Day(n) \in Nat
  BY DivBounds DEF Day
<1>2. ASSUME NEW m \in Nat, NEW n \in Nat, m <= n PROVE Day(m) <= Day(n)
  <2>1. m < OneDay * (n \div OneDay) + OneDay + OneDay * 0
    BY <1>2, DivBounds
  <2>2. m \div OneDay <= (n \div OneDay) + 0
    BY <2>1, DivBelow
  <2> QED  BY <2>2, DivBounds DEF Day
<1>3. ASSUME NEW m \in Nat, NEW n \in Nat, m < n + OneDay PROVE Day(m) <= Day(n) + 1
  <2>1. m < OneDay * (n \div OneDay) + OneDay + OneDay * 1
    BY <1>3, DivBounds
  <2>2. m \div OneDay <= (n \div OneDay) + 1
    BY <2>1, DivBelow
  <2> QED  BY <2>2 DEF Day
<1>4. \A n \in Nat : n <= Horizon => Day(n) \in Days
  BY <1>1, <1>2 DEF Day, Days
<1>5. ASSUME NEW n \in Nat, OneDay <= n PROVE Day(n) >= 1
  <2>1. n \div OneDay \in Nat /\ n < OneDay * (n \div OneDay) + OneDay
    BY DivBounds
  <2>2. n \div OneDay = 0 => OneDay * (n \div OneDay) = 0
    OBVIOUS
  <2> QED  BY <1>5, <2>1, <2>2 DEF Day
<1> QED  BY <1>1, <1>2, <1>3, <1>4, <1>5

-----------------------------------------------------------------------------
(* The tokens and their revocations *)

TokenSteps == {"idle", "check", "fallback", "through", "refused", "accepted", "insert"}

TokenTypes ==
  /\ now \in Nat /\ OneDay <= now /\ now <= Horizon
  /\ expiry \in [Tokens -> Nat]
  /\ rows \subseteq [jti : Tokens, at : Nat] /\ loading \subseteq rows
  /\ bucket \in [Days -> SUBSET Tokens] /\ until \in [Days -> Nat]
  /\ pc \in [Requests -> TokenSteps] /\ bearer \in [Requests -> Tokens \cup {NoToken}]
  /\ since \in [Requests -> Nat] /\ known \in [Requests -> BOOLEAN]
  /\ tried \subseteq Tokens /\ mishaps \in Nat

(* No bucket and no row holds a token whose revocation was not begun, and a  *)
(* token lives for Life from a time before its revocation.                   *)
RevocationsTrue ==
  /\ \A j \in Tokens : expiry[j] <= now + Life
  /\ \A j \in tried : expiry[j] > 0
  /\ \A d \in Days : bucket[d] \subseteq tried
  /\ \A row \in rows : row.jti \in tried /\ row.at <= now /\ expiry[row.jti] <= row.at + Life
  /\ \A j \in revoked : j \in tried /\ \E row \in rows : row.jti = j

RequestTrue(r) ==
  /\ pc[r] # "idle" => /\ bearer[r] \in Tokens /\ expiry[bearer[r]] > 0
                       /\ OneDay <= since[r] /\ since[r] <= now
  /\ pc[r] \in {"insert", "through"} => bearer[r] \in tried
  /\ known[r] => bearer[r] \in revoked

(* The bucket of day d outlives token j. *)
Kept(j, d) == j \in bucket[d] /\ expiry[j] <= until[d]

(* What Redis has not missed or lost is in the bucket of a day that is still *)
(* looked up when the token expires.                                         *)
Bucketed(j) ==
  expiry[j] > now =>
    \E d \in Days : Kept(j, d) /\ d <= Day(now) /\ Day(expiry[j] - 1) <= d + 1

(* And a request that knows of the revocation looks into that bucket. *)
FindsIt(r) ==
  known[r] /\ pc[r] = "check" /\ expiry[bearer[r]] > now =>
    \E d \in Days : d \in LookupDays(since[r]) /\ Kept(bearer[r], d)

TokenSafe ==
  /\ TokenTypes /\ RevocationsTrue
  /\ \A r \in Requests : RequestTrue(r) /\ FindsIt(r)
  /\ \A j \in tried \ gap : Bucketed(j)

LEMMA InitTokenSafe == TokenInit => TokenSafe
<1> SUFFICES ASSUME TokenInit PROVE TokenSafe
  OBVIOUS
<1> USE DEF TokenInit
<1>1. TokenTypes
  BY TokenConstantsOK DEF TokenConstantsOK, TokenTypes, TokenSteps
<1>2. RevocationsTrue
  BY TokenConstantsOK DEF TokenConstantsOK, RevocationsTrue
<1>3. \A r \in Requests : RequestTrue(r) /\ FindsIt(r)
  BY DEF RequestTrue, FindsIt
<1> QED  BY <1>1, <1>2, <1>3 DEF TokenSafe

KeepsLive(j) == \A d \in Days : Kept(j, d) /\ expiry[j] > now' => Kept(j, d)'

(* What a step has to show: of the tokens it issues, revokes, brings back or *)
(* loses (L), and of the requests that move in it (S).                       *)
Shows(L, S) ==
  /\ TokenTypes' /\ RevocationsTrue'
  /\ now <= now' /\ tried \subseteq tried' /\ revoked \subseteq revoked'
  /\ \A j \in Tokens : expiry[j] > 0 => expiry'[j] = expiry[j]
  /\ \A j \in Tokens \ L : KeepsLive(j)
  /\ L \subseteq gap'
  /\ \A r \in Requests \ S : /\ pc'[r] = pc[r] /\ bearer'[r] = bearer[r] /\ since'[r] = since[r]
                             /\ known'[r] => known[r] /\ bearer[r] \notin L
  /\ \A r \in S : RequestTrue(r)' /\ FindsIt(r)'
  /\ \A j \in tried' \ gap' : j \in tried \ gap \/ Bucketed(j)'

LEMMA TokenStepKeeps ==
  ASSUME TokenSafe, NEW L, NEW S, Shows(L, S)
  PROVE  TokenSafe'
<1> USE DEF Shows
<1>1. TokenTypes /\ RevocationsTrue /\ now \in Nat /\ now' \in Nat
  BY DEF TokenSafe, TokenTypes
<1>2. ASSUME NEW r \in Requests, r \notin S PROVE RequestTrue(r)'
  <2>1. /\ RequestTrue(r) /\ pc'[r] = pc[r] /\ bearer'[r] = bearer[r] /\ since'[r] = since[r]
        /\ known'[r] => known[r]
    BY <1>2 DEF TokenSafe
  <2>2. CASE pc[r] # "idle"
    <3>1. bearer[r] \in Tokens /\ expiry'[bearer[r]] = expiry[bearer[r]] /\ since[r] <= now'
      BY <1>1, <2>1, <2>2 DEF RequestTrue, TokenTypes
    <3> QED  BY <2>1, <2>2, <3>1 DEF RequestTrue
  <2>3. CASE pc[r] = "idle"
    BY <2>1, <2>3 DEF RequestTrue
  <2> QED  BY <2>2, <2>3
<1>3. ASSUME NEW r \in Requests, r \notin S PROVE FindsIt(r)'
  <2> SUFFICES ASSUME known'[r], pc'[r] = "check", expiry'[bearer'[r]] > now'
               PROVE  \E d \in Days : /\ d \in LookupDays(since'[r]) /\ bearer'[r] \in bucket'[d]
                                      /\ expiry'[bearer'[r]] <= until'[d]
    BY DEF FindsIt, Kept, LookupDays, Day
  <2>1. /\ RequestTrue(r) /\ FindsIt(r) /\ pc[r] = "check" /\ known[r] /\ bearer[r] \notin L
        /\ bearer'[r] = bearer[r] /\ since'[r] = since[r]
    BY <1>3 DEF TokenSafe
  <2>2. /\ bearer[r] \in Tokens /\ expiry'[bearer[r]] = expiry[bearer[r]]
        /\ expiry[bearer[r]] \in Nat
    BY <1>1, <2>1 DEF RequestTrue, TokenTypes
  <2>3. expiry[bearer[r]] > now' /\ expiry[bearer[r]] > now
    BY <1>1, <2>1, <2>2
  <2>4. PICK d \in Days : d \in LookupDays(since[r]) /\ Kept(bearer[r], d)
    BY <2>1, <2>3 DEF FindsIt
  <2>5. PICK j \in Tokens : j = bearer[r]
    BY <2>2
  <2>6. Kept(j, d)'
    BY <2>1, <2>3, <2>4, <2>5 DEF KeepsLive
  <2>7. bearer'[r] \in bucket'[d] /\ expiry'[bearer'[r]] <= until'[d]
    BY <2>1, <2>5, <2>6 DEF Kept
  <2> QED  BY <2>1, <2>4, <2>7
<1>4. ASSUME NEW j \in tried' \ gap', j \in tried \ gap PROVE Bucketed(j)'
  <2> SUFFICES ASSUME expiry'[j] > now'
               PROVE  \E d \in Days : Kept(j, d)' /\ d <= Day(now') /\ Day(expiry'[j] - 1) <= d + 1
    BY DEF Bucketed, Day
  <2>1. /\ j \in Tokens /\ expiry'[j] = expiry[j] /\ expiry[j] \in Nat /\ j \notin L
        /\ expiry[j] > now' /\ expiry[j] > now
    BY <1>1, <1>4 DEF RevocationsTrue, TokenTypes
  <2>2. PICK d \in Days : Kept(j, d) /\ d <= Day(now) /\ Day(expiry[j] - 1) <= d + 1
    BY <1>4, <2>1 DEF TokenSafe, Bucketed
  <2>3. Kept(j, d)'
    BY <2>1, <2>2 DEF KeepsLive
  <2>4. d <= Day(now')
    <3>1. Day(now) \in Nat /\ Day(now') \in Nat /\ Day(now) <= Day(now') /\ d \in Int
      BY <1>1, DayFacts DEF Days
    <3> QED  BY <2>2, <3>1
  <2> QED  BY <2>1, <2>2, <2>3, <2>4
<1> QED  BY <1>2, <1>3, <1>4 DEF TokenSafe

LEMMA Added ==
  ASSUME TokenSafe, NEW d \in Days, NEW js \in SUBSET Tokens, AddTo(d, js), UNCHANGED <<now, expiry>>
  PROVE  /\ bucket' \in [Days -> SUBSET Tokens] /\ until' \in [Days -> Nat]
         /\ \A x \in Days : bucket'[x] \subseteq bucket[x] \cup js
         /\ \A j \in Tokens : KeepsLive(j)
         /\ \A j \in js : Kept(j, d)'
<1>1. /\ bucket \in [Days -> SUBSET Tokens] /\ until \in [Days -> Nat] /\ now \in Nat
      /\ BucketTtl \in Nat /\ Life \in Nat /\ Life <= BucketTtl /\ expiry \in [Tokens -> Nat]
  BY TokenConstantsOK, BucketsOutlast DEF TokenSafe, TokenTypes, TokenConstantsOK, BucketsOutlast
<1>2. /\ bucket'[d] = bucket[d] \cup js /\ until'[d] = now + BucketTtl
      /\ \A x \in Days \ {d} : bucket'[x] = bucket[x] /\ until'[x] = until[x]
  BY <1>1 DEF AddTo
<1>3. \A j \in Tokens : expiry'[j] <= until'[d]
  <2>1. \A j \in Tokens : expiry[j] \in Nat /\ expiry[j] <= now + Life
    BY <1>1 DEF TokenSafe, RevocationsTrue
  <2> QED  BY <1>1, <1>2, <2>1
<1>4. bucket' \in [Days -> SUBSET Tokens] /\ until' \in [Days -> Nat]
  BY <1>1 DEF AddTo
<1>5. \A j \in Tokens : KeepsLive(j)
  BY <1>2, <1>3 DEF KeepsLive, Kept
<1>6. \A j \in js : Kept(j, d)'
  BY <1>2, <1>3 DEF Kept
<1> QED  BY <1>2, <1>4, <1>5, <1>6

LEMMA TodayCovers ==
  ASSUME TokenSafe
  PROVE  /\ Day(now) \in Days /\ Day(now) <= Day(now)
         /\ \A j \in Tokens : expiry[j] > now => Day(expiry[j] - 1) <= Day(now) + 1
<1>1. now \in Nat /\ now <= Horizon /\ expiry \in [Tokens -> Nat]
  BY DEF TokenSafe, TokenTypes
<1>2. Day(now) \in Days /\ Day(now) \in Nat
  BY <1>1, DayFacts
<1>3. ASSUME NEW j \in Tokens, expiry[j] > now PROVE Day(expiry[j] - 1) <= Day(now) + 1
  <2>1. expiry[j] \in Nat /\ expiry[j] <= now + Life /\ Life \in Nat /\ Life <= OneDay /\ OneDay \in Nat
    BY <1>1, TokenConstantsOK DEF TokenSafe, RevocationsTrue, TokenConstantsOK
  <2>2. expiry[j] - 1 \in Nat /\ expiry[j] - 1 < now + OneDay
    BY <1>1, <1>3, <2>1
  <2> QED  BY <1>1, <2>2, DayFacts
<1> QED  BY <1>2, <1>3

-----------------------------------------------------------------------------
(* The steps of time, tokens and Redis *)

LEMMA TickKeeps ==
  ASSUME TokenSafe, Tick
  PROVE  TokenSafe'
<1>1. /\ now < Horizon /\ now' = now + 1
      /\ bucket' = [d \in Days |-> IF until[d] <= now' THEN {} ELSE bucket[d]]
      /\ until' = [d \in Days |-> IF until[d] <= now' THEN 0 ELSE until[d]]
      /\ UNCHANGED <<expiry, rows, pc, bearer, since, known, loading, revoked, tried, gap, mishaps>>
  BY DEF Tick, callVars, ghostVars
<1>2. TokenTypes /\ RevocationsTrue /\ now \in Nat /\ now' \in Nat /\ now <= now'
      /\ OneDay <= now' /\ now' <= Horizon
  BY <1>1, TokenConstantsOK DEF TokenSafe, TokenTypes, TokenConstantsOK
<1>3. TokenTypes'
  BY <1>1, <1>2 DEF TokenTypes
<1>4. RevocationsTrue'
  <2>1. \A j \in Tokens : expiry[j] \in Nat /\ expiry[j] <= now + Life /\ Life \in Nat
    BY <1>2, TokenConstantsOK DEF TokenTypes, RevocationsTrue, TokenConstantsOK
  <2>2. \A j \in Tokens : expiry'[j] <= now' + Life
    BY <1>1, <1>2, <2>1
  <2>3. \A row \in rows : row.at \in Nat
    BY <1>2 DEF TokenTypes
  <2> QED  BY <1>1, <1>2, <2>2, <2>3 DEF RevocationsTrue
<1>5. \A j \in Tokens \ {} : KeepsLive(j)
  <2>1. ASSUME NEW j \in Tokens, NEW d \in Days, Kept(j, d), expiry[j] > now' PROVE Kept(j, d)'
    <3>1. expiry[j] \in Nat /\ until[d] \in Nat
      BY <1>2 DEF TokenTypes
    <3>2. ~(until[d] <= now')
      BY <1>2, <2>1, <3>1 DEF Kept
    <3> QED  BY <1>1, <2>1, <3>2 DEF Kept
  <2> QED  BY <2>1 DEF KeepsLive
<1>6. \A r \in Requests \ {} : /\ pc'[r] = pc[r] /\ bearer'[r] = bearer[r] /\ since'[r] = since[r]
                               /\ known'[r] => known[r] /\ bearer[r] \notin {}
  BY <1>1
<1>7. Shows({}, {})
  BY <1>1, <1>2, <1>3, <1>4, <1>5, <1>6 DEF Shows
<1> QED  BY <1>7, TokenStepKeeps

LEMMA IssueKeeps ==
  ASSUME TokenSafe, NEW j \in Tokens, Issue(j)
  PROVE  TokenSafe'
<1>1. /\ expiry[j] = 0 /\ expiry' = [expiry EXCEPT ![j] = now + Life]
      /\ UNCHANGED <<now, rows, bucket, until, pc, bearer, since, known, loading, revoked, tried,
                     gap, mishaps>>
  BY DEF Issue, bucketVars, callVars, ghostVars
<1>2. /\ TokenTypes /\ RevocationsTrue /\ now \in Nat /\ Life \in Nat
      /\ expiry \in [Tokens -> Nat]
  BY TokenConstantsOK DEF TokenSafe, TokenTypes, TokenConstantsOK
<1>3. /\ expiry' \in [Tokens -> Nat] /\ expiry'[j] = now + Life
      /\ \A i \in Tokens : expiry[i] > 0 => i # j /\ expiry'[i] = expiry[i]
      /\ \A i \in Tokens \ {j} : expiry'[i] = expiry[i]
  BY <1>1, <1>2
<1>4. TokenTypes'
  BY <1>1, <1>2, <1>3 DEF TokenTypes
<1>5. \A i \in tried : i \in Tokens /\ expiry'[i] = expiry[i]
  BY <1>2, <1>3 DEF TokenTypes, RevocationsTrue
<1>6. RevocationsTrue'
  <2>1. \A i \in Tokens : expiry'[i] <= now' + Life
    BY <1>1, <1>2, <1>3 DEF RevocationsTrue
  <2>2. \A row \in rows : row.jti \in tried /\ row.at <= now /\ expiry'[row.jti] <= row.at + Life
    BY <1>2, <1>5 DEF RevocationsTrue
  <2> QED  BY <1>1, <1>2, <1>5, <2>1, <2>2 DEF RevocationsTrue
<1>7. \A i \in Tokens \ {} : KeepsLive(i)
  <2>1. ASSUME NEW i \in Tokens, NEW d \in Days, Kept(i, d) PROVE Kept(i, d)'
    <3>1. i \in tried
      BY <1>2, <2>1 DEF Kept, RevocationsTrue
    <3> QED  BY <1>1, <1>5, <2>1, <3>1 DEF Kept
  <2> QED  BY <2>1 DEF KeepsLive
<1>8. \A r \in Requests \ {} : /\ pc'[r] = pc[r] /\ bearer'[r] = bearer[r] /\ since'[r] = since[r]
                               /\ known'[r] => known[r] /\ bearer[r] \notin {}
  BY <1>1
<1>9. Shows({}, {})
  BY <1>1, <1>2, <1>3, <1>4, <1>6, <1>7, <1>8 DEF Shows
<1> QED  BY <1>9, TokenStepKeeps

LEMMA RedisLossKeeps ==
  ASSUME TokenSafe, NEW j \in Tokens, RedisLoss(j)
  PROVE  TokenSafe'
<1>1. /\ bucket' = [d \in Days |-> bucket[d] \ {j}] /\ gap' = gap \cup {j}
      /\ known' = [r \in Requests |-> known[r] /\ bearer[r] # j] /\ mishaps' = mishaps + 1
      /\ UNCHANGED <<now, expiry, rows, until, pc, bearer, since, loading, revoked, tried>>
  BY DEF RedisLoss, Mishap
<1>2. TokenTypes /\ RevocationsTrue /\ now \in Nat
  BY DEF TokenSafe, TokenTypes
<1>3. TokenTypes'
  BY <1>1, <1>2 DEF TokenTypes
<1>4. RevocationsTrue'
  BY <1>1, <1>2 DEF RevocationsTrue
<1>5. \A i \in Tokens \ {j} : KeepsLive(i)
  BY <1>1 DEF KeepsLive, Kept
<1>6. \A r \in Requests \ {} : /\ pc'[r] = pc[r] /\ bearer'[r] = bearer[r] /\ since'[r] = since[r]
                               /\ known'[r] => known[r] /\ bearer[r] \notin {j}
  BY <1>1
<1>7. Shows({j}, {})
  BY <1>1, <1>2, <1>3, <1>4, <1>5, <1>6 DEF Shows
<1> QED  BY <1>7, TokenStepKeeps

LEMMA BeginKeeps ==
  ASSUME TokenSafe, NEW r \in Requests, NEW j \in Tokens, Begin(r, j)
  PROVE  TokenSafe'
<1>1. /\ expiry[j] > now
      /\ pc' = [pc EXCEPT ![r] = "check"] /\ bearer' = [bearer EXCEPT ![r] = j]
      /\ since' = [since EXCEPT ![r] = now] /\ known' = [known EXCEPT ![r] = j \in revoked \ gap]
      /\ UNCHANGED <<now, expiry, rows, bucket, until, loading, revoked, tried, gap, mishaps>>
  BY DEF Begin, bucketVars, ghostVars
<1>2. TokenTypes /\ RevocationsTrue /\ now \in Nat /\ expiry[j] \in Nat
  BY DEF TokenSafe, TokenTypes
<1>3. TokenTypes'
  BY <1>1, <1>2 DEF TokenTypes, TokenSteps
<1>4. RevocationsTrue'
  BY <1>1, <1>2 DEF RevocationsTrue
<1>5. \A i \in Tokens \ {} : KeepsLive(i)
  BY <1>1 DEF KeepsLive, Kept
<1>6. /\ pc'[r] = "check" /\ bearer'[r] = j /\ since'[r] = now /\ (known'[r] <=> j \in revoked \ gap)
      /\ \A x \in Requests \ {r} : /\ pc'[x] = pc[x] /\ bearer'[x] = bearer[x] /\ since'[x] = since[x]
                                   /\ known'[x] => known[x] /\ bearer[x] \notin {}
  BY <1>1, <1>2 DEF TokenTypes
<1>7. RequestTrue(r)'
  BY <1>1, <1>2, <1>6 DEF RequestTrue, TokenTypes
<1>8. FindsIt(r)'
  <2> SUFFICES ASSUME j \in revoked \ gap
               PROVE  \E d \in Days : d \in LookupDays(now) /\ Kept(j, d)
    BY <1>1, <1>6 DEF FindsIt, Kept, LookupDays, Day
  <2>1. j \in tried \ gap
    BY <1>2 DEF RevocationsTrue
  <2>2. PICK d \in Days : Kept(j, d) /\ d <= Day(now) /\ Day(expiry[j] - 1) <= d + 1
    BY <1>1, <2>1 DEF TokenSafe, Bucketed
  <2>3. Day(now) <= Day(expiry[j] - 1) /\ Day(now) \in Nat /\ Day(expiry[j] - 1) \in Nat /\ d \in Int
    <3>1. expiry[j] - 1 \in Nat /\ now <= expiry[j] - 1
      BY <1>1, <1>2
    <3> QED  BY <1>2, <3>1, DayFacts DEF Days
  <2>4. d = Day(now) \/ d = Day(now) - 1
    BY <2>2, <2>3
  <2> QED  BY <2>2, <2>4 DEF LookupDays
<1>9. Shows({}, {r})
  BY <1>1, <1>2, <1>3, <1>4, <1>5, <1>6, <1>7, <1>8 DEF Shows
<1> QED  BY <1>9, TokenStepKeeps

-----------------------------------------------------------------------------
(* The steps of a request *)

Goes(r, step) == Go(r, step) \/ (step = "idle" /\ End(r))

LEMMA GoesOnly ==
  ASSUME TokenSafe, NEW r \in Requests, pc[r] # "idle",
         NEW step \in TokenSteps \ {"check"}, Goes(r, step),
         UNCHANGED <<now, expiry>>, tried \subseteq tried', revoked \subseteq revoked',
         step \in {"insert", "through"} => bearer[r] \in tried'
  PROVE  /\ pc' \in [Requests -> TokenSteps] /\ bearer' \in [Requests -> Tokens \cup {NoToken}]
         /\ since' \in [Requests -> Nat] /\ known' \in [Requests -> BOOLEAN]
         /\ \A x \in Requests \ {r} : /\ pc'[x] = pc[x] /\ bearer'[x] = bearer[x] /\ since'[x] = since[x]
                                      /\ known'[x] => known[x] /\ bearer[x] \notin {}
         /\ \A x \in {r} : RequestTrue(x)' /\ FindsIt(x)'
<1>1. TokenTypes /\ RequestTrue(r)
  BY DEF TokenSafe
<1>2. CASE Go(r, step)
  <2>1. /\ pc' = [pc EXCEPT ![r] = step] /\ UNCHANGED <<bearer, since, known>>
        /\ pc'[r] = step
    BY <1>1, <1>2 DEF Go, TokenTypes
  <2>2. RequestTrue(r)' /\ FindsIt(r)'
    BY <1>1, <2>1 DEF RequestTrue, FindsIt, TokenSteps
  <2> QED  BY <1>1, <2>1, <2>2 DEF TokenTypes
<1>3. CASE step = "idle" /\ End(r)
  <2>1. /\ pc' = [pc EXCEPT ![r] = "idle"] /\ bearer' = [bearer EXCEPT ![r] = NoToken]
        /\ since' = [since EXCEPT ![r] = 0] /\ known' = [known EXCEPT ![r] = FALSE]
        /\ pc'[r] = "idle" /\ ~known'[r]
    BY <1>1, <1>3 DEF End, TokenTypes
  <2>2. RequestTrue(r)' /\ FindsIt(r)'
    BY <2>1 DEF RequestTrue, FindsIt
  <2> QED  BY <1>1, <2>1, <2>2 DEF TokenTypes, TokenSteps
<1> QED  BY <1>2, <1>3 DEF Goes

(* A step of a request that leaves the buckets alone. *)
LEMMA RequestKeeps ==
  ASSUME TokenSafe, NEW r \in Requests, pc[r] # "idle",
         NEW step \in TokenSteps \ {"check"}, Goes(r, step),
         UNCHANGED <<now, expiry, bucket, until, loading, tried, gap>>,
         step \in {"insert", "through"} => bearer[r] \in tried,
         \/ UNCHANGED <<rows, revoked>>
         \/ /\ bearer[r] \in tried /\ rows' = rows \cup {[jti |-> bearer[r], at |-> now]}
            /\ revoked' \in {revoked, revoked \cup {bearer[r]}},
         mishaps' \in {mishaps, mishaps + 1}
  PROVE  TokenSafe'
<1>1. TokenTypes /\ RevocationsTrue /\ now \in Nat
  BY DEF TokenSafe, TokenTypes
<1>2. /\ pc' \in [Requests -> TokenSteps] /\ bearer' \in [Requests -> Tokens \cup {NoToken}]
      /\ since' \in [Requests -> Nat] /\ known' \in [Requests -> BOOLEAN]
      /\ \A x \in Requests \ {r} : /\ pc'[x] = pc[x] /\ bearer'[x] = bearer[x] /\ since'[x] = since[x]
                                   /\ known'[x] => known[x] /\ bearer[x] \notin {}
      /\ \A x \in {r} : RequestTrue(x)' /\ FindsIt(x)'
  BY GoesOnly
<1>3. rows \subseteq rows' /\ rows' \subseteq [jti : Tokens, at : Nat] /\ mishaps' \in Nat
  BY <1>1 DEF TokenTypes
<1>4. TokenTypes'
  BY <1>1, <1>2, <1>3 DEF TokenTypes
<1>5. RevocationsTrue'
  <2>1. CASE UNCHANGED <<rows, revoked>>
    BY <1>1, <2>1 DEF RevocationsTrue
  <2>2. CASE /\ bearer[r] \in tried /\ rows' = rows \cup {[jti |-> bearer[r], at |-> now]}
             /\ revoked' \in {revoked, revoked \cup {bearer[r]}}
    <3>1. \A row \in rows' : row.jti \in tried /\ row.at <= now /\ expiry[row.jti] <= row.at + Life
      BY <1>1, <2>2 DEF RevocationsTrue, TokenTypes
    <3>2. ASSUME NEW j \in revoked' PROVE j \in tried /\ \E row \in rows' : row.jti = j
      <4>1. CASE j \in revoked
        BY <1>1, <1>3, <4>1 DEF RevocationsTrue
      <4>2. CASE j = bearer[r]
        <5>1. PICK row : row = [jti |-> bearer[r], at |-> now]
          OBVIOUS
        <5>2. row \in rows' /\ row.jti = j
          BY <2>2, <4>2, <5>1
        <5> QED  BY <2>2, <4>2, <5>2
      <4> QED  BY <2>2, <4>1, <4>2
    <3> QED  BY <1>1, <3>1, <3>2 DEF RevocationsTrue
  <2> QED  BY <2>1, <2>2
<1>6. \A j \in Tokens \ {} : KeepsLive(j)
  BY DEF KeepsLive, Kept
<1>7. Shows({}, {r})
  BY <1>1, <1>2, <1>4, <1>5, <1>6 DEF Shows
<1> QED  BY <1>7, TokenStepKeeps

LEMMA LookKeepsTokens ==
  ASSUME TokenSafe, NEW r \in Requests,
         CheckRedis(r) \/ CheckRedisError(r) \/ CheckPostgres(r) \/ Answer(r)
  PROVE  TokenSafe'
<1>1. /\ pc[r] # "idle" /\ UNCHANGED <<now, expiry, bucket, until, loading, tried, gap, rows, revoked>>
      /\ mishaps' \in {mishaps, mishaps + 1}
  BY DEF CheckRedis, CheckRedisError, CheckPostgres, Answer, Mishap, bucketVars, ghostVars
<1>2. CASE Go(r, "refused") \/ Go(r, "accepted") \/ Go(r, "fallback")
  BY <1>1, <1>2, RequestKeeps DEF Goes, TokenSteps
<1>3. CASE Go(r, "through") /\ \E row \in rows : row.jti = bearer[r]
  BY <1>1, <1>3, RequestKeeps DEF Goes, TokenSteps, TokenSafe, RevocationsTrue
<1>4. CASE End(r)
  BY <1>1, <1>4, RequestKeeps DEF Goes, TokenSteps
<1> QED  BY <1>2, <1>3, <1>4 DEF CheckRedis, CheckRedisError, CheckPostgres, Answer

LEMMA InsertKeeps ==
  ASSUME TokenSafe, NEW r \in Requests, RevokeInsert(r) \/ RevokeError(r)
  PROVE  TokenSafe'
<1>1. /\ pc[r] # "idle" /\ bearer[r] \in tried /\ Goes(r, "idle")
      /\ UNCHANGED <<now, expiry, bucket, until, loading, tried, gap>>
      /\ mishaps' \in {mishaps, mishaps + 1}
  BY DEF RevokeInsert, RevokeError, Mishap, bucketVars, Goes, TokenSafe, RequestTrue
<1>2. \/ UNCHANGED <<rows, revoked>>
      \/ /\ rows' = rows \cup {[jti |-> bearer[r], at |-> now]}
         /\ revoked' \in {revoked, revoked \cup {bearer[r]}}
  BY DEF RevokeInsert, RevokeError
<1> QED  BY <1>1, <1>2, RequestKeeps DEF TokenSteps

(* SADD of a token whose revocation is begun or known to Postgres. *)
LEMMA AddKeeps ==
  ASSUME TokenSafe, NEW r \in Requests, pc[r] # "idle",
         NEW step \in {"refused", "insert"}, Go(r, step),
         UNCHANGED <<now, expiry, rows, loading, revoked>>,
         tried' = tried \cup {bearer[r]},
         \/ AddTo(Day(now), {bearer[r]}) /\ gap' = gap \ {bearer[r]} /\ UNCHANGED mishaps
         \/ UNCHANGED <<bucket, until>> /\ mishaps' = mishaps + 1
            /\ ((gap' = gap /\ tried' = tried) \/ gap' = gap \cup {bearer[r]})
  PROVE  TokenSafe'
<1>1. /\ TokenTypes /\ RevocationsTrue /\ now \in Nat
      /\ bearer[r] \in Tokens /\ expiry[bearer[r]] > 0
  BY DEF TokenSafe, TokenTypes, RequestTrue
<1>2. PICK j \in Tokens : j = bearer[r]
  BY <1>1
<1>3. /\ pc' \in [Requests -> TokenSteps] /\ bearer' \in [Requests -> Tokens \cup {NoToken}]
      /\ since' \in [Requests -> Nat] /\ known' \in [Requests -> BOOLEAN]
      /\ \A x \in Requests \ {r} : /\ pc'[x] = pc[x] /\ bearer'[x] = bearer[x] /\ since'[x] = since[x]
                                   /\ known'[x] => known[x] /\ bearer[x] \notin {}
      /\ \A x \in {r} : RequestTrue(x)' /\ FindsIt(x)'
  BY GoesOnly DEF Goes, TokenSteps
<1>4. /\ bucket' \in [Days -> SUBSET Tokens] /\ until' \in [Days -> Nat]
      /\ \A d \in Days : bucket'[d] \subseteq bucket[d] \cup {j}
      /\ \A i \in Tokens : KeepsLive(i)
      /\ j \in tried' \ gap' => j \in tried \ gap \/ Kept(j, Day(now))'
  <2>1. CASE AddTo(Day(now), {j})
    BY <1>1, <2>1, Added, TodayCovers
  <2>2. CASE UNCHANGED <<bucket, until>> /\ ((gap' = gap /\ tried' = tried) \/ gap' = gap \cup {j})
    BY <1>1, <2>2 DEF TokenTypes, KeepsLive, Kept
  <2> QED  BY <1>2, <2>1, <2>2
<1>5. TokenTypes'
  BY <1>1, <1>2, <1>3, <1>4 DEF TokenTypes
<1>6. RevocationsTrue'
  BY <1>1, <1>2, <1>4 DEF RevocationsTrue
<1>7. j \in tried' \ gap' => j \in tried \ gap \/ Bucketed(j)'
  <2> SUFFICES ASSUME Kept(j, Day(now))' PROVE Bucketed(j)'
    BY <1>4
  <2>1. expiry'[j] > now' => Kept(j, Day(now))' /\ Day(now) <= Day(now') /\ Day(expiry'[j] - 1) <= Day(now) + 1
    BY TodayCovers DEF Day
  <2> QED  BY <2>1, TodayCovers DEF Bucketed
<1>8. \A i \in tried' \ gap' : i \in tried \ gap \/ Bucketed(i)'
  BY <1>2, <1>7
<1>9. Shows({}, {r})
  BY <1>1, <1>3, <1>4, <1>5, <1>6, <1>8 DEF Shows
<1> QED  BY <1>9, TokenStepKeeps

LEMMA AddsKeep ==
  ASSUME TokenSafe, NEW r \in Requests, WriteThrough(r) \/ RevokeAdd(r)
  PROVE  TokenSafe'
<1>1. /\ pc[r] # "idle" /\ UNCHANGED <<now, expiry, rows, loading, revoked>>
      /\ Go(r, "refused") \/ Go(r, "insert")
  BY DEF WriteThrough, RevokeAdd
<1>2. tried' = tried \cup {bearer[r]}
  BY DEF WriteThrough, RevokeAdd, TokenSafe, RequestTrue
<1>3. \/ AddTo(Day(now), {bearer[r]}) /\ gap' = gap \ {bearer[r]} /\ UNCHANGED mishaps
      \/ /\ UNCHANGED <<bucket, until>> /\ mishaps' = mishaps + 1
         /\ (gap' = gap /\ tried' = tried) \/ gap' = gap \cup {bearer[r]}
  BY DEF WriteThrough, RevokeAdd, Mishap, bucketVars
<1> QED  BY <1>1, <1>2, <1>3, AddKeeps

-----------------------------------------------------------------------------
(* The start of an API process *)

LEMMA StartKeeps ==
  ASSUME TokenSafe, Load \/ StartFails
  PROVE  TokenSafe'
<1>1. /\ UNCHANGED <<now, expiry, rows, bucket, until, pc, bearer, since, known, revoked, tried, gap>>
      /\ loading' \in {{}, ActiveRows} /\ mishaps' \in {mishaps, mishaps + 1}
  BY DEF Load, StartFails, Mishap, bucketVars, callVars, ghostVars
<1>2. TokenTypes /\ RevocationsTrue /\ now \in Nat
  BY DEF TokenSafe, TokenTypes
<1>3. TokenTypes'
  BY <1>1, <1>2 DEF TokenTypes, ActiveRows
<1>4. RevocationsTrue'
  BY <1>1, <1>2 DEF RevocationsTrue
<1>5. \A j \in Tokens \ {} : KeepsLive(j)
  BY <1>1 DEF KeepsLive, Kept
<1>6. \A r \in Requests \ {} : /\ pc'[r] = pc[r] /\ bearer'[r] = bearer[r] /\ since'[r] = since[r]
                               /\ known'[r] => known[r] /\ bearer[r] \notin {}
  BY <1>1
<1>7. Shows({}, {})
  BY <1>1, <1>2, <1>3, <1>4, <1>5, <1>6 DEF Shows
<1> QED  BY <1>7, TokenStepKeeps

(* What it brings back is in the bucket of the day of its revocation. *)
LEMMA RehydrateKeeps ==
  ASSUME TokenSafe, Rehydrate
  PROVE  TokenSafe'
<1> DEFINE back(d) == {row.jti : row \in {l \in loading : Day(l.at) = d}}
           days == {Day(row.at) : row \in loading}
<1>1. /\ bucket' = [d \in Days |-> bucket[d] \cup back(d)]
      /\ until' = [d \in Days |-> IF d \in days THEN now + BucketTtl ELSE until[d]]
      /\ gap' = gap \ {row.jti : row \in loading} /\ loading' = {}
      /\ UNCHANGED <<now, expiry, rows, pc, bearer, since, known, revoked, tried, mishaps>>
  BY DEF Rehydrate, callVars
<1>2. /\ TokenTypes /\ RevocationsTrue /\ now \in Nat /\ expiry \in [Tokens -> Nat]
      /\ BucketTtl \in Nat /\ Life \in Nat /\ Life <= BucketTtl
      /\ \A j \in Tokens : expiry[j] <= now + Life
  BY TokenConstantsOK, BucketsOutlast
     DEF TokenSafe, TokenTypes, RevocationsTrue, TokenConstantsOK, BucketsOutlast
<1>3. ASSUME NEW row \in loading
      PROVE  /\ row.jti \in Tokens /\ row.jti \in tried /\ row.at \in Nat /\ row.at <= now
             /\ expiry[row.jti] <= row.at + Life
  BY <1>2 DEF TokenTypes, RevocationsTrue
<1>4. \A d \in Days : back(d) \subseteq tried /\ back(d) \subseteq Tokens
  BY <1>3
<1>5. TokenTypes'
  <2>1. bucket' \in [Days -> SUBSET Tokens]
    BY <1>1, <1>2, <1>4 DEF TokenTypes
  <2>2. until' \in [Days -> Nat]
    BY <1>1, <1>2 DEF TokenTypes
  <2> HIDE DEF back, days
  <2> QED  BY <1>1, <1>2, <2>1, <2>2 DEF TokenTypes
<1>6. RevocationsTrue'
  <2>1. \A d \in Days : bucket'[d] \subseteq tried
    BY <1>1, <1>2, <1>4 DEF RevocationsTrue
  <2> HIDE DEF back, days
  <2> QED  BY <1>1, <1>2, <2>1 DEF RevocationsTrue
<1>7. \A j \in Tokens \ {} : KeepsLive(j)
  <2>1. \A d \in Days : bucket[d] \subseteq bucket'[d] /\ until'[d] \in {until[d], now + BucketTtl}
    BY <1>1
  <2>2. \A j \in Tokens : expiry[j] <= now + BucketTtl
    BY <1>2
  <2> QED  BY <1>1, <2>1, <2>2 DEF KeepsLive, Kept
<1>8. ASSUME NEW row \in loading, expiry[row.jti] > now
      PROVE  \E d \in Days : /\ row.jti \in bucket'[d] /\ expiry[row.jti] <= until'[d]
                             /\ d <= Day(now) /\ Day(expiry[row.jti] - 1) <= d + 1
  <2>1. /\ row.jti \in Tokens /\ row.at \in Nat /\ row.at <= now /\ now <= Horizon
        /\ expiry[row.jti] \in Nat /\ expiry[row.jti] <= row.at + Life
        /\ Life <= OneDay /\ OneDay \in Nat
    BY <1>2, <1>3, TokenConstantsOK DEF TokenTypes, TokenConstantsOK
  <2>2. PICK d : d = Day(row.at)
    OBVIOUS
  <2>3. d \in Days /\ d <= Day(now)
    BY <1>2, <2>1, <2>2, TokenConstantsOK, DayFacts DEF TokenConstantsOK
  <2>4. Day(expiry[row.jti] - 1) <= d + 1
    <3>1. expiry[row.jti] - 1 \in Nat /\ expiry[row.jti] - 1 < row.at + OneDay
      BY <1>2, <1>8, <2>1
    <3> QED  BY <2>1, <2>2, <3>1, DayFacts
  <2>5. row.jti \in bucket'[d] /\ until'[d] = now + BucketTtl
    BY <1>1, <2>2, <2>3
  <2>6. expiry[row.jti] <= until'[d]
    BY <1>2, <2>1, <2>5
  <2> QED  BY <2>3, <2>4, <2>5, <2>6
<1> HIDE DEF back, days
<1>9. \A j \in tried' \ gap' : j \in tried \ gap \/ Bucketed(j)'
  <2> SUFFICES ASSUME NEW j \in tried' \ gap', j \in gap PROVE Bucketed(j)'
    BY <1>1
  <2>1. PICK row \in loading : j = row.jti
    BY <1>1
  <2> QED  BY <1>1, <1>8, <2>1 DEF Bucketed, Kept, Day
<1>10. \A r \in Requests \ {} : /\ pc'[r] = pc[r] /\ bearer'[r] = bearer[r] /\ since'[r] = since[r]
                                /\ known'[r] => known[r] /\ bearer[r] \notin {}
  BY <1>1
<1>11. Shows({}, {})
  BY <1>1, <1>2, <1>5, <1>6, <1>7, <1>9, <1>10 DEF Shows
<1> QED  BY <1>11, TokenStepKeeps

-----------------------------------------------------------------------------
LEMMA TokenStep ==
  ASSUME [ServiceNext]_<<taskHookVars, tokenVars, keyVars>>
  PROVE  TokenNext \/ UNCHANGED tokenVars
BY DEF ServiceNext

LEMMA NextTokenSafe ==
  ASSUME TokenSafe, [ServiceNext]_<<taskHookVars, tokenVars, keyVars>>
  PROVE  TokenSafe'
<1>1. CASE UNCHANGED tokenVars
  <2>1. UNCHANGED <<now, expiry, rows, bucket, until, pc, bearer, since, known, loading, revoked,
                    tried, gap, mishaps>>
    BY <1>1 DEF tokenVars, bucketVars, callVars, ghostVars
  <2>2. TokenTypes' /\ RevocationsTrue'
    BY <2>1 DEF TokenSafe, TokenTypes, RevocationsTrue
  <2>3. Shows({}, {})
    BY <2>1, <2>2 DEF Shows, KeepsLive, Kept, TokenSafe, TokenTypes
  <2> QED  BY <2>3, TokenStepKeeps
<1>2. CASE Tick \/ (\E j \in Tokens : Issue(j) \/ RedisLoss(j)) \/ Load \/ Rehydrate \/ StartFails
  BY <1>2, TickKeeps, IssueKeeps, RedisLossKeeps, StartKeeps, RehydrateKeeps
<1>3. ASSUME NEW r \in Requests,
             \/ \E j \in Tokens : Begin(r, j)
             \/ CheckRedis(r) \/ CheckRedisError(r) \/ CheckPostgres(r) \/ WriteThrough(r)
             \/ Answer(r)
             \/ RevokeAdd(r) \/ RevokeInsert(r) \/ RevokeError(r)
      PROVE  TokenSafe'
  BY <1>3, BeginKeeps, LookKeepsTokens, AddsKeep, InsertKeeps
<1> QED  BY <1>1, <1>2, <1>3, TokenStep DEF TokenNext

LEMMA AlwaysTokenSafe == ServiceSpec => []TokenSafe
<1>1. ServiceInit => TokenSafe
  BY InitTokenSafe DEF ServiceInit
<1>2. TokenSafe /\ [ServiceNext]_<<taskHookVars, tokenVars, keyVars>> => TokenSafe'
  BY NextTokenSafe
<1> QED  BY <1>1, <1>2, PTL DEF ServiceSpec

(* A request decides in one of these steps. *)
LEMMA Decides ==
  ASSUME TokenSafe, [ServiceNext]_<<taskHookVars, tokenVars, keyVars>>, NEW r \in Requests,
         Accepts(r) \/ Refuses(r)
  PROVE  CheckRedis(r) \/ CheckPostgres(r)
<1>1. /\ pc \in [Requests -> TokenSteps] /\ pc[r] \in {"check", "fallback"}
      /\ pc'[r] \in {"accepted", "refused", "through"}
  BY DEF TokenSafe, TokenTypes, Accepts, Refuses
<1>2. pc' # pc
  BY <1>1
<1>3. ~(UNCHANGED tokenVars \/ Tick \/ (\E j \in Tokens : Issue(j) \/ RedisLoss(j))
        \/ Load \/ Rehydrate \/ StartFails)
  BY <1>2 DEF tokenVars, Tick, Issue, RedisLoss, Load, Rehydrate, StartFails, callVars
<1>4. ASSUME NEW x \in Requests,
             \/ \E j \in Tokens : Begin(x, j)
             \/ CheckRedisError(x) \/ WriteThrough(x) \/ Answer(x)
             \/ RevokeAdd(x) \/ RevokeInsert(x) \/ RevokeError(x)
      PROVE  FALSE
  BY <1>1, <1>4 DEF Begin, CheckRedisError, WriteThrough, Answer, RevokeAdd, RevokeInsert,
                    RevokeError, Go, End
<1>5. \A x \in Requests : CheckRedis(x) \/ CheckPostgres(x) => x = r
  BY <1>1 DEF CheckRedis, CheckPostgres, Go
<1> QED  BY <1>3, <1>4, <1>5, TokenStep DEF TokenNext

LEMMA RevokedRefused ==
  ASSUME TokenSafe, [ServiceNext]_<<taskHookVars, tokenVars, keyVars>>, NEW r \in Requests
  PROVE  /\ Accepts(r) /\ known[r] => expiry[bearer[r]] <= now
         /\ Refuses(r) => bearer[r] \in tried
<1>1. /\ RequestTrue(r) /\ FindsIt(r) /\ RevocationsTrue /\ now \in Nat
      /\ expiry \in [Tokens -> Nat] /\ pc \in [Requests -> TokenSteps]
  BY DEF TokenSafe, TokenTypes
<1>2. ASSUME Accepts(r), known[r] PROVE expiry[bearer[r]] <= now
  <2>1. bearer[r] \in Tokens /\ expiry[bearer[r]] \in Nat /\ bearer[r] \in revoked
    BY <1>1, <1>2 DEF Accepts, RequestTrue
  <2>2. CASE CheckRedis(r)
    <3>1. \A d \in LookupDays(since[r]) : bearer[r] \notin bucket[d]
      BY <1>1, <1>2, <2>2 DEF CheckRedis, Accepts, Go
    <3>2. pc[r] = "check"
      BY <2>2 DEF CheckRedis
    <3>3. ~(expiry[bearer[r]] > now)
      BY <1>1, <1>2, <3>1, <3>2 DEF FindsIt, Kept
    <3> QED  BY <1>1, <2>1, <3>3
  <2>3. CASE CheckPostgres(r)
    <3>1. expiry[bearer[r]] <= now \/ \A row \in rows : row.jti # bearer[r]
      BY <1>1, <1>2, <2>3 DEF CheckPostgres, Accepts, Go
    <3> QED  BY <1>1, <2>1, <3>1 DEF RevocationsTrue
  <2> QED  BY <1>2, <2>2, <2>3, Decides
<1>3. ASSUME Refuses(r) PROVE bearer[r] \in tried
  <2>1. CASE CheckRedis(r)
    <3>1. PICK d \in LookupDays(since[r]) : bearer[r] \in bucket[d]
      BY <1>1, <1>3, <2>1 DEF CheckRedis, Refuses, Go
    <3>2. since[r] \in Nat /\ OneDay <= since[r] /\ since[r] <= Horizon
      <4>1. /\ since[r] \in Nat /\ OneDay <= since[r] /\ since[r] <= now
            /\ now \in Nat /\ now <= Horizon
        BY <1>1, <2>1 DEF CheckRedis, RequestTrue, TokenSafe, TokenTypes
      <4> QED  BY <4>1, TokenConstantsOK DEF TokenConstantsOK
    <3>3. Day(since[r]) \in Days /\ Day(since[r]) >= 1
      BY <3>2, DayFacts
    <3>4. d \in Days
      <4>1. Horizon \div OneDay \in Nat
        BY TokenConstantsOK, DivBounds DEF TokenConstantsOK
      <4> QED  BY <3>1, <3>3, <4>1 DEF LookupDays, Days
    <3> QED  BY <1>1, <3>1, <3>4 DEF RevocationsTrue
  <2>2. CASE CheckPostgres(r)
    BY <1>1, <1>3, <2>2 DEF CheckPostgres, Refuses, Go, RevocationsTrue
  <2> QED  BY <1>3, <2>1, <2>2, Decides
<1> QED  BY <1>2, <1>3

(* A revoked token is refused as long as it lives, whatever midnight the     *)
(* request, the revocation or the rehydration falls on, unless Redis missed  *)
(* or lost the revocation; and no other token is refused.                    *)
THEOREM RevokedAlwaysRefused == ServiceSpec => RevokedIsRefused
<1>1. TokenSafe /\ [ServiceNext]_<<taskHookVars, tokenVars, keyVars>> =>
        [\A r \in Requests :
           /\ Accepts(r) /\ known[r] => expiry[bearer[r]] <= now
           /\ Refuses(r) => bearer[r] \in tried]_tokenVars
  BY RevokedRefused
<1> QED  BY <1>1, AlwaysTokenSafe, PTL DEF ServiceSpec, RevokedIsRefused

=============================================================================

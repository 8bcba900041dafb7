------------------------ MODULE MCReservedCallbacks -------------------------
(* A finite instance of ReservedCallbacks: an inline submission, a queued    *)
(* batch of two tasks, and one user who can pay for all three, until an      *)
(* admin withdraws a credit, but may have two at a time.  It is cut into two *)
(* scenes: one with everything but webhooks, and one in which two cancels of *)
(* one task meet two dispatchers.                                            *)
EXTENDS ReservedCallbacks, TLC

CONSTANTS u1, r1, r2, t1, t2, t3, c1, c2, a1, w1, w2, d1, d2

OneUser == {u1}
TwoReqs == {r1, r2}
ThreeTasks == {t1, t2, t3}
TwoCancels == {c1, c2}
OneAdjust == {a1}
TwoWorkers == {w1, w2}
TwoDispatchers == {d1, d2}
FirstInline == {r1}

AllByUser == [r \in Reqs |-> u1]
NoKeys == [r \in Reqs |-> NoKey]
SingleBatch == [t \in Tasks |-> IF t = t1 THEN r1 ELSE r2]
ThreeCredits == [u \in Users |-> 3]
ToUser == [a \in Adjusts |-> u1]
Withdrawal == [a \in Adjusts |-> -1]
OfQueued == [c \in Cancels |-> t2]
Symmetric == Permutations(Workers) \cup Permutations(Dispatchers)

(* Without webhooks there is one cancel and no subscription. *)
CommandScene ==
  /\ ~webhooks
  /\ cpc'[c2] = "idle" /\ UNCHANGED sub

(* With them, the inline request, the admin, the relay, the workers and the  *)
(* watchdog stand still; a request may fail.                                 *)
CallbackScene ==
  /\ webhooks
  /\ rpc'[r1] = "idle"
  /\ UNCHANGED <<apc, published, linked, wpc, wdog>>
  /\ \A t \in Tasks : resv'[t] # "OVERDUE"

SceneNext == HookNext /\ (CommandScene \/ CallbackScene)

SceneSpec == HookInit /\ [][SceneNext]_<<vars, hookVars>>

=============================================================================

--------------------------- MODULE MCProjectedTask --------------------------
(* Finite instances of ProjectedTask: one user, a queued and an inline task. *)
EXTENDS ProjectedTask, TLC

CONSTANTS u1, r1, r2, t1, t2, k1, c1, a1, w1, w2

OneUser == {u1}
OneReq == {r1}
TwoReqs == {r1, r2}
OneTask == {t1}
TwoTasks == {t1, t2}
Nobody == {}
OneCancel == {c1}
OneAdjust == {a1}
OneWorker == {w1}
SecondInline == {r2}

AllByUser == [r \in Reqs |-> u1]
NoKeys == [r \in Reqs |-> NoKey]
RetriedKey == [r \in Reqs |-> k1]
OnePerReq == [t \in Tasks |-> IF t = t1 THEN r1 ELSE r2]
NoCredits == [u \in Users |-> 0]
OneCredit == [u \in Users |-> 1]
ToUser == [a \in Adjusts |-> u1]
Grant == [a \in Adjusts |-> 1]
OfFirst == [c \in Cancels |-> t1]

=============================================================================

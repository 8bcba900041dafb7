--------------------------- MODULE MCDurableTask ---------------------------
(* Finite instances of DurableTask: one or two users, tasks of cost 1. *)
EXTENDS DurableTask, TLC

CONSTANTS u1, u2, s1, s2, c1, c2, p1, a1, a2, a3, k1

OneUser == {u1}
TwoUsers == {u1, u2}
Nobody == {}
OneSub == {s1}
TwoSubs == {s1, s2}
OneCancel == {c1}
TwoCancels == {c1, c2}
OnePoll == {p1}
ThreeTopups == {a1, a2, a3}

AllOwned == [s \in Subs |-> u1]
SameKey == [s \in Subs |-> k1]
NoKeys == [s \in Subs |-> NoKey]
TwoCredits == [u \in Users |-> 2]
OneCredit == [u \in Users |-> 1]
RetriedTopup == [a \in Topups |-> k1]
ToUsers == [a \in Topups |-> IF a = a3 THEN u2 ELSE u1]

=============================================================================

---------------------------- MODULE MCLedgerRead ----------------------------
(* Finite instances of LedgerRead, one for each scene. *)
EXTENDS LedgerRead, TLC

CONSTANTS u1, k1, t1, t2, t3, c1, i1, w1, w2

OneUser == {u1}
ThreeTasks == {t1, t2, t3}
OneCancel == {c1}
OneTopup == {i1}
TwoWorkers == {w1, w2}

AllByUser == [t \in Tasks |-> u1]
KeyOfTwo == [t \in Tasks |-> IF t = t3 THEN NoKey ELSE k1]
TwoCredits == [u \in Users |-> 2]
ToUser == [i \in Topups |-> u1]
OfFirst == [c \in Cancels |-> t1]

Scene(who, fails, reads, builds) ==
  [cast |-> who, failures |-> fails, readers |-> reads, rebuilds |-> builds]

NineScenes ==
  {\* the command side: a retry with the same key, a cancel, a message delivered twice
   Scene({t1, t2, w1}, 1, FALSE, 0),
   Scene({t1, c1, w1, w2}, 1, FALSE, 0),
   Scene({t1, t2, c1, w1}, 0, FALSE, 0),
   Scene({t1, i1, w1}, 0, FALSE, 0),
   Scene({t1, t3, w1}, 0, FALSE, 0),
   \* with the readers
   Scene({t1, w1}, 1, TRUE, 0),
   Scene({t1, c1, w1}, 0, TRUE, 0),
   Scene({t1, w1}, 0, TRUE, 1),
   Scene({t1}, 1, TRUE, 1)}

=============================================================================

---------------------------- MODULE MCStreamTask ----------------------------
(* Finite instances of StreamTask, one for each scene. *)
EXTENDS StreamTask, TLC

CONSTANTS u1, k1, t1, t2, c1, a1, w1, w2

OneUser == {u1}
OneTask == {t1}
TwoTasks == {t1, t2}
Nobody == {}
OneCancel == {c1}
OneAdjust == {a1}
TwoWorkers == {w1, w2}

AllByUser == [t \in Tasks |-> u1]
TwoCredits == [u \in Users |-> 2]
ToUser == [a \in Adjusts |-> u1]
Grant == [a \in Adjusts |-> 1]
OfFirst == [c \in Cancels |-> t1]

OneKey == [t \in Tasks |-> k1]
NoKeys == [t \in Tasks |-> NoKey]

Scene(who, with, fails) == [cast |-> who, keys |-> with, failures |-> fails]

RaceScenes ==
  {\* two submissions, of two tasks or of one, and a cancel
   Scene({t1, t2, c1, w1}, NoKeys, 1),
   Scene({t1, t2, c1, w1}, OneKey, 1),
   \* one failure after another
   Scene({t1, w1}, NoKeys, 2)}

RecoverScenes == {Scene({t1, a1, w1, w2}, NoKeys, 1)}

=============================================================================

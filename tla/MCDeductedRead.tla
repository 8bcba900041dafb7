--------------------------- MODULE MCDeductedRead ---------------------------
(* Finite instances of DeductedRead, one for each scene. *)
EXTENDS DeductedRead, TLC

CONSTANTS u1, k1, t1, t2, t3, c1, a1, w1, w2

OneUser == {u1}
ThreeTasks == {t1, t2, t3}
OneCancel == {c1}
OneAdjust == {a1}
TwoWorkers == {w1, w2}

AllByUser == [t \in Tasks |-> u1]
KeyOfTwo == [t \in Tasks |-> IF t = t3 THEN NoKey ELSE k1]
TwoCredits == [u \in Users |-> 2]
ToUser == [a \in Adjusts |-> u1]
Grant == [a \in Adjusts |-> 1]
OfFirst == [c \in Cancels |-> t1]

Scene(who, fails) == [cast |-> who, failures |-> fails, readers |-> FALSE]

Polled(s) == [s EXCEPT !.readers = TRUE]

SevenScenes ==
  {Scene({t1, t2, c1, w1, w2}, 1),
   Scene({t1, t3, c1, w1}, 1),
   Scene({t1, t2, w1}, 2),
   Polled(Scene({t1, c1, w1, w2}, 1)),
   Scene({t1, t2, t3, c1, w1}, 0),
   Scene({t1, t2, a1, w1}, 1),
   Polled(Scene({t1, c1, w1}, 2))}

=============================================================================

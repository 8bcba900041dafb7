-------------------------- MODULE MCDurableScenes --------------------------
(* A finite instance of DurableTask, cut into scenes.  A scene names the    *)
(* requests that take place in the behaviour and whether anything fails.    *)
EXTENDS DurableTask, TLC

CONSTANTS u1, u2, s1, s2, c1, c2, p1, a1, a2, a3, k1

VARIABLE scene

TwoUsers == {u1, u2}
TwoSubs == {s1, s2}
TwoCancels == {c1, c2}
OnePoll == {p1}
ThreeTopups == {a1, a2, a3}

AllOwned == [s \in Subs |-> u1]
SameKey == [s \in Subs |-> k1]
OneCredit == [u \in Users |-> 1]
RetriedTopup == [a \in Topups |-> k1]
ToUsers == [a \in Topups |-> IF a = a3 THEN u2 ELSE u1]

Scenes ==
  {\* one task, and everything that can fail
   [cast |-> {s1, c1, c2, p1}, faults |-> TRUE],
   \* a submission and its retry with a cancel, and with a top-up
   [cast |-> {s1, s2, c1}, faults |-> FALSE],
   [cast |-> {s1, s2, a1}, faults |-> FALSE],
   \* a submission and three top-ups
   [cast |-> {s1, a1, a2, a3}, faults |-> FALSE]}

(* A request that does not take place stays idle, and asks for s1.           *)
Asks(r, s) == IF r \in scene.cast THEN s \in scene.cast ELSE s = s1

SceneInit ==
  /\ scene \in Scenes
  /\ Init
  /\ \A c \in Cancels : Asks(c, ctgt[c])
  /\ \A p \in Polls : Asks(p, ptgt[p])

SceneNext ==
  /\ Next /\ UNCHANGED scene
  /\ \A s \in Subs \ scene.cast : spc'[s] = "idle"
  /\ \A c \in Cancels \ scene.cast : cpc'[c] = "idle"
  /\ \A p \in Polls \ scene.cast : ppc'[p] = "idle"
  /\ \A a \in Topups \ scene.cast : tpc'[a] = "idle"
  /\ ~scene.faults => lost' = 0 /\ aborts' = 0 /\ restarts' = 0

SceneSpec == SceneInit /\ [][SceneNext]_<<vars, scene>> /\ Fairness

=============================================================================

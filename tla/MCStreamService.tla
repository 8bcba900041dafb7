-------------------------- MODULE MCStreamService --------------------------
(* A finite instance of StreamService, cut into scenes. *)
EXTENDS StreamService, TLC

CONSTANTS u1, k1, t1, t2, c1, a1, w1, w2, d1, d2, j1, r1, r2

OneUser == {u1}
OneTask == {t1}
OneCancel == {c1}
OneAdjust == {a1}
TwoWorkers == {w1, w2}
TwoDispatchers == {d1, d2}
OneToken == {j1}
TwoRequests == {r1, r2}

AllByUser == [t \in Tasks |-> u1]
TwoCredits == [u \in Users |-> 2]
ToUser == [a \in Adjusts |-> u1]
Grant == [a \in Adjusts |-> 1]
OfFirst == [c \in Cancels |-> t1]

NoKeys == [t \in Tasks |-> NoKey]

Scene(who, with, fails) ==
  [cast |-> who, keys |-> with, failures |-> fails,
   dispatchers |-> {}, hookFailures |-> 0, replays |-> 0, auth |-> "none"]

WithHooks(s, ds, fails) == [s EXCEPT !.dispatchers = ds, !.hookFailures = fails]

ServiceScenes ==
  {\* a callback that fails, between two dispatchers
   WithHooks(Scene({t1, w1}, NoKeys, 0), {d1, d2}, 1),
   \* a worker and a cancel that both have an outcome to tell
   WithHooks(Scene({t1, c1, w1}, NoKeys, 0), {d1}, 0),
   \* a dead letter that is replayed
   [WithHooks(Scene({t1, w1}, NoKeys, 0), {d1}, 1) EXCEPT !.replays = 1],
   \* a token and its revocation
   [Scene({}, NoKeys, 0) EXCEPT !.auth = "tokens"],
   \* signing keys that rotate
   [Scene({}, NoKeys, 0) EXCEPT !.auth = "keys"]}

=============================================================================

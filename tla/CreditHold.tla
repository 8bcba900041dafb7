----------------------------- MODULE CreditHold -----------------------------
(***************************************************************************)
(* What metered billing promises, whatever store carries it: a user is     *)
(* granted credits; admitting a piece of work takes a hold on part of      *)
(* them, only when they cover it; a hold is settled once, by capturing it  *)
(* (the user has paid) or by returning it (the user has it back); no other *)
(* event moves credits.  The solutions of the repository carry holds as    *)
(* pending transfers, reservation rows or deducted balances; their modules *)
(* implement this one under a refinement mapping.                          *)
(***************************************************************************)
EXTENDS Integers, FiniteSets

CONSTANTS
  Users,     \* the credit-holding principals
  Subs,      \* the submission attempts, each with a hold of its own
  OwnerOf,   \* OwnerOf[s]: the user who makes attempt s
  Cost       \* the credits one task costs

VARIABLES
  granted,   \* granted[u]: all credits ever given to u
  hold       \* hold[s]: what became of the credits of attempt s

HoldStates == {"none", "held", "captured", "returned"}

(* The attempts of u whose credits are not available to u. *)
Taken(u, h) == {s \in Subs : OwnerOf[s] = u /\ h[s] \in {"held", "captured"}}

Available(u) == granted[u] - Cost * Cardinality(Taken(u, hold))

TypeOK ==
  /\ granted \in [Users -> Nat]
  /\ hold \in [Subs -> HoldStates]

Init ==
  /\ granted \in [Users -> Nat]
  /\ hold = [s \in Subs |-> "none"]

(* How much is granted is the business of the accounts.                      *)
Grant ==
  /\ granted' \in [Users -> Nat]
  /\ \A u \in Users : granted'[u] >= granted[u]
  /\ UNCHANGED hold

(* Credits that no work has taken can be withdrawn again. *)
Withdraw(u, n) ==
  /\ granted' = [granted EXCEPT ![u] = @ - n]
  /\ UNCHANGED hold

Hold(s) ==
  /\ hold[s] = "none"
  /\ Available(OwnerOf[s]) >= Cost
  /\ hold' = [hold EXCEPT ![s] = "held"]
  /\ UNCHANGED granted

(* Several pieces of work of one user are admitted together or not at all. *)
HoldAll(u, B) ==
  /\ \A s \in B : OwnerOf[s] = u /\ hold[s] = "none"
  /\ Available(u) >= Cost * Cardinality(B)
  /\ hold' = [s \in Subs |-> IF s \in B THEN "held" ELSE hold[s]]
  /\ UNCHANGED granted

Settle(s, outcome) ==
  /\ hold[s] = "held"
  /\ hold' = [hold EXCEPT ![s] = outcome]
  /\ UNCHANGED granted

Next ==
  \/ Grant
  \/ \E u \in Users : \E n \in 0 .. Available(u) : Withdraw(u, n)
  \/ \E u \in Users : \E B \in SUBSET Subs : HoldAll(u, B)
  \/ \E s \in Subs : Hold(s) \/ Settle(s, "captured") \/ Settle(s, "returned")

Spec == Init /\ [][Next]_<<granted, hold>>

(* Every hold is eventually settled: no credits stay locked for ever. *)
HoldsSettle == \A s \in Subs : hold[s] = "held" ~> hold[s] # "held"

=============================================================================

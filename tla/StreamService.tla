--------------------------- MODULE StreamService ----------------------------
(***************************************************************************)
(* Solution 1 as it is deployed: the tasks and their callbacks, the bearer *)
(* tokens and their revocation, and the keys the tokens are verified with, *)
(* in keys and tables of their own.  scene.auth says which of the last two *)
(* are alive in the behaviour.                                             *)
(***************************************************************************)
EXTENDS Callbacks, Tokens, SigningKeys

ServiceInit == HookInit /\ TokenInit /\ KeyInit

taskHookVars == <<vars, hookVars>>

ServiceNext ==
  \/ HookNext /\ UNCHANGED <<tokenVars, keyVars>>
  \/ scene.auth = "tokens" /\ TokenNext /\ UNCHANGED <<taskHookVars, keyVars>>
  \/ scene.auth = "keys" /\ KeyNext /\ UNCHANGED <<taskHookVars, tokenVars>>

ServiceSpec == ServiceInit /\ [][ServiceNext]_<<taskHookVars, tokenVars, keyVars>>

ServiceFairSpec == ServiceSpec /\ DispatchFairness

=============================================================================

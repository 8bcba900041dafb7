----------------------------- MODULE SigningKeys -----------------------------
(***************************************************************************)
(* Solution 1: the keys that bearer tokens are verified with.  Hydra signs *)
(* tokens and publishes its keys; an API process keeps a PyJWKClient,      *)
(* which it replaces when it is older than JwksTtl, and the client keeps   *)
(* the key set it has read for Lifespan.  A token whose key is not in the  *)
(* set makes the client read the keys again.                               *)
(*                                                                         *)
(* The refresh that _load_jwt_claims has for a PyJWKError is not modelled: *)
(* PyJWT raises that error for a malformed key only.  Of a key that is not *)
(* published, and of a Hydra that does not answer, it raises               *)
(* PyJWKClientError, and the token is refused.                             *)
(***************************************************************************)
EXTENDS Integers, Sequences

CONSTANTS
  Verifiers,   \* requests whose token is being verified
  JwksTtl,     \* hydra_jwks_cache_ttl_seconds
  Lifespan,    \* PyJWKClient.lifespan
  LastTick,    \* the time at which a behaviour ends
  KeyCount,    \* the number of keys Hydra comes to sign with, one after another
  MaxOutages   \* bound on the reads that Hydra does not answer

ASSUME KeyConstantsOK ==
  /\ JwksTtl \in Nat /\ Lifespan \in Nat /\ LastTick \in Nat /\ MaxOutages \in Nat
  /\ KeyCount \in Nat \ {0}

Keys == 1 .. KeyCount

VARIABLES
  clock,
  signing,    \* the key Hydra signs with
  published,  \* the keys of its JWKS document
  gone,       \* when a key was withdrawn from the document
  issued,     \* the keys that some token is signed with
  clients,    \* the clients made so far, the last one in _JWKS_CACHE:
              \* [made, keys, read], with keys read at time read, or read = -1
  vpc,        \* verifier: program counter
  key,        \* verifier: the key its token is signed with
  using,      \* verifier: its client
  begun,      \* verifier: when it began
  outages

hydraVars == <<signing, published, gone, issued>>
verifyVars == <<vpc, key, using, begun>>
keyVars == <<clock, hydraVars, clients, verifyVars, outages>>

KeyInit ==
  /\ clock = 0
  /\ signing = 1 /\ published = {1} /\ gone = [k \in Keys |-> 0] /\ issued = {}
  /\ clients = <<>>
  /\ vpc = [v \in Verifiers |-> "idle"] /\ key = [v \in Verifiers |-> 0]
  /\ using = [v \in Verifiers |-> 0] /\ begun = [v \in Verifiers |-> 0]
  /\ outages = 0

(* No request lasts from one tick to the one after the next. *)
TimePasses ==
  /\ clock < LastTick
  /\ \A v \in Verifiers : vpc[v] = "idle" \/ begun[v] = clock
  /\ clock' = clock + 1
  /\ UNCHANGED <<hydraVars, clients, verifyVars, outages>>

-----------------------------------------------------------------------------
(* Hydra *)

Rotate ==
  /\ signing + 1 \in Keys
  /\ signing' = signing + 1 /\ published' = published \cup {signing'}
  /\ UNCHANGED <<clock, gone, issued, clients, verifyVars, outages>>

Withdraw(k) ==
  /\ k \in published \ {signing}
  /\ published' = published \ {k} /\ gone' = [gone EXCEPT ![k] = clock]
  /\ UNCHANGED <<clock, signing, issued, clients, verifyVars, outages>>

(* _exchange_client_credentials_for_token *)
Exchange ==
  /\ issued' = issued \cup {signing}
  /\ UNCHANGED <<clock, signing, published, gone, clients, verifyVars, outages>>

-----------------------------------------------------------------------------
(* The verification of a token *)

(* Defect: the client is never replaced. *)
CurrentEver == clients # <<>>

NewClient == [made |-> clock, keys |-> {}, read |-> -1]

Start(v, k, c) ==
  /\ vpc' = [vpc EXCEPT ![v] = "find"] /\ key' = [key EXCEPT ![v] = k]
  /\ using' = [using EXCEPT ![v] = c] /\ begun' = [begun EXCEPT ![v] = clock]

Stop(v) ==
  /\ vpc' = [vpc EXCEPT ![v] = "idle"] /\ key' = [key EXCEPT ![v] = 0]
  /\ using' = [using EXCEPT ![v] = 0] /\ begun' = [begun EXCEPT ![v] = 0]

(* The client in _JWKS_CACHE is young enough. *)
Current == clients # <<>> /\ clock - clients[Len(clients)].made <= JwksTtl

(* _jwks_client, under its lock. *)
PickClient(v, k) ==
  /\ vpc[v] = "idle" /\ k \in issued
  /\ clients' = IF Current THEN clients ELSE Append(clients, NewClient)
  /\ Start(v, k, Len(clients'))
  /\ UNCHANGED <<clock, hydraVars, outages>>

(* The client has the key, in a set it still trusts. *)
Has(v) ==
  LET c == clients[using[v]] IN
  c.read >= 0 /\ clock - c.read <= Lifespan /\ key[v] \in c.keys

Read(v) == [clients EXCEPT ![using[v]].keys = published, ![using[v]].read = clock]

(* Defect: a set that is still trusted is not read again. *)
FindKeyOnce(v) ==
  LET c == clients[using[v]] IN
  /\ vpc[v] = "find"
  /\ clients' = IF c.read >= 0 /\ clock - c.read <= Lifespan THEN clients ELSE Read(v)
  /\ Stop(v)
  /\ UNCHANGED <<clock, hydraVars, outages>>

(* get_signing_key_from_jwt: a key the client does not have is looked for in *)
(* the document as it is now.  The token is accepted if the client has its   *)
(* key in the end.  The request goes on with the claims (module Tokens).     *)
FindKey(v) ==
  /\ vpc[v] = "find"
  /\ clients' = IF Has(v) THEN clients ELSE Read(v)
  /\ Stop(v)
  /\ UNCHANGED <<clock, hydraVars, outages>>

(* Hydra does not answer: the token is refused, and the client may have lost *)
(* the set it had.                                                           *)
FindKeyError(v) ==
  /\ vpc[v] = "find" /\ ~Has(v)
  /\ outages < MaxOutages /\ outages' = outages + 1
  /\ clients' \in {clients, [clients EXCEPT ![using[v]].keys = {}, ![using[v]].read = -1]}
  /\ Stop(v)
  /\ UNCHANGED <<clock, hydraVars>>

-----------------------------------------------------------------------------
KeyNext ==
  \/ TimePasses \/ Rotate \/ Exchange
  \/ \E k \in Keys : Withdraw(k)
  \/ \E v \in Verifiers :
       \/ \E k \in Keys : PickClient(v, k)
       \/ FindKey(v) \/ FindKeyError(v)

KeySpec == KeyInit /\ [][KeyNext]_keyVars

-----------------------------------------------------------------------------
(* Properties *)

Ends(v) == vpc[v] = "find" /\ vpc'[v] = "idle"
Passes(v) == Ends(v) /\ key[v] \in clients'[using[v]].keys /\ outages' = outages
Fails(v) == Ends(v) /\ key[v] \notin clients'[using[v]].keys /\ outages' = outages

(* The keys Hydra publishes are followed: a token of a published key is      *)
(* refused only if Hydra did not answer, however new the key is, and a token *)
(* of a withdrawn key is accepted no longer than the cache's lifetime and a  *)
(* request's duration, however the clients' lifetimes and reads overlap.     *)
KeysFollowed ==
  [][\A v \in Verifiers :
       /\ Fails(v) => key[v] \notin published
       /\ Passes(v) => key[v] \in published \/ clock - gone[key[v]] <= JwksTtl + 1]_keyVars

=============================================================================

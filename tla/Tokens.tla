------------------------------- MODULE Tokens -------------------------------
(***************************************************************************)
(* Solution 1: the bearer tokens of one user and their revocation.  A      *)
(* revocation is put into the Redis bucket of its day and into Postgres;   *)
(* a request looks its token up in the buckets of today and of yesterday,  *)
(* and in Postgres when Redis does not answer.  A bucket lives for         *)
(* BucketTtl after it was last added to, and an API process that starts    *)
(* brings the revocations of the last day back into the buckets.           *)
(*                                                                         *)
(* Time is counted in parts of a day, and a request may see midnight pass. *)
(* gap collects the tokens whose revocation Redis has missed or lost and   *)
(* no one has brought back: the code accepts these, because it asks        *)
(* Postgres only when Redis raises.                                        *)
(***************************************************************************)
EXTENDS Integers, FiniteSets

CONSTANTS
  Tokens,      \* jti claims
  Requests,    \* requests under way at the same time
  OneDay,      \* the number of parts of a day
  Life,        \* the lifetime of a token: a day at most
  BucketTtl,   \* revocation_bucket_ttl_seconds
  Horizon,     \* the time at which a behaviour ends
  MaxMishaps,  \* bound on the calls that fail and the losses of Redis
  NoToken

ASSUME TokenConstantsOK ==
  /\ NoToken \notin Tokens
  /\ OneDay \in Nat \ {0} /\ Life \in 1 .. OneDay
  /\ BucketTtl \in Nat /\ Horizon \in Nat /\ MaxMishaps \in Nat
  /\ OneDay <= Horizon

(* A bucket outlives the tokens that are revoked as it is added to: its 36   *)
(* hours are more than the day of a token (settings.py).                     *)
ASSUME BucketsOutlast == Life <= BucketTtl

VARIABLES
  now,
  expiry,   \* the exp claim of each token, 0 before it is issued
  rows,     \* token_revocations: [jti, at]
  bucket,   \* revoked:{user}:{day}
  until,    \* when the bucket of a day expires
  pc,       \* request: program counter
  bearer,   \* request: its token
  since,    \* request: when it began
  known,    \* request: its token had been revoked when it began, and Redis knew
            \* and has not lost it since
  loading,  \* the entries a starting API process has read
  revoked,  \* the tokens whose revocation was answered with success
  tried,    \* the tokens whose revocation was begun
  gap, mishaps

callVars == <<pc, bearer, since, known>>
bucketVars == <<bucket, until>>
ghostVars == <<revoked, tried, gap, mishaps>>
tokenVars == <<now, expiry, rows, bucketVars, callVars, loading, ghostVars>>

Days == 0 .. Horizon \div OneDay
Day(time) == time \div OneDay

TokenInit ==
  /\ now = OneDay
  /\ expiry = [j \in Tokens |-> 0]
  /\ rows = {}
  /\ bucket = [d \in Days |-> {}] /\ until = [d \in Days |-> 0]
  /\ pc = [r \in Requests |-> "idle"] /\ bearer = [r \in Requests |-> NoToken]
  /\ since = [r \in Requests |-> 0] /\ known = [r \in Requests |-> FALSE]
  /\ loading = {}
  /\ revoked = {} /\ tried = {} /\ gap = {} /\ mishaps = 0

Mishap == mishaps < MaxMishaps /\ mishaps' = mishaps + 1

-----------------------------------------------------------------------------
(* Redis *)

(* SADD and EXPIRE *)
AddTo(d, js) ==
  /\ bucket' = [bucket EXCEPT ![d] = @ \cup js]
  /\ until' = [until EXCEPT ![d] = now + BucketTtl]

(* Part of a day passes: no request lasts that long. *)
Tick ==
  /\ now < Horizon
  /\ \A r \in Requests : pc[r] = "idle" \/ since[r] = now
  /\ now' = now + 1
  /\ bucket' = [d \in Days |-> IF until[d] <= now' THEN {} ELSE bucket[d]]
  /\ until' = [d \in Days |-> IF until[d] <= now' THEN 0 ELSE until[d]]
  /\ UNCHANGED <<expiry, rows, callVars, loading, ghostVars>>

(* Redis starts again without its last writes. *)
RedisLoss(j) ==
  /\ Mishap
  /\ \E d \in Days : j \in bucket[d]
  /\ bucket' = [d \in Days |-> bucket[d] \ {j}]
  /\ gap' = gap \cup {j}
  /\ known' = [r \in Requests |-> known[r] /\ bearer[r] # j]
  /\ UNCHANGED <<now, expiry, rows, until, pc, bearer, since, loading, revoked, tried>>

-----------------------------------------------------------------------------
(* POST /v1/oauth/token *)

Issue(j) ==
  /\ expiry[j] = 0
  /\ expiry' = [expiry EXCEPT ![j] = now + Life]
  /\ UNCHANGED <<now, rows, bucketVars, callVars, loading, ghostVars>>

-----------------------------------------------------------------------------
(* _authenticate, which every route begins with *)

Go(r, step) == pc' = [pc EXCEPT ![r] = step] /\ UNCHANGED <<bearer, since, known>>

(* The request is over. *)
End(r) ==
  /\ pc' = [pc EXCEPT ![r] = "idle"]
  /\ bearer' = [bearer EXCEPT ![r] = NoToken]
  /\ since' = [since EXCEPT ![r] = 0]
  /\ known' = [known EXCEPT ![r] = FALSE]

(* The token is verified: it has been issued and has not expired. *)
Begin(r, j) ==
  /\ pc[r] = "idle" /\ expiry[j] > now
  /\ pc' = [pc EXCEPT ![r] = "check"]
  /\ bearer' = [bearer EXCEPT ![r] = j]
  /\ since' = [since EXCEPT ![r] = now]
  /\ known' = [known EXCEPT ![r] = j \in revoked \ gap]
  /\ UNCHANGED <<now, expiry, rows, bucketVars, loading, ghostVars>>

(* Defect: only today's bucket is looked at. *)
LookupToday(time) == {Day(time)}

(* revoked_tokens_lookup_keys *)
LookupDays(time) == {Day(time), Day(time) - 1}

(* _is_token_revoked, from the buckets of the days the request began with. *)
CheckRedis(r) ==
  /\ pc[r] = "check"
  /\ \/ /\ \E d \in LookupDays(since[r]) : bearer[r] \in bucket[d]
        /\ Go(r, "refused")
     \/ /\ \A d \in LookupDays(since[r]) : bearer[r] \notin bucket[d]
        /\ Go(r, "accepted")
  /\ UNCHANGED <<now, expiry, rows, bucketVars, loading, ghostVars>>

CheckRedisError(r) ==
  /\ pc[r] = "check"
  /\ Mishap /\ Go(r, "fallback")
  /\ UNCHANGED <<now, expiry, rows, bucketVars, loading, revoked, tried, gap>>

(* is_jti_revoked *)
CheckPostgres(r) ==
  /\ pc[r] = "fallback"
  /\ \/ /\ \E row \in rows : row.jti = bearer[r]
        /\ expiry[bearer[r]] > now
        /\ Go(r, "through")
     \/ /\ expiry[bearer[r]] <= now \/ \A row \in rows : row.jti # bearer[r]
        /\ Go(r, "accepted")
  /\ UNCHANGED <<now, expiry, rows, bucketVars, loading, ghostVars>>

(* What Postgres knows is added to today's bucket, if Redis is back.  *)
WriteThrough(r) ==
  /\ pc[r] = "through"
  /\ \/ AddTo(Day(now), {bearer[r]}) /\ gap' = gap \ {bearer[r]} /\ UNCHANGED mishaps
     \/ Mishap /\ UNCHANGED <<bucketVars, gap>>
  /\ Go(r, "refused")
  /\ UNCHANGED <<now, expiry, rows, loading, revoked, tried>>

(* 401, or the route's handler, which is not our concern unless it revokes.  *)
Answer(r) ==
  /\ pc[r] \in {"refused", "accepted"}
  /\ End(r)
  /\ UNCHANGED <<now, expiry, rows, bucketVars, loading, ghostVars>>

-----------------------------------------------------------------------------
(* POST /v1/auth/revoke *)

(* revoke_jti adds the token to Redis; an error is ignored ... *)
RevokeAdd(r) ==
  LET j == bearer[r] IN
  /\ pc[r] = "accepted"
  /\ tried' = tried \cup {j}
  /\ \/ AddTo(Day(now), {j}) /\ gap' = gap \ {j} /\ UNCHANGED mishaps
     \/ Mishap /\ UNCHANGED bucketVars /\ gap' = gap \cup {j}
  /\ Go(r, "insert")
  /\ UNCHANGED <<now, expiry, rows, loading, revoked>>

(* ... and inserts the row. *)
RevokeInsert(r) ==
  /\ pc[r] = "insert"
  /\ rows' = rows \cup {[jti |-> bearer[r], at |-> now]}
  /\ revoked' = revoked \cup {bearer[r]}
  /\ End(r)
  /\ UNCHANGED <<now, expiry, bucketVars, loading, tried, gap, mishaps>>

(* 503, perhaps after the insertion. *)
RevokeError(r) ==
  /\ pc[r] = "insert"
  /\ Mishap
  /\ rows' \in {rows, rows \cup {[jti |-> bearer[r], at |-> now]}}
  /\ End(r)
  /\ UNCHANGED <<now, expiry, bucketVars, loading, revoked, tried, gap>>

-----------------------------------------------------------------------------
(* The start of an API process *)

(* load_active_revoked_jtis *)
ActiveRows == {row \in rows : row.at >= now - OneDay /\ expiry[row.jti] > now}

Load ==
  /\ loading = {}
  /\ loading' = ActiveRows
  /\ UNCHANGED <<now, expiry, rows, bucketVars, callVars, ghostVars>>

(* _rehydrate_revocation_cache: each token into the bucket of its day. *)
Rehydrate ==
  LET days == {Day(row.at) : row \in loading} IN
  /\ loading # {}
  /\ bucket' = [d \in Days |->
       bucket[d] \cup {row.jti : row \in {l \in loading : Day(l.at) = d}}]
  /\ until' = [d \in Days |-> IF d \in days THEN now + BucketTtl ELSE until[d]]
  /\ gap' = gap \ {row.jti : row \in loading}
  /\ loading' = {}
  /\ UNCHANGED <<now, expiry, rows, callVars, revoked, tried, mishaps>>

(* Redis raises, and the process does not start. *)
StartFails ==
  /\ loading # {}
  /\ Mishap /\ loading' = {}
  /\ UNCHANGED <<now, expiry, rows, bucketVars, callVars, revoked, tried, gap>>

-----------------------------------------------------------------------------
TokenNext ==
  \/ Tick
  \/ \E j \in Tokens : Issue(j) \/ RedisLoss(j)
  \/ \E r \in Requests :
       \/ \E j \in Tokens : Begin(r, j)
       \/ CheckRedis(r) \/ CheckRedisError(r) \/ CheckPostgres(r) \/ WriteThrough(r)
       \/ Answer(r)
       \/ RevokeAdd(r) \/ RevokeInsert(r) \/ RevokeError(r)
  \/ Load \/ Rehydrate \/ StartFails

TokenSpec == TokenInit /\ [][TokenNext]_tokenVars

-----------------------------------------------------------------------------
(* Properties *)

Accepts(r) == pc[r] \in {"check", "fallback"} /\ pc'[r] = "accepted"
Refuses(r) == pc[r] \in {"check", "fallback"} /\ pc'[r] \in {"refused", "through"}

(* A token that had been revoked when the request began is accepted only if  *)
(* it has expired since, or if Redis missed or lost the revocation; and a    *)
(* token is refused only if its revocation was begun.  The buckets of two    *)
(* days, their expiry and the day an API process looks back are enough.      *)
RevokedIsRefused ==
  [][\A r \in Requests :
       /\ Accepts(r) /\ known[r] => expiry[bearer[r]] <= now
       /\ Refuses(r) => bearer[r] \in tried]_tokenVars

=============================================================================

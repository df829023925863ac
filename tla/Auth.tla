-------------------------------- MODULE Auth --------------------------------
(***************************************************************************)
(* Authentication of API requests (internal/api/auth.go, auth_cache.go):   *)
(* a Redis cache of verified bearers in front of the api_keys table, a     *)
(* per-key revocation marker that the revoke endpoint writes, and a        *)
(* per-prefix counter of failed verifications.                             *)
(*                                                                         *)
(* A request makes one Redis or Postgres call per step.  Everything it     *)
(* read may be stale by the time of the next step: a row listed as active  *)
(* may be revoked before the request stores it in the cache.  Several rows *)
(* may verify one bearer: SeedDevKey salts its hash, so that the upsert    *)
(* never meets the row of an earlier start.  All bearers share one prefix. *)
(* Time is in ticks; a request finishes authenticating within ReqTimeout   *)
(* of them.                                                                *)
(***************************************************************************)
EXTENDS Naturals, FiniteSets, Faults

CONSTANTS
  Requests,     \* requests that may be in progress at once
  Keys,         \* ids of api_keys rows, inserted or not
  Bearers,      \* raw keys that requests present
  None,
  CacheTTL,     \* authCacheTTL
  RevokedTTL,   \* authRevokedTTL
  Window,       \* authFailureWindow
  Limit,        \* authFailureLimit
  ReqTimeout    \* ticks in which a request finishes authenticating

(* The marker outlives a cache entry, and two requests besides: one that   *)
(* stores the entry late, one that has read the entry and not the marker.  *)
(* The code has 60 s and 5 min, which leaves a request two minutes.        *)
ASSUME AuthAssumption ==
  /\ CacheTTL \in Nat \ {0} /\ RevokedTTL \in Nat /\ Window \in Nat \ {0}
  /\ Limit \in Nat /\ ReqTimeout \in Nat
  /\ CacheTTL + 2 * ReqTimeout <= RevokedTTL
  /\ None \notin Keys \cup Bearers

VARIABLES
  row,        \* Postgres: the bearer row k verifies, None when there is no row
  active,     \* Postgres: the row is there and revoked_at IS NULL
  cache,      \* Redis: ticks left of the auth:v1:<bearer> that names k, else 0
  marker,     \* Redis: ticks left of auth:revoked:<id>, 0 when there is none
  failures,   \* Redis: auth:fail:<prefix>, 0 when there is none
  expiry,     \* Redis: ticks left of auth:fail:<prefix>, 0 when it has no expiry
  revoker,    \* where a call of the revoke endpoint for the key is
  pc,         \* where request r is in AuthMiddleware
  bearer,     \* its bearer
  via,        \* the key it has found, in the cache or in the table
  age,        \* ticks since it started
  late,       \* history: keys whose revocation had completed before it started
  open,       \* history: its call of isKeyRevoked failed
  quiet,      \* history: ticks since a failure was last counted in the window
  marked,     \* history: the key is revoked and its marker was written
  gone        \* history: ticks since the key was revoked, up to Horizon

gateVars == <<failures, expiry, quiet>>
redisVars == <<cache, marker, gateVars>>
keyVars == <<row, active, revoker, marked, gone>>
reqVars == <<bearer, via, age, late, open>>
vars == <<redisVars, keyVars, pc, reqVars, faults>>

(* The longest a revoked key can still be let in, marker or no marker. *)
Tail == CacheTTL + 2 * ReqTimeout
Horizon == Tail + 1

Labels == {"idle", "lookup", "check", "invalidate", "gate", "list", "store", "note", "pass"}

(* The variables have their types, and every counter and timer its range. *)
TypeOK ==
  /\ row \in [Keys -> Bearers \cup {None}]
  /\ active \in [Keys -> BOOLEAN] /\ marked \in [Keys -> BOOLEAN]
  /\ revoker \in [Keys -> {"idle", "mark"}]
  /\ cache \in [Keys -> 0..CacheTTL] /\ marker \in [Keys -> 0..RevokedTTL]
  /\ failures \in Nat /\ expiry \in 0..Window /\ quiet \in Nat
  /\ gone \in [Keys -> 0..Horizon]
  /\ pc \in [Requests -> Labels] /\ bearer \in [Requests -> Bearers]
  /\ via \in [Requests -> Keys \cup {None}]
  /\ age \in [Requests -> 0..ReqTimeout]
  /\ late \in [Requests -> SUBSET Keys] /\ open \in [Requests -> BOOLEAN]
  /\ FaultsTypeOK

Init ==
  /\ row \in [Keys -> Bearers \cup {None}]
  /\ active = [k \in Keys |-> row[k] # None] /\ marked = [k \in Keys |-> FALSE]
  /\ revoker = [k \in Keys |-> "idle"]
  /\ cache = [k \in Keys |-> 0] /\ marker = [k \in Keys |-> 0]
  /\ failures = 0 /\ expiry = 0 /\ quiet = 0
  /\ gone = [k \in Keys |-> 0]
  /\ pc = [r \in Requests |-> "idle"]
  /\ bearer \in [Requests -> Bearers]
  /\ via = [r \in Requests |-> None]
  /\ age = [r \in Requests |-> 0]
  /\ late = [r \in Requests |-> {}] /\ open = [r \in Requests |-> FALSE]
  /\ FaultsInit

Goto(r, l) == pc' = [pc EXCEPT ![r] = l]

Finds(r, k) == via' = [via EXCEPT ![r] = k]

(* The request is over: answered here, or returned by the handler behind. *)
Done(r) ==
  /\ Goto(r, "idle") /\ Finds(r, None)
  /\ age' = [age EXCEPT ![r] = 0]
  /\ late' = [late EXCEPT ![r] = {}]
  /\ open' = [open EXCEPT ![r] = FALSE]
  /\ UNCHANGED bearer

-----------------------------------------------------------------------------
(* A request's path through AuthMiddleware. *)

(* A request with a bearer of the right form arrives. *)
Arrive(r, b) ==
  /\ pc[r] = "idle"
  /\ bearer' = [bearer EXCEPT ![r] = b]
  /\ late' = [late EXCEPT ![r] = {k \in Keys : marked[k]}]
  /\ Goto(r, "lookup")
  /\ NoFault /\ UNCHANGED <<redisVars, keyVars, via, age, open>>

(* The cache has an entry for the bearer, and it names k. *)
Hit(b, k) == row[k] = b /\ cache[k] > 0

(* A failed GET is a miss. *)
LookupAuthCache(r) ==
  /\ pc[r] = "lookup"
  /\ \/ /\ \E k \in Keys : Hit(bearer[r], k) /\ Finds(r, k)
        /\ Goto(r, "check") /\ NoFault
     \/ /\ \A k \in Keys : ~Hit(bearer[r], k)
        /\ Goto(r, "gate") /\ NoFault /\ UNCHANGED via
     \/ Goto(r, "gate") /\ Fault("redis") /\ UNCHANGED via
  /\ UNCHANGED <<redisVars, keyVars, bearer, age, late, open>>

(* A failed EXISTS is "not revoked": the cached entry is honoured. *)
IsKeyRevoked(r) ==
  /\ pc[r] = "check"
  /\ \/ /\ Goto(r, IF marker[via[r]] > 0 THEN "invalidate" ELSE "pass")
        /\ NoFault /\ UNCHANGED open
     \/ /\ Goto(r, "pass") /\ Fault("redis")
        /\ open' = [open EXCEPT ![r] = TRUE]
  /\ UNCHANGED <<redisVars, keyVars, bearer, via, age, late>>

(* Deletes the bearer's entry, which may name another key by now. *)
InvalidateAuthCache(r) ==
  /\ pc[r] = "invalidate"
  /\ \/ cache' = [k \in Keys |-> IF row[k] = bearer[r] THEN 0 ELSE cache[k]] /\ NoFault
     \/ UNCHANGED cache /\ Fault("redis")
  /\ Finds(r, None)
  /\ Goto(r, "gate")
  /\ UNCHANGED <<marker, gateVars, keyVars, bearer, age, late, open>>

(* Mutation of Locked: the counter is never read. *)
NeverLocked == FALSE

Locked == failures > Limit

(* Mutation of IsAuthFailureLocked: a rejected request renews the window. *)
IsAuthFailureLockedRenewing(r) ==
  /\ pc[r] = "gate"
  /\ \/ Locked /\ Done(r) /\ NoFault /\ expiry' = Window
     \/ ~Locked /\ Goto(r, "list") /\ NoFault /\ UNCHANGED <<expiry, reqVars>>
     \/ Goto(r, "list") /\ Fault("redis") /\ UNCHANGED <<expiry, reqVars>>
  /\ UNCHANGED <<cache, marker, failures, quiet, keyVars>>

(* Over the limit the answer is 429; a failed GET opens the gate. *)
IsAuthFailureLocked(r) ==
  /\ pc[r] = "gate"
  /\ \/ Locked /\ Done(r) /\ NoFault
     \/ ~Locked /\ Goto(r, "list") /\ NoFault /\ UNCHANGED reqVars
     \/ Goto(r, "list") /\ Fault("redis") /\ UNCHANGED reqVars
  /\ UNCHANGED <<redisVars, keyVars>>

(* Mutation of Verifies: the query also returns revoked rows. *)
VerifiesRevoked(b, k) == row[k] = b

(* Row k is among those ListActiveAPIKeysByPrefix returns now, and it is   *)
(* the bearer's.                                                           *)
Verifies(b, k) == row[k] = b /\ active[k]

(* The candidates are read here and verified afterwards, in no order; a    *)
(* failed query is a 500.                                                  *)
ListActiveAPIKeys(r) ==
  /\ pc[r] = "list"
  /\ \/ /\ \E k \in Keys : Verifies(bearer[r], k) /\ Finds(r, k)
        /\ Goto(r, "store") /\ NoFault /\ UNCHANGED <<bearer, age, late, open>>
     \/ /\ \A k \in Keys : ~Verifies(bearer[r], k)
        /\ Goto(r, "note") /\ NoFault /\ UNCHANGED reqVars
     \/ Done(r) /\ Fault("db")
  /\ UNCHANGED <<redisVars, keyVars>>

(* SET of the bearer's entry: it names the key just verified. *)
Cached(r, ttl) ==
  cache' = [k \in Keys |-> IF k = via[r] THEN ttl
                           ELSE IF row[k] = bearer[r] THEN 0 ELSE cache[k]]

StoreAuthCache(r) ==
  /\ pc[r] = "store"
  /\ \/ Cached(r, CacheTTL) /\ NoFault
     \/ UNCHANGED cache /\ Fault("redis")
  /\ Goto(r, "pass")
  /\ UNCHANGED <<marker, gateVars, keyVars, reqVars>>

(* Mutation of NoteAuthFailure: INCR without EXPIRE. *)
NoteAuthFailureNoExpire(r) ==
  /\ pc[r] = "note"
  /\ failures' = failures + 1 /\ quiet' = 0 /\ UNCHANGED expiry /\ NoFault
  /\ Done(r)
  /\ UNCHANGED <<cache, marker, keyVars>>

(* INCR and EXPIRE in one pipeline, which is no transaction: an error      *)
(* leaves both, the first or neither done.  The answer is 401.             *)
NoteAuthFailure(r) ==
  /\ pc[r] = "note"
  /\ \/ failures' = failures + 1 /\ quiet' = 0 /\ expiry' = Window /\ NoFault
     \/ failures' = failures + 1 /\ quiet' = 0 /\ UNCHANGED expiry /\ Fault("redis")
     \/ UNCHANGED gateVars /\ Fault("redis")
  /\ Done(r)
  /\ UNCHANGED <<cache, marker, keyVars>>

(* The handler behind the middleware returns. *)
Serve(r) ==
  /\ pc[r] = "pass"
  /\ Done(r)
  /\ NoFault /\ UNCHANGED <<redisVars, keyVars>>

-----------------------------------------------------------------------------
(* The keys' life. *)

(* POST /v1/admin/api-keys/{id}/revoke: the row first.  A second call      *)
(* leaves its revoked_at alone.                                            *)
RevokeAPIKey(k) ==
  /\ row[k] # None /\ revoker[k] = "idle"
  /\ active' = [active EXCEPT ![k] = FALSE]
  /\ revoker' = [revoker EXCEPT ![k] = "mark"]
  /\ NoFault /\ UNCHANGED <<redisVars, row, marked, gone, pc, reqVars>>

(* Mutation of MarkerTTL: the marker has the cache's TTL. *)
MarkerTTLShort == CacheTTL

MarkerTTL == RevokedTTL

(* ... then the marker, whose failure is ignored. *)
MarkKeyRevoked(k) ==
  /\ revoker[k] = "mark"
  /\ \/ /\ marker' = [marker EXCEPT ![k] = MarkerTTL]
        /\ marked' = [marked EXCEPT ![k] = TRUE]
        /\ NoFault
     \/ Fault("redis") /\ UNCHANGED <<marker, marked>>
  /\ revoker' = [revoker EXCEPT ![k] = "idle"]
  /\ UNCHANGED <<cache, gateVars, row, active, gone, pc, reqVars>>

(* A process starts with DEV_API_KEY set: one more row for its bearer. *)
SeedDevKey(k, b) ==
  /\ row[k] = None
  /\ row' = [row EXCEPT ![k] = b]
  /\ active' = [active EXCEPT ![k] = TRUE]
  /\ NoFault /\ UNCHANGED <<redisVars, revoker, marked, gone, pc, reqVars>>

-----------------------------------------------------------------------------
(* Time. *)

Less(t) == IF t > 0 THEN t - 1 ELSE 0

Revoked(k) == row[k] # None /\ ~active[k]

Running(r) == pc[r] \notin {"idle", "pass"}

(* A tick passes, and what reaches its expiry is gone. *)
Tick ==
  /\ \A r \in Requests : Running(r) => age[r] < ReqTimeout
  /\ age' = [r \in Requests |-> IF Running(r) THEN age[r] + 1 ELSE age[r]]
  /\ cache' = [k \in Keys |-> Less(cache[k])]
  /\ marker' = [k \in Keys |-> Less(marker[k])]
  /\ expiry' = Less(expiry)
  /\ failures' = IF expiry = 1 THEN 0 ELSE failures
  /\ quiet' = IF expiry > 1 THEN quiet + 1 ELSE 0
  /\ gone' = [k \in Keys |-> IF Revoked(k) /\ gone[k] < Horizon THEN gone[k] + 1 ELSE gone[k]]
  /\ NoFault /\ UNCHANGED <<row, active, revoker, marked, pc, bearer, via, late, open>>

Step(r) ==
  \/ LookupAuthCache(r)
  \/ IsKeyRevoked(r)
  \/ InvalidateAuthCache(r)
  \/ IsAuthFailureLocked(r)
  \/ ListActiveAPIKeys(r)
  \/ StoreAuthCache(r)
  \/ NoteAuthFailure(r)
  \/ Serve(r)

Next ==
  \/ \E r \in Requests : Step(r) \/ \E b \in Bearers : Arrive(r, b)
  \/ \E k \in Keys : \/ RevokeAPIKey(k) \/ MarkKeyRevoked(k)
                     \/ \E b \in Bearers : SeedDevKey(k, b)
  \/ Tick

Spec == Init /\ [][Next]_vars

-----------------------------------------------------------------------------
(* A request that arrives after the revoke endpoint has written the marker *)
(* is not let in by the key, whatever requests that were in progress store *)
(* in the cache, whichever of its bearer's rows the cache names, and       *)
(* however long it takes from its GET to its EXISTS; unless its own EXISTS *)
(* fails.                                                                  *)
RevokedStaysOut ==
  \A r \in Requests : pc[r] = "pass" /\ via[r] \in late[r] => open[r]

(* Without the marker, and with any Redis errors: a key is let in no more  *)
(* once it has been revoked for the cache's TTL and the time of two        *)
(* requests.                                                               *)
RevokedExpires ==
  [][\A r \in Requests :
       (pc[r] # "pass" /\ pc'[r] = "pass") => gone[via'[r]] <= Tail]_vars

(* Failed verifications within a window: the limit, one more for each      *)
(* request that was past the gate when it was reached, and one more for    *)
(* each Redis error.                                                       *)
FailureBudget == failures <= Limit + Cardinality(Requests) + faults

(* A counter that never expires has counted only failures whose EXPIRE was *)
(* lost: a prefix is not locked for ever unless more calls than the limit  *)
(* were lost.                                                              *)
CounterExpires == expiry = 0 => failures <= faults

(* The window runs from the last failure that was counted: however many   *)
(* requests are turned away meanwhile, they do not prolong the lock.       *)
LockEnds == expiry + quiet <= Window
=============================================================================

----------------------------- MODULE RateLimit ------------------------------
(***************************************************************************)
(* The per-channel rate limit: the token bucket in Redis (a Lua script,    *)
(* internal/ratelimit/lua.go) and each replica's Reservoir in front of it  *)
(* (reservoir.go).  The worker goroutines of a replica share its reservoir.*)
(*                                                                         *)
(* The script is atomic, but the time it is given was read by the caller   *)
(* before the round trip: scripts may run in another order than their      *)
(* timestamps, and replicas' clocks may differ (Skew).                     *)
(*                                                                         *)
(* A tick is the script's millisecond.  The bucket's level is a fraction   *)
(* of tokens: it is counted in parts, Grain of them a token, and Rate of   *)
(* them accrue in a tick (at 100/s a tenth of a token per ms).             *)
(***************************************************************************)
EXTENDS Integers, FiniteSets, Functions, Faults

CONSTANTS
  Replicas, Callers,
  Home,        \* the replica a worker goroutine belongs to
  Skew,        \* how far a replica's clock is ahead
  Grain,       \* parts of a token
  Rate,        \* parts per tick
  Capacity,    \* bucket size, in tokens
  BatchSize,   \* Reservoir.batchSize
  KeyTTL,      \* ttl_seconds, in ticks
  MaxTime,     \* bound on the time
  MaxServed    \* bound on the number of tokens handed out

ASSUME RateLimitAssumption ==
  /\ Home \in [Callers -> Replicas] /\ Skew \in [Replicas -> Nat]
  /\ Grain \in Nat \ {0} /\ Rate \in Nat \ {0} /\ Capacity \in Nat \ {0} /\ BatchSize \in Nat \ {0}
  /\ KeyTTL \in Nat \ {0} /\ MaxTime \in Nat /\ MaxServed \in Nat
  /\ Grain * Capacity <= Rate * KeyTTL       \* 100 tokens at 100/s, kept for 60 s

VARIABLES
  now,      \* time
  tokens,   \* Redis: the bucket's level in parts, -1 when the key does not exist
  ts,       \* Redis: the bucket's ts
  ttl,      \* Redis: what is left of the key's expiry
  local,    \* Reservoir.tokens of each replica
  pc,       \* where caller c is in Take
  stamp,    \* the now_ms of the script caller c has sent, 0 if none is on its way
  retry,    \* RetryAfter of c's last denial, in ticks
  served,   \* history: requests let through
  charged,  \* history: tokens taken out of the bucket
  rewound   \* history: ticks by which a script's time fell behind the bucket's

redisVars == <<tokens, ts, ttl, charged, rewound>>
vars == <<now, redisVars, local, pc, stamp, retry, served, faults>>

Full == Grain * Capacity

Labels == {"idle", "refill", "batch", "credit", "fallback", "single"}

(* The variables have their types, and the bucket is absent or not overfull. *)
TypeOK ==
  /\ now \in Nat /\ tokens \in -1..Full /\ ts \in Nat /\ ttl \in 0..KeyTTL
  /\ local \in [Replicas -> Nat]
  /\ pc \in [Callers -> Labels]
  /\ stamp \in [Callers -> Nat] /\ retry \in [Callers -> Nat]
  /\ served \in Nat /\ charged \in Nat /\ rewound \in Nat
  /\ FaultsTypeOK

Init ==
  /\ now = 0 /\ tokens = -1 /\ ts = 0 /\ ttl = 0
  /\ local = [r \in Replicas |-> 0]
  /\ pc = [c \in Callers |-> "idle"]
  /\ stamp = [c \in Callers |-> 0] /\ retry = [c \in Callers |-> 0]
  /\ served = 0 /\ charged = 0 /\ rewound = 0
  /\ FaultsInit

Goto(c, from, to) == pc[c] = from /\ pc' = [pc EXCEPT ![c] = to]

-----------------------------------------------------------------------------
(* The script *)

Least(a, b) == IF a <= b THEN a ELSE b
Most(a, b)  == IF a <= b THEN b ELSE a

Exists == tokens >= 0

(* elapsed_ms: a clock that is behind ts counts as no time at all. *)
Elapsed(t) == IF Exists THEN Most(0, t - ts) ELSE 0

(* A level after some time. *)
Refilled(level, elapsed) == Least(Full, level + Rate * elapsed)

(* The bucket after the refill; a new key starts full. *)
Filled(t) == IF Exists THEN Refilled(tokens, Elapsed(t)) ELSE Full

Allowed(take, t) == Filled(t) >= Grain * take

(* Mutation of Charge: the bucket is refilled but not decremented. *)
ChargeNothing(take, t) == tokens' = Filled(t)

Charge(take, t) ==
  tokens' = IF Allowed(take, t) THEN Filled(t) - Grain * take ELSE Filled(t)

(* How far time t is behind the bucket.  A key that has expired was idle    *)
(* for its TTL, so a caller's clock should have moved on by as much.        *)
Behind(t) ==
  Most(0, IF Exists \/ charged = 0 THEN ts - t ELSE ts + KeyTTL - t)

(* ts becomes the caller's time even when that is earlier than ts. *)
Script(take, t) ==
  /\ Charge(take, t)
  /\ ts' = t /\ ttl' = KeyTTL
  /\ charged' = IF Allowed(take, t) THEN charged + take ELSE charged
  /\ rewound' = rewound + Behind(t)

(* Mutation of RetryAfter: rounded down. *)
RetryAfterFloor(t) == (Grain - Filled(t)) \div Rate

(* math.ceil(needed / rate), in ticks, for one token. *)
RetryAfter(t) == (Grain - Filled(t) + Rate - 1) \div Rate

Tick ==
  /\ now < MaxTime
  /\ now' = now + 1
  /\ ttl' = Most(0, ttl - 1)
  /\ tokens' = IF ttl <= 1 THEN -1 ELSE tokens
  /\ NoFault
  /\ UNCHANGED <<ts, charged, rewound, local, pc, stamp, retry, served>>

-----------------------------------------------------------------------------
(* Reservoir.Take.  The mutex is held only around the local counter. *)

Clock(c) == now + Skew[Home[c]]

TakeLocal(c) ==
  LET r == Home[c]
  IN  /\ pc[c] = "idle" /\ local[r] >= 1 /\ served < MaxServed
      /\ local' = [local EXCEPT ![r] = @ - 1]
      /\ served' = served + 1
      /\ NoFault
      /\ UNCHANGED <<now, redisVars, pc, stamp, retry>>

TakeEmpty(c) ==
  /\ Goto(c, "idle", "refill")
  /\ local[Home[c]] < 1 /\ served < MaxServed
  /\ retry' = [retry EXCEPT ![c] = 0]
  /\ NoFault
  /\ UNCHANGED <<now, redisVars, local, stamp, served>>

(* AllowN reads time.Now and sends the script on its way. *)
AllowN(c) ==
  /\ Goto(c, "refill", "batch") \/ Goto(c, "fallback", "single")
  /\ stamp' = [stamp EXCEPT ![c] = Clock(c)]
  /\ NoFault
  /\ UNCHANGED <<now, redisVars, local, retry, served>>

RunBatch(c) ==
  /\ Goto(c, "batch", IF Allowed(BatchSize, stamp[c]) THEN "credit" ELSE "fallback")
  /\ Script(BatchSize, stamp[c])
  /\ stamp' = [stamp EXCEPT ![c] = 0]
  /\ NoFault
  /\ UNCHANGED <<now, local, retry, served>>

(* Mutation of Credited: the token taken now is credited as well. *)
CreditedAll == BatchSize

(* One of the batch is consumed now. *)
Credited == BatchSize - 1

Credit(c) ==
  /\ Goto(c, "credit", "idle")
  /\ local' = [local EXCEPT ![Home[c]] = @ + Credited]
  /\ served' = served + 1
  /\ NoFault
  /\ UNCHANGED <<now, redisVars, stamp, retry>>

RunSingle(c) ==
  /\ Goto(c, "single", "idle")
  /\ Script(1, stamp[c])
  /\ IF Allowed(1, stamp[c])
     THEN served' = served + 1 /\ UNCHANGED retry
     ELSE retry' = [retry EXCEPT ![c] = RetryAfter(stamp[c])] /\ UNCHANGED served
  /\ stamp' = [stamp EXCEPT ![c] = 0]
  /\ NoFault
  /\ UNCHANGED <<now, local>>

(* A Redis error: the script did not run, or its answer was lost. *)
TakeError(c) ==
  /\ \/ Goto(c, "batch", "idle") /\ Script(BatchSize, stamp[c])
     \/ Goto(c, "single", "idle") /\ Script(1, stamp[c])
     \/ (Goto(c, "batch", "idle") \/ Goto(c, "single", "idle")) /\ UNCHANGED redisVars
  /\ stamp' = [stamp EXCEPT ![c] = 0]
  /\ Fault("redis")
  /\ UNCHANGED <<now, local, retry, served>>

(* A replica restarts: its local tokens are lost. *)
Restart(r) ==
  /\ local' = [local EXCEPT ![r] = 0]
  /\ pc' = [c \in Callers |-> IF Home[c] = r THEN "idle" ELSE pc[c]]
  /\ stamp' = [c \in Callers |-> IF Home[c] = r THEN 0 ELSE stamp[c]]
  /\ Fault("crash")
  /\ UNCHANGED <<now, redisVars, retry, served>>

Next ==
  \/ Tick
  \/ \E c \in Callers : \/ TakeLocal(c) \/ TakeEmpty(c) \/ AllowN(c) \/ RunBatch(c)
                        \/ Credit(c) \/ RunSingle(c) \/ TakeError(c)
  \/ \E r \in Replicas : Restart(r)

Spec == Init /\ [][Next]_vars

-----------------------------------------------------------------------------
(* Tokens a caller of the batch has been granted and not credited yet. *)
Granted == {c \in Callers : pc[c] = "credit"}

(* The reservoirs hand out no token the bucket has not been charged for,    *)
(* although several workers refill at the same time with the mutex          *)
(* released, answers are lost and replicas restart.                         *)
ServedWithinCharge ==
  served + FoldFunction(+, 0, local) + BatchSize * Cardinality(Granted) <= charged

(* The bucket's bound for every order of scripts and every clock skew: what *)
(* was taken, and what is left, is at most the capacity and the refill of   *)
(* the time that passed by the callers' clocks, where time they fell back   *)
(* is counted again.                                                        *)
BucketBound ==
  Grain * charged + Most(0, tokens) <= Full + Rate * (ts + rewound)

(* The denial of c in this step: with its wait over on its own clock there  *)
(* is a token, a tick earlier there is none.                                *)
WaitIsExact(c) ==
  LET wait == stamp[c] + retry'[c] - ts'
  IN  Refilled(tokens', wait) >= Grain /\ Refilled(tokens', wait - 1) < Grain

(* A caller that comes back when the RetryAfter of its denial has passed on *)
(* its own clock finds a token if nobody else ran a script, although its    *)
(* clock may be behind those of the other replicas and the bucket's level   *)
(* is not a whole number of tokens; a tick earlier it would have been       *)
(* denied again.                                                            *)
RetrySuffices ==
  [][\A c \in Callers :
       pc[c] = "single" /\ pc'[c] = "idle" /\ UNCHANGED <<served, faults>> =>
         WaitIsExact(c)]_vars
=============================================================================

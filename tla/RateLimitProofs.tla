-------------------------- MODULE RateLimitProofs ---------------------------
(***************************************************************************)
(* The bucket's bound for any number of replicas and workers, any clock    *)
(* skew, grain, rate, capacity, batch size and expiry in which an idle     *)
(* bucket has filled up (Full <= Rate * KeyTTL).  The bound is inductive   *)
(* together with the types of what the script reads; only the script moves *)
(* its terms, so it is shown for one run of the script with any take and   *)
(* any time.  What the reservoirs let through is bounded by it since each  *)
(* request has a charged token of its own (TokenInv).                      *)
(***************************************************************************)
EXTENDS RateLimit, TLAPS

LEMMA Times ==
  ASSUME NEW a \in Nat, NEW b \in Nat
  PROVE  a * b \in Nat
BY SMT

LEMMA Plus ==
  \A a, b \in Nat : a + b \in Nat
OBVIOUS

LEMMA AtLeastOnce ==
  ASSUME NEW a \in Nat, NEW b \in Nat \ {0}
  PROVE  a <= a * b
BY SMT

LEMMA Capped ==
  ASSUME NEW f \in Nat, NEW g \in Nat, g <= f, NEW x \in Nat
  PROVE  (x >= g => Least(f, x) >= g) /\ (x < g => Least(f, x) < g)
BY DEF Least

LEMMA Constants ==
  /\ Home \in [Callers -> Replicas] /\ Skew \in [Replicas -> Nat]
  /\ Grain \in Nat \ {0} /\ Rate \in Nat \ {0} /\ Capacity \in Nat /\ KeyTTL \in Nat
  /\ BatchSize \in Nat \ {0}
  /\ Grain \in Nat /\ Full \in Nat /\ Grain <= Full /\ Full <= Rate * KeyTTL
<1>1. /\ Home \in [Callers -> Replicas] /\ Skew \in [Replicas -> Nat]
      /\ Grain \in Nat \ {0} /\ Rate \in Nat \ {0} /\ Capacity \in Nat \ {0} /\ KeyTTL \in Nat
      /\ BatchSize \in Nat \ {0} /\ Full <= Rate * KeyTTL
  BY RateLimitAssumption DEF Full
<1>2. Full \in Nat /\ Grain <= Full
  BY <1>1, Times, AtLeastOnce DEF Full
<1> QED
  BY <1>1, <1>2

USE Constants

(* What the script reads and writes, and the times callers have sent. *)
BucketType ==
  /\ now \in Nat /\ tokens \in -1..Full /\ ts \in Nat /\ ttl \in Int
  /\ charged \in Nat /\ rewound \in Nat
  /\ stamp \in [Callers -> Nat]

BucketInv == BucketType /\ BucketBound

LEMMA Distribute ==
  ASSUME NEW r \in Int, NEW a \in Int, NEW b \in Int
  PROVE  r * (a + b) = r * a + r * b
BY SMT

LEMMA Monotone ==
  ASSUME NEW a \in Nat
  PROVE  Rate * a \in Nat
BY Times

LEMMA Monotone2 ==
  \A a, b \in Nat : Rate * (a + b) \in Nat
  BY Monotone

(* The time axis of the bound never runs backwards: what a script loses in  *)
(* ts it gains in rewound.                                                  *)
LEMMA ScriptTime ==
  ASSUME BucketType, NEW take \in Nat \ {0}, NEW t \in Nat, Script(take, t)
  PROVE  /\ ts' = t /\ rewound' \in Nat /\ charged' \in Nat /\ charged' >= charged
         /\ Exists => ts' + rewound' = ts + rewound + Elapsed(t) /\ Elapsed(t) \in Nat
         /\ ~Exists /\ charged # 0 => ts' + rewound' >= ts + rewound + KeyTTL
         /\ ts' + rewound' >= ts + rewound
<1>1. Exists => Elapsed(t) = Most(0, t - ts) /\ Behind(t) = Most(0, ts - t)
  BY DEF Elapsed, Behind
<1>2. ~Exists /\ charged # 0 => Behind(t) = Most(0, ts + KeyTTL - t)
  BY DEF Behind
<1>3. ~Exists /\ charged = 0 => Behind(t) = Most(0, ts - t)
  BY DEF Behind
<1>4. /\ Most(0, t - ts) \in Nat /\ Most(0, ts - t) \in Nat /\ Most(0, ts + KeyTTL - t) \in Nat
      /\ t + Most(0, ts - t) = ts + Most(0, t - ts)
      /\ t + Most(0, ts + KeyTTL - t) >= ts + KeyTTL
  BY DEF Most, BucketType
<1>5. ts' = t /\ rewound' = rewound + Behind(t) /\ charged' \in {charged, charged + take}
  BY DEF Script
<1>6. CASE Exists
  BY <1>1, <1>4, <1>5, <1>6 DEF BucketType
<1>7. CASE ~Exists
  BY <1>2, <1>3, <1>4, <1>5, <1>7 DEF BucketType
<1> QED
  BY <1>6, <1>7

(* A script charges no more than it finds in the refilled bucket. *)
LEMMA ScriptCharge ==
  ASSUME BucketType, NEW take \in Nat \ {0}, NEW t \in Nat, Script(take, t)
  PROVE  /\ tokens' \in 0..Full
         /\ Grain * charged \in Nat /\ Grain * charged' \in Nat
         /\ Grain * charged' + tokens' = Grain * charged + Filled(t)
         /\ Exists => Filled(t) <= tokens + Rate * Elapsed(t)
         /\ ~Exists => Filled(t) = Full
<1>1. Exists => Elapsed(t) \in Nat
  BY ScriptTime
<1>2. Exists => Rate * Elapsed(t) \in Nat
  BY <1>1, Monotone
<1>3. Exists => /\ Filled(t) \in 0..Full
                /\ Filled(t) <= tokens + Rate * Elapsed(t)
  BY <1>2 DEF Filled, Refilled, Least, Exists, BucketType
<1>4. ~Exists => Filled(t) = Full
  BY DEF Filled
<1>5. Filled(t) \in 0..Full
  BY <1>3, <1>4
<1>6. /\ Grain * take \in Nat /\ Grain * charged \in Nat
      /\ Grain * (charged + take) = Grain * charged + Grain * take
  BY Times, Distribute DEF BucketType
<1>7. CASE Allowed(take, t)
  <2>1. tokens' = Filled(t) - Grain * take /\ charged' = charged + take /\ Grain * take <= Filled(t)
    BY <1>5, <1>6, <1>7 DEF Script, Charge, Allowed
  <2>2. Grain * charged' = Grain * charged + Grain * take
    BY <1>6, <2>1
  <2> QED
    BY <1>3, <1>4, <1>5, <1>6, <2>1, <2>2
<1>8. CASE ~Allowed(take, t)
  <2>1. tokens' = Filled(t) /\ charged' = charged
    BY <1>8 DEF Script, Charge
  <2>2. Grain * charged' = Grain * charged
    BY <2>1
  <2> QED
    BY <1>3, <1>4, <1>5, <1>6, <2>1, <2>2
<1> QED
  BY <1>7, <1>8

(* One run of the script keeps the bound. *)
LEMMA ScriptKeepsBound ==
  ASSUME BucketInv, NEW take \in Nat \ {0}, NEW t \in Nat, Script(take, t)
  PROVE  BucketBound' /\ tokens' \in 0..Full
<1> USE DEF BucketInv
<1>1. Grain * charged' + tokens' <= Full + Rate * (ts' + rewound')
  <2>1. CASE Exists
    <3>1. Rate * (ts' + rewound') = Rate * (ts + rewound) + Rate * Elapsed(t)
      BY <2>1, ScriptTime, Distribute DEF BucketType
    <3>2. Grain * charged + tokens <= Full + Rate * (ts + rewound)
      BY <2>1 DEF BucketBound, Most, Exists, BucketType
    <3>3. Rate * (ts + rewound) \in Nat /\ Rate * Elapsed(t) \in Nat
      BY <2>1, ScriptTime, Monotone DEF BucketType
    <3>4. Grain * charged' + tokens' <= Grain * charged + tokens + Rate * Elapsed(t)
      <4>1. /\ Grain * charged' + tokens' = Grain * charged + Filled(t)
            /\ Filled(t) <= tokens + Rate * Elapsed(t)
            /\ Grain * charged \in Nat
        BY <2>1, ScriptCharge
      <4>2. Filled(t) \in Int
        BY <2>1, <3>3 DEF Filled, Refilled, Least, BucketType
      <4> QED
        BY <3>3, <4>1, <4>2 DEF BucketType
    <3>5. Grain * charged' \in Nat /\ Grain * charged \in Nat /\ tokens' \in Nat
      BY ScriptCharge
    <3> QED
      BY <3>1, <3>2, <3>3, <3>4, <3>5 DEF BucketType
  <2>2. CASE ~Exists /\ charged = 0
    <3>1. Rate * (ts' + rewound') \in Nat
      BY <2>2, ScriptTime, Monotone
    <3>2. Grain * charged' + tokens' = Full
      BY <2>2, ScriptCharge
    <3> QED
      BY <3>1, <3>2
  <2>3. CASE ~Exists /\ charged # 0
    <3> DEFINE d == ts' + rewound' - (ts + rewound + KeyTTL)
    <3>1. d \in Nat /\ ts' + rewound' = ts + rewound + KeyTTL + d
      BY <2>3, ScriptTime DEF BucketType
    <3> HIDE DEF d
    <3>2. Rate * (ts' + rewound') = Rate * (ts + rewound + KeyTTL) + Rate * d
      BY <3>1, Distribute DEF BucketType
    <3>3. Rate * (ts + rewound + KeyTTL) = Rate * (ts + rewound) + Rate * KeyTTL
      BY Distribute DEF BucketType
    <3>4. Rate * d \in Nat /\ Rate * (ts + rewound) \in Nat /\ Rate * KeyTTL \in Nat
      BY <3>1, Monotone DEF BucketType
    <3>5. Grain * charged <= Full + Rate * (ts + rewound)
      BY <2>3, <3>4 DEF BucketBound, Most, Exists, BucketType
    <3>6. Grain * charged' + tokens' = Grain * charged + Full
      BY <2>3, ScriptCharge
    <3> QED
      BY <3>2, <3>3, <3>4, <3>5, <3>6, ScriptCharge DEF BucketType
  <2> QED
    BY <2>1, <2>2, <2>3
<1>2. tokens' \in 0..Full
  BY ScriptCharge
<1>3. Most(0, tokens') = tokens'
  BY <1>2 DEF Most
<1> QED
  BY <1>1, <1>2, <1>3 DEF BucketBound, Most

LEMMA BucketInit == Init => BucketInv
<1> SUFFICES ASSUME Init PROVE BucketInv
  OBVIOUS
<1>1. BucketType
  BY DEF Init, BucketType
<1>2. Rate * (ts + rewound) \in Nat
  BY <1>1, Monotone DEF BucketType
<1> QED
  BY <1>1, <1>2 DEF Init, BucketInv, BucketBound, Most

(* Whatever a caller does, either one script runs or the bucket is left     *)
(* alone; a caller's time is a natural number.                              *)
LEMMA StepIsScript ==
  ASSUME BucketType, [Next]_vars
  PROVE  /\ now' \in Nat /\ stamp' \in [Callers -> Nat]
         /\ \/ \E take \in Nat \ {0}, t \in Nat : Script(take, t)
            \/ UNCHANGED redisVars
            \/ tokens' \in {tokens, -1} /\ ttl' \in Int /\ UNCHANGED <<ts, charged, rewound>>
<1>1. CASE Tick
  BY <1>1 DEF Tick, BucketType, Most
<1>2. ASSUME NEW c \in Callers,
             TakeLocal(c) \/ TakeEmpty(c) \/ AllowN(c) \/ Credit(c)
      PROVE  now' \in Nat /\ stamp' \in [Callers -> Nat] /\ UNCHANGED redisVars
  <2>1. Clock(c) \in Nat
    BY DEF Clock, BucketType
  <2> QED
    BY <1>2, <2>1 DEF TakeLocal, TakeEmpty, AllowN, Credit, BucketType
<1>3. ASSUME NEW c \in Callers, RunBatch(c) \/ RunSingle(c) \/ TakeError(c)
      PROVE  /\ now' \in Nat /\ stamp' \in [Callers -> Nat]
             /\ \/ \E take \in Nat \ {0}, t \in Nat : Script(take, t)
                \/ UNCHANGED redisVars
  <2>1. now' = now /\ stamp' = [stamp EXCEPT ![c] = 0]
    BY <1>3 DEF RunBatch, RunSingle, TakeError
  <2>2. \/ Script(BatchSize, stamp[c]) \/ Script(1, stamp[c]) \/ UNCHANGED redisVars
    BY <1>3 DEF RunBatch, RunSingle, TakeError
  <2>3. stamp[c] \in Nat /\ BatchSize \in Nat \ {0} /\ 1 \in Nat \ {0}
    BY DEF BucketType
  <2> QED
    BY <2>1, <2>2, <2>3 DEF BucketType
<1>4. ASSUME NEW r \in Replicas, Restart(r)
      PROVE  now' \in Nat /\ stamp' \in [Callers -> Nat] /\ UNCHANGED redisVars
  BY <1>4 DEF Restart, BucketType
<1>5. CASE UNCHANGED vars
  BY <1>5 DEF vars, redisVars, BucketType
<1> QED
  BY <1>1, <1>2, <1>3, <1>4, <1>5 DEF Next

LEMMA BucketStep == BucketInv /\ [Next]_vars => BucketInv'
<1> SUFFICES ASSUME BucketInv, [Next]_vars
             PROVE  BucketInv'
  OBVIOUS
<1>1. BucketType
  BY DEF BucketInv
<1>2. now' \in Nat /\ stamp' \in [Callers -> Nat]
  BY <1>1, StepIsScript
<1>3. ASSUME NEW take \in Nat \ {0}, NEW t \in Nat, Script(take, t)
      PROVE  BucketInv'
  <2>1. BucketBound' /\ tokens' \in 0..Full
    BY <1>3, ScriptKeepsBound
  <2>2. ts' \in Nat /\ rewound' \in Nat /\ charged' \in Nat /\ ttl' \in Int
    BY <1>1, <1>3, ScriptTime DEF Script
  <2> QED
    BY <1>2, <2>1, <2>2 DEF BucketInv, BucketType
<1>4. ASSUME tokens' \in {tokens, -1}, ttl' \in Int, UNCHANGED <<ts, charged, rewound>>
      PROVE  BucketInv'
  <2>1. Rate * (ts + rewound) \in Nat
    BY <1>1, Monotone DEF BucketType
  <2>2. Grain * charged + Most(0, tokens) <= Full + Rate * (ts + rewound)
    BY DEF BucketInv, BucketBound
  <2>3. Most(0, tokens') <= Most(0, tokens) /\ Most(0, tokens) \in Nat /\ Most(0, tokens') \in Nat
    BY <1>1, <1>4 DEF Most, BucketType
  <2>4. Grain * charged + Most(0, tokens') <= Full + Rate * (ts + rewound)
    <3>1. Grain * charged \in Nat
      BY <1>1, Times DEF BucketType
    <3> QED
      BY <2>1, <2>2, <2>3, <3>1
  <2>5. BucketBound'
    BY <1>4, <2>4 DEF BucketBound, Most
  <2> QED
    BY <1>1, <1>2, <1>4, <2>5 DEF BucketInv, BucketType
<1>5. CASE UNCHANGED redisVars
  BY <1>1, <1>4, <1>5 DEF redisVars, BucketType
<1> QED
  BY <1>1, <1>3, <1>4, <1>5, StepIsScript

LEMMA BucketAlways == Spec => []BucketInv
BY BucketInit, BucketStep, PTL DEF Spec

(* The bucket never yields more than its capacity and the refill of the     *)
(* time that passed by its callers' clocks (fallen-back time counted        *)
(* again), whatever the skew, the order of the scripts and the faults.      *)
THEOREM BucketIsBounded == Spec => []BucketBound
BY BucketAlways, PTL DEF BucketInv

(* What a division rounded up yields. *)
LEMMA Ceiling ==
  ASSUME NEW n \in Nat \ {0}, NEW r \in Nat \ {0}
  PROVE  LET q == (n + r - 1) \div r
         IN  q \in Nat \ {0} /\ n <= r * q /\ r * (q - 1) < n
<1> DEFINE x == n + r - 1
           q == x \div r
<1>1. x \in Nat /\ x >= r
  OBVIOUS
<1>2. q \in Nat /\ x = r * q + (x % r) /\ x % r \in 0..(r - 1)
  BY <1>1, SMT
<1>3. r * q \in Int /\ r * (q - 1) = r * q - r
  BY <1>2, SMT
<1>4. r * q <= x /\ x < r * q + r
  BY <1>1, <1>2, <1>3
<1>5. q # 0
  BY <1>1, <1>2, SMT
<1> HIDE DEF q
<1> QED
  BY <1>2, <1>3, <1>4, <1>5 DEF q

(* What the script denies a single take for: less than a token is there,    *)
(* and the wait is the ticks that the rest of it takes, rounded up.         *)
LEMMA DenialWaits ==
  ASSUME TypeOK, NEW t \in Nat, ~Allowed(1, t)
  PROVE  /\ Filled(t) \in Nat /\ Filled(t) < Grain
         /\ RetryAfter(t) \in Nat \ {0}
         /\ Filled(t) + Rate * RetryAfter(t) >= Grain
         /\ Filled(t) + Rate * (RetryAfter(t) - 1) < Grain
<1>1. Elapsed(t) \in Nat
  BY DEF TypeOK, Elapsed, Most
<1>2. Rate * Elapsed(t) \in Nat
  BY <1>1, Monotone
<1>3. Filled(t) \in Nat
  BY <1>2 DEF TypeOK, Filled, Refilled, Least, Exists
<1>4. Filled(t) < Grain
  BY <1>3 DEF Allowed
<1>5. PICK n \in Nat \ {0} : n = Grain - Filled(t)
  BY <1>3, <1>4
<1>6. RetryAfter(t) = (n + Rate - 1) \div Rate
  BY <1>5 DEF RetryAfter
<1>7. /\ RetryAfter(t) \in Nat \ {0} /\ n <= Rate * RetryAfter(t)
      /\ Rate * (RetryAfter(t) - 1) < n
  BY <1>6, Ceiling
<1>8. Rate * RetryAfter(t) \in Nat /\ Rate * (RetryAfter(t) - 1) \in Nat
  BY <1>7, Monotone
<1> HIDE DEF RetryAfter
<1> QED
  BY <1>3, <1>4, <1>5, <1>7, <1>8

(* The variables keep their types: local credit, waits and counts stay      *)
(* natural numbers and the bucket stays between absent and full.            *)
THEOREM LimiterTypes == Spec => []TypeOK
<1>1. Init => TypeOK
  BY FaultsAssumption DEF Init, TypeOK, Labels, FaultsInit, FaultsTypeOK
<1>2. TypeOK /\ BucketInv' /\ [Next]_vars => TypeOK'
  <2> SUFFICES ASSUME TypeOK, BucketType', [Next]_vars
               PROVE  TypeOK'
    BY DEF BucketInv
  <2> USE FaultsAssumption DEF TypeOK, BucketType, Labels, FaultsTypeOK, NoFault, Fault, Goto, redisVars
  <2>1. CASE Tick
    BY <2>1 DEF Tick, Most
  <2>2. ASSUME NEW c \in Callers, TakeLocal(c) \/ TakeEmpty(c) \/ AllowN(c) PROVE TypeOK'
    <3>1. CASE TakeLocal(c)
      BY <3>1 DEF TakeLocal
    <3>2. CASE TakeEmpty(c)
      BY <3>2 DEF TakeEmpty
    <3>3. CASE AllowN(c)
      BY <3>3 DEF AllowN
    <3> QED
      BY <2>2, <3>1, <3>2, <3>3
  <2>3. ASSUME NEW c \in Callers, RunBatch(c) PROVE TypeOK'
    <3>1. ttl' = KeyTTL /\ pc' \in [Callers -> Labels]
      BY <2>3 DEF RunBatch, Script
    <3> QED
      BY <2>3, <3>1 DEF RunBatch
  <2>4. ASSUME NEW c \in Callers, Credit(c) PROVE TypeOK'
    BY <2>4 DEF Credit, Credited
  <2>5. ASSUME NEW c \in Callers, RunSingle(c) PROVE TypeOK'
    <3>1. ttl' = KeyTTL /\ pc' \in [Callers -> Labels]
      BY <2>5 DEF RunSingle, Script
    <3>2. served' \in Nat /\ retry' \in [Callers -> Nat]
      <4>1. CASE Allowed(1, stamp[c])
        BY <2>5, <4>1 DEF RunSingle
      <4>2. CASE ~Allowed(1, stamp[c])
        <5>1. RetryAfter(stamp[c]) \in Nat
          BY <4>2, DenialWaits
        <5> QED
          BY <2>5, <4>2, <5>1 DEF RunSingle
      <4> QED
        BY <4>1, <4>2
    <3> QED
      BY <2>5, <3>1, <3>2 DEF RunSingle
  <2>6. ASSUME NEW c \in Callers, TakeError(c) PROVE TypeOK'
    <3>1. ttl' \in 0..KeyTTL /\ pc' \in [Callers -> Labels]
      BY <2>6 DEF TakeError, Script
    <3> QED
      BY <2>6, <3>1 DEF TakeError
  <2>7. ASSUME NEW r \in Replicas, Restart(r) PROVE TypeOK'
    BY <2>7 DEF Restart
  <2>8. CASE UNCHANGED vars
    BY <2>8 DEF vars
  <2> QED
    BY <2>1, <2>2, <2>3, <2>4, <2>5, <2>6, <2>7, <2>8 DEF Next
<1> QED
  BY <1>1, <1>2, BucketAlways, PTL DEF Spec

(* Whoever waits for the RetryAfter of its denial, on its own clock, finds  *)
(* a token if nobody took it, and whoever comes back a tick earlier does    *)
(* not (RateLimit's RetrySuffices): the script never asks a caller to come  *)
(* back too early, or later than it has to, however the bucket's level and  *)
(* the rate divide a token and however far the clocks are apart.            *)
THEOREM RetryIsEnough == Spec => RetrySuffices
<1>1. TypeOK /\ [Next]_vars =>
        [\A c \in Callers :
           pc[c] = "single" /\ pc'[c] = "idle" /\ UNCHANGED <<served, faults>> =>
             WaitIsExact(c)]_vars
  <2> SUFFICES ASSUME TypeOK, Next, NEW c \in Callers, pc[c] = "single", pc'[c] = "idle",
                      UNCHANGED <<served, faults>>
               PROVE  WaitIsExact(c)
    OBVIOUS
  <2>f. faults \in Nat /\ served \in Nat
    BY FaultsAssumption DEF TypeOK, FaultsTypeOK
  <2>1. RunSingle(c)
    <3>1. ASSUME NEW r \in Replicas PROVE ~Restart(r)
      BY <2>f DEF Restart, Fault
    <3>2. ~Tick
      BY DEF Tick
    <3>3. PICK d \in Callers : \/ TakeLocal(d) \/ TakeEmpty(d) \/ AllowN(d) \/ RunBatch(d)
                               \/ Credit(d) \/ RunSingle(d) \/ TakeError(d)
      BY <3>1, <3>2 DEF Next
    <3>4. RunSingle(d)
      <4>1. ~TakeLocal(d) /\ ~Credit(d) /\ ~TakeError(d)
        BY <2>f DEF TakeLocal, Credit, TakeError, Fault
      <4>2. ASSUME TakeEmpty(d) \/ AllowN(d) \/ RunBatch(d)
            PROVE  pc'[c] # "idle"
        BY <4>2 DEF TakeEmpty, AllowN, RunBatch, Goto, TypeOK
      <4> QED
        BY <3>3, <4>1, <4>2
    <3>5. d = c
      BY <3>4 DEF RunSingle, Goto, TypeOK
    <3> QED
      BY <3>4, <3>5
  <2>2. stamp[c] \in Nat /\ Script(1, stamp[c])
    BY <2>1 DEF RunSingle, TypeOK
  <2>3. ~Allowed(1, stamp[c]) /\ retry'[c] = RetryAfter(stamp[c])
    BY <2>f, <2>1 DEF RunSingle, TypeOK
  <2> DEFINE w == RetryAfter(stamp[c])
  <2>4. tokens' = Filled(stamp[c]) /\ ts' = stamp[c]
    BY <2>2, <2>3 DEF Script, Charge
  <2>5. /\ tokens' \in Nat /\ w \in Nat \ {0}
        /\ tokens' + Rate * w >= Grain /\ tokens' + Rate * (w - 1) < Grain
    BY <2>2, <2>3, <2>4, DenialWaits
  <2>6. stamp[c] + retry'[c] - ts' = w
    BY <2>2, <2>3, <2>4, <2>5
  <2>7. PICK a \in Nat, b \in Nat : a = Rate * w /\ b = Rate * (w - 1)
    <3>1. w - 1 \in Nat
      BY <2>5
    <3> QED
      BY <2>5, <3>1, Monotone
  <2> HIDE DEF w
  <2>8. Least(Full, tokens' + a) >= Grain /\ Least(Full, tokens' + b) < Grain
    <3>1. tokens' + a >= Grain /\ tokens' + b < Grain /\ tokens' \in Nat
      BY Zenon, <2>5, <2>7
    <3>2. tokens' + a \in Nat /\ tokens' + b \in Nat
      BY Zenon, <3>1, Plus
    <3> QED
      BY Zenon, <3>1, <3>2, Capped
  <2>9. Refilled(tokens', w) >= Grain /\ Refilled(tokens', w - 1) < Grain
    BY <2>7, <2>8 DEF Refilled
  <2> QED
    BY <2>6, <2>9 DEF WaitIsExact
<1> QED
  BY <1>1, LimiterTypes, PTL DEF Spec, RetrySuffices

-----------------------------------------------------------------------------
(* Where the charged tokens are.  The tokens the bucket was charged for are *)
(* numbered; each is in one place: a request that was let through, the      *)
(* reservoir of a replica, or on its way to one with a worker.  Tokens that *)
(* an error or a restart loses stay where they were.                        *)

LOCAL INSTANCE FiniteSetTheorems

Served == <<"served", 0>>
Local(r) == <<"local", r>>
OnTheWay(c) == <<"granted", c>>

Places == {Served} \cup {Local(r) : r \in Replicas} \cup {OnTheWay(c) : c \in Callers}

At(own, n, x) == {t \in 1..n : own[t] = x}

Holds(own, n, x, k) == Cardinality(At(own, n, x)) >= k

(* Every request let through, every local token and every granted batch has *)
(* charged tokens of its own.                                               *)
Covers(own, n, s, loc, at) ==
  /\ own \in [1..n -> Places]
  /\ Holds(own, n, Served, s)
  /\ \A r \in Replicas : Holds(own, n, Local(r), loc[r])
  /\ \A c \in Callers : at[c] = "credit" => Holds(own, n, OnTheWay(c), BatchSize)

TokenInv == \E own : Covers(own, charged, served, local, pc)

LEMMA BatchIsNat == BatchSize \in Nat
BY Constants

LEMMA PlacesDiffer ==
  /\ \A r : Served # Local(r) /\ \A c : Local(r) # OnTheWay(c)
  /\ \A c : Served # OnTheWay(c)
  /\ \A r, s : r # s => Local(r) # Local(s)
  /\ \A c, d : c # d => OnTheWay(c) # OnTheWay(d)
  /\ Served \in Places
  /\ \A r \in Replicas : Local(r) \in Places
  /\ \A c \in Callers : OnTheWay(c) \in Places
<1>1. \A a, b, x, y : <<a, x>> = <<b, y>> => a = b /\ x = y
  OBVIOUS
<1>2. "served" # "local" /\ "served" # "granted" /\ "local" # "granted"
  OBVIOUS
<1>3. \A r : Served # Local(r)
  BY Zenon, <1>1, <1>2 DEF Served, Local
<1>4. \A c : Served # OnTheWay(c)
  BY Zenon, <1>1, <1>2 DEF Served, OnTheWay
<1>5. \A r, c : Local(r) # OnTheWay(c)
  BY Zenon, <1>1, <1>2 DEF Local, OnTheWay
<1>6. \A r, s : r # s => Local(r) # Local(s)
  BY Zenon, <1>1 DEF Local
<1>7. \A c, d : c # d => OnTheWay(c) # OnTheWay(d)
  BY Zenon, <1>1 DEF OnTheWay
<1>8. Served \in Places /\ (\A r \in Replicas : Local(r) \in Places) /\ \A c \in Callers : OnTheWay(c) \in Places
  BY Zenon DEF Places
<1> QED
  BY Zenon, <1>3, <1>4, <1>5, <1>6, <1>7, <1>8

LEMMA AtFinite ==
  ASSUME NEW n \in Nat, NEW own, NEW x
  PROVE  IsFiniteSet(At(own, n, x)) /\ Cardinality(At(own, n, x)) \in Nat /\ Cardinality(At(own, n, x)) <= n
<1>1. 1 \in Int /\ n \in Int /\ (1 > n => n = 0) /\ n - 1 + 1 = n
  OBVIOUS
<1>2. IsFiniteSet(1..n) /\ Cardinality(1..n) = n
  BY Zenon, <1>1, FS_Interval
<1>3. At(own, n, x) \in SUBSET (1..n)
  BY Zenon DEF At
<1> QED
  BY Zenon, <1>2, <1>3, FS_Subset, FS_CardinalityType

LEMMA Weaken ==
  ASSUME NEW n \in Nat, NEW own, NEW x, NEW k \in Nat, NEW j \in Nat, j <= k, Holds(own, n, x, k)
  PROVE  Holds(own, n, x, j)
BY AtFinite DEF Holds

(* Newly charged tokens are in one place. *)
LEMMA Issue ==
  ASSUME NEW n \in Nat, NEW own \in [1..n -> Places], NEW k \in Nat, NEW x \in Places
  PROVE  \E new \in [1..(n + k) -> Places] :
           /\ \A y : \A j \in Nat : Holds(own, n, y, j) => Holds(new, n + k, y, j)
           /\ \A j \in Nat : Holds(own, n, x, j) => Holds(new, n + k, x, j + k)
<1> DEFINE new == [t \in 1..(n + k) |-> IF t \in 1..n THEN own[t] ELSE x]
           N == (n + 1)..(n + k)
<1>1. /\ n + k \in Nat /\ n + 1 \in Int /\ n + k \in Int
      /\ (n + 1 > n + k => k = 0) /\ (n + k) - (n + 1) + 1 = k
      /\ 1..n \cap N = {} /\ 1..(n + k) = 1..n \cup N
  OBVIOUS
<1>2. new \in [1..(n + k) -> Places]
  BY Zenon
<1>3. IsFiniteSet(N) /\ Cardinality(N) = k
  BY Zenon, <1>1, FS_Interval
<1> HIDE DEF N
<1>4. \A y : At(own, n, y) \subseteq At(new, n + k, y)
  BY Zenon, <1>1 DEF At
<1>5. At(own, n, x) \cup N \subseteq At(new, n + k, x) /\ At(own, n, x) \cap N = {}
  BY Zenon, <1>1 DEF At
<1> HIDE DEF new
<1>6. ASSUME NEW y, NEW j \in Nat, Holds(own, n, y, j) PROVE Holds(new, n + k, y, j)
  <2>1. Cardinality(At(own, n, y)) <= Cardinality(At(new, n + k, y))
    BY Zenon, <1>1, <1>4, AtFinite, FS_Subset
  <2>2. Cardinality(At(own, n, y)) \in Nat /\ Cardinality(At(new, n + k, y)) \in Nat
    BY Zenon, <1>1, AtFinite
  <2> QED
    BY <1>6, <2>1, <2>2 DEF Holds
<1>7. ASSUME NEW j \in Nat, Holds(own, n, x, j) PROVE Holds(new, n + k, x, j + k)
  <2> DEFINE Old == At(own, n, x)
             B == At(new, n + k, x)
  <2>1. IsFiniteSet(Old) /\ Cardinality(Old) \in Nat /\ IsFiniteSet(B) /\ Cardinality(B) \in Nat
    BY Zenon, <1>1, AtFinite
  <2>2. Cardinality(Old \cup N) = Cardinality(Old) + k - 0
    BY Zenon, <1>3, <1>5, <2>1, FS_Union, FS_EmptySet
  <2>3. Cardinality(Old \cup N) <= Cardinality(B)
    BY Zenon, <1>5, <2>1, FS_Subset
  <2>4. Cardinality(Old) >= j
    BY Zenon, <1>7 DEF Holds
  <2> HIDE DEF Old, B
  <2>5. Cardinality(B) >= j + k
    BY <2>1, <2>2, <2>3, <2>4
  <2> QED
    BY Zenon, <2>5 DEF Holds, B
<1> QED
  BY Zenon, <1>2, <1>6, <1>7

(* One token moves from x to y. *)
LEMMA Pass ==
  ASSUME NEW n \in Nat, NEW own \in [1..n -> Places], NEW x, NEW y \in Places, x # y, Holds(own, n, x, 1)
  PROVE  \E new \in [1..n -> Places] :
           /\ \A z : \A j \in Nat : z # x /\ Holds(own, n, z, j) => Holds(new, n, z, j)
           /\ \A j \in Nat : Holds(own, n, x, j + 1) => Holds(new, n, x, j)
           /\ \A j \in Nat : Holds(own, n, y, j) => Holds(new, n, y, j + 1)
<1>1. PICK t \in 1..n : own[t] = x
  <2>1. At(own, n, x) # {}
    BY FS_EmptySet, AtFinite DEF Holds
  <2> QED
    BY Zenon, <2>1 DEF At
<1> DEFINE new == [i \in 1..n |-> IF i = t THEN y ELSE own[i]]
<1>2. new \in [1..n -> Places]
  BY Zenon
<1>3. /\ \A z : z # x => At(own, n, z) \subseteq At(new, n, z)
      /\ At(own, n, x) \ {t} \subseteq At(new, n, x) /\ t \in At(own, n, x)
      /\ At(own, n, y) \cup {t} \subseteq At(new, n, y) /\ t \notin At(own, n, y)
  BY Zenon, <1>1 DEF At
<1> HIDE DEF new
<1>4. \A f, z : IsFiniteSet(At(f, n, z)) /\ Cardinality(At(f, n, z)) \in Nat
  BY Zenon, AtFinite
<1>5. ASSUME NEW z, NEW j \in Nat, z # x, Holds(own, n, z, j) PROVE Holds(new, n, z, j)
  <2>1. Cardinality(At(own, n, z)) <= Cardinality(At(new, n, z))
    BY Zenon, <1>3, <1>4, <1>5, FS_Subset
  <2> QED
    BY <1>4, <1>5, <2>1 DEF Holds
<1>6. ASSUME NEW j \in Nat, Holds(own, n, x, j + 1) PROVE Holds(new, n, x, j)
  <2>1. Cardinality(At(own, n, x) \ {t}) = Cardinality(At(own, n, x)) - 1
    BY Zenon, <1>3, <1>4, FS_RemoveElement
  <2>2. Cardinality(At(own, n, x) \ {t}) <= Cardinality(At(new, n, x))
    BY Zenon, <1>3, <1>4, FS_Subset
  <2> QED
    BY <1>4, <1>6, <2>1, <2>2 DEF Holds
<1>7. ASSUME NEW j \in Nat, Holds(own, n, y, j) PROVE Holds(new, n, y, j + 1)
  <2>1. Cardinality(At(own, n, y) \cup {t}) = Cardinality(At(own, n, y)) + 1
    BY Zenon, <1>3, <1>4, FS_AddElement
  <2>2. Cardinality(At(own, n, y) \cup {t}) <= Cardinality(At(new, n, y))
    BY Zenon, <1>3, <1>4, FS_Subset
  <2> QED
    BY <1>4, <1>7, <2>1, <2>2 DEF Holds
<1> QED
  BY Zenon, <1>2, <1>5, <1>6, <1>7

(* All tokens at x move to y. *)
LEMMA PassAll ==
  ASSUME NEW n \in Nat, NEW own \in [1..n -> Places], NEW x, NEW y \in Places, x # y, NEW k \in Nat, Holds(own, n, x, k)
  PROVE  \E new \in [1..n -> Places] :
           /\ \A z : \A j \in Nat : z # x /\ Holds(own, n, z, j) => Holds(new, n, z, j)
           /\ \A j \in Nat : Holds(own, n, y, j) => Holds(new, n, y, j + k)
<1> DEFINE new == [i \in 1..n |-> IF own[i] = x THEN y ELSE own[i]]
           Old == At(own, n, y)
           T == At(own, n, x)
           B == At(new, n, y)
<1>1. new \in [1..n -> Places]
  BY Zenon
<1>2. /\ \A z : z # x => At(own, n, z) \subseteq At(new, n, z)
      /\ Old \cup T \subseteq B /\ Old \cap T = {}
  BY Zenon DEF At
<1> HIDE DEF new
<1>3. \A f, z : IsFiniteSet(At(f, n, z)) /\ Cardinality(At(f, n, z)) \in Nat
  BY Zenon, AtFinite
<1>4. ASSUME NEW z, NEW j \in Nat, z # x, Holds(own, n, z, j) PROVE Holds(new, n, z, j)
  <2>1. Cardinality(At(own, n, z)) <= Cardinality(At(new, n, z))
    BY Zenon, <1>2, <1>3, <1>4, FS_Subset
  <2> QED
    BY <1>3, <1>4, <2>1 DEF Holds
<1>5. ASSUME NEW j \in Nat, Holds(own, n, y, j) PROVE Holds(new, n, y, j + k)
  <2>1. /\ Cardinality(Old) >= j /\ Cardinality(T) >= k
        /\ Cardinality(Old) \in Nat /\ Cardinality(T) \in Nat /\ Cardinality(B) \in Nat
    BY Zenon, <1>3, <1>5 DEF Holds
  <2>2. Cardinality(Old \cup T) = Cardinality(Old) + Cardinality(T) - 0
    BY Zenon, <1>2, <1>3, FS_Union, FS_EmptySet
  <2>3. Cardinality(Old \cup T) <= Cardinality(B)
    BY Zenon, <1>2, <1>3, FS_Subset
  <2> HIDE DEF Old, B, T
  <2>4. Cardinality(B) >= j + k
    BY <2>1, <2>2, <2>3
  <2> QED
    BY Zenon, <2>4 DEF Holds, B
<1> QED
  BY Zenon, <1>1, <1>4, <1>5

(* Tokens may be lost, and new ones charged, without being used. *)
LEMMA Fewer ==
  ASSUME NEW n \in Nat, NEW k \in Nat, NEW s \in Nat, NEW loc \in [Replicas -> Nat], NEW at,
         NEW loc2 \in [Replicas -> Nat], NEW at2, NEW own, Covers(own, n, s, loc, at),
         \A r \in Replicas : loc2[r] <= loc[r],
         \A c \in Callers : at2[c] = "credit" => at[c] = "credit"
  PROVE  \E new : Covers(new, n + k, s, loc2, at2)
<1>1. own \in [1..n -> Places] /\ Served \in Places
  BY Zenon, PlacesDiffer DEF Covers
<1>2. PICK new \in [1..(n + k) -> Places] :
        \A y : \A j \in Nat : Holds(own, n, y, j) => Holds(new, n + k, y, j)
  BY Zenon, <1>1, Issue
<1>3. Holds(new, n + k, Served, s)
  BY Zenon, <1>2 DEF Covers
<1>4. ASSUME NEW r \in Replicas PROVE Holds(new, n + k, Local(r), loc2[r])
  <2>1. loc[r] \in Nat /\ loc2[r] \in Nat /\ loc2[r] <= loc[r] /\ Holds(own, n, Local(r), loc[r])
    BY Zenon, <1>4 DEF Covers
  <2>2. Holds(own, n, Local(r), loc2[r])
    BY Zenon, <2>1, Weaken
  <2> QED
    BY Zenon, <1>2, <2>1, <2>2
<1>5. ASSUME NEW c \in Callers, at2[c] = "credit" PROVE Holds(new, n + k, OnTheWay(c), BatchSize)
  <2>1. BatchSize \in Nat
    OBVIOUS
  <2> QED
    BY Zenon, <1>2, <1>5, <2>1 DEF Covers
<1> QED
  BY Zenon, <1>2, <1>3, <1>4, <1>5 DEF Covers

(* A charge for a batch goes to the worker that asked for it. *)
LEMMA BatchOnTheWay ==
  ASSUME NEW n \in Nat, NEW s \in Nat, NEW loc \in [Replicas -> Nat], NEW at, NEW at2,
         NEW own, Covers(own, n, s, loc, at), NEW c \in Callers,
         \A d \in Callers : d # c /\ at2[d] = "credit" => at[d] = "credit"
  PROVE  \E new : Covers(new, n + BatchSize, s, loc, at2)
<1>1. own \in [1..n -> Places] /\ OnTheWay(c) \in Places /\ BatchSize \in Nat
  BY Zenon, PlacesDiffer, BatchIsNat DEF Covers
<1>2. PICK new \in [1..(n + BatchSize) -> Places] :
        /\ \A y : \A j \in Nat : Holds(own, n, y, j) => Holds(new, n + BatchSize, y, j)
        /\ \A j \in Nat : Holds(own, n, OnTheWay(c), j) => Holds(new, n + BatchSize, OnTheWay(c), j + BatchSize)
  BY Zenon, <1>1, Issue
<1>3. Holds(new, n + BatchSize, OnTheWay(c), BatchSize)
  <2>1. Holds(own, n, OnTheWay(c), 0) /\ 0 \in Nat /\ 0 + BatchSize = BatchSize
    BY AtFinite DEF Holds
  <2> QED
    BY Zenon, <1>2, <2>1
<1>4. \A r \in Replicas : loc[r] \in Nat
  BY Zenon
<1>5. ASSUME NEW d \in Callers, at2[d] = "credit" PROVE Holds(new, n + BatchSize, OnTheWay(d), BatchSize)
  <2>1. CASE d = c
    BY Zenon, <1>3, <2>1
  <2>2. CASE d # c
    BY Zenon, <1>1, <1>2, <1>5, <2>2 DEF Covers
  <2> QED
    BY Zenon, <2>1, <2>2
<1> QED
  BY Zenon, <1>2, <1>4, <1>5 DEF Covers

(* A charge for one token lets one request through. *)
LEMMA OneServed ==
  ASSUME NEW n \in Nat, NEW s \in Nat, NEW loc \in [Replicas -> Nat], NEW at, NEW at2,
         NEW own, Covers(own, n, s, loc, at),
         \A d \in Callers : at2[d] = "credit" => at[d] = "credit"
  PROVE  \E new : Covers(new, n + 1, s + 1, loc, at2)
<1>1. own \in [1..n -> Places] /\ Served \in Places /\ 1 \in Nat /\ BatchSize \in Nat
  BY Zenon, PlacesDiffer, BatchIsNat DEF Covers
<1>2. PICK new \in [1..(n + 1) -> Places] :
        /\ \A y : \A j \in Nat : Holds(own, n, y, j) => Holds(new, n + 1, y, j)
        /\ \A j \in Nat : Holds(own, n, Served, j) => Holds(new, n + 1, Served, j + 1)
  BY Zenon, <1>1, Issue
<1>3. \A r \in Replicas : loc[r] \in Nat
  BY Zenon
<1> QED
  BY Zenon, <1>1, <1>2, <1>3 DEF Covers

(* A request takes a token of its replica's reservoir. *)
LEMMA FromReservoir ==
  ASSUME NEW n \in Nat, NEW s \in Nat, NEW loc \in [Replicas -> Nat], NEW at,
         NEW own, Covers(own, n, s, loc, at), NEW r \in Replicas, loc[r] >= 1
  PROVE  \E new : Covers(new, n, s + 1, [loc EXCEPT ![r] = @ - 1], at)
<1> DEFINE less == [loc EXCEPT ![r] = @ - 1]
<1>1. /\ own \in [1..n -> Places] /\ Served \in Places /\ BatchSize \in Nat
      /\ Local(r) # Served
  BY Zenon, PlacesDiffer, BatchIsNat DEF Covers
<1>2. loc[r] \in Nat /\ 1 \in Nat /\ less[r] \in Nat /\ less[r] + 1 = loc[r] /\ 1 <= loc[r]
  OBVIOUS
<1>3. \A q \in Replicas : q # r => less[q] = loc[q] /\ loc[q] \in Nat
  BY Zenon
<1>4. Holds(own, n, Local(r), loc[r])
  BY Zenon DEF Covers
<1>5. Holds(own, n, Local(r), 1)
  BY Zenon, <1>2, <1>4, Weaken
<1>6. PICK new \in [1..n -> Places] :
           /\ \A z : \A j \in Nat : z # Local(r) /\ Holds(own, n, z, j) => Holds(new, n, z, j)
           /\ \A j \in Nat : Holds(own, n, Local(r), j + 1) => Holds(new, n, Local(r), j)
           /\ \A j \in Nat : Holds(own, n, Served, j) => Holds(new, n, Served, j + 1)
  BY Zenon, <1>1, <1>5, Pass
<1> HIDE DEF less
<1>7. ASSUME NEW q \in Replicas PROVE Holds(new, n, Local(q), less[q])
  <2>1. CASE q = r
    BY Zenon, <1>2, <1>4, <1>6, <2>1
  <2>2. CASE q # r
    BY Zenon, <1>3, <1>6, <2>2, PlacesDiffer DEF Covers
  <2> QED
    BY Zenon, <2>1, <2>2
<1>8. ASSUME NEW c \in Callers, at[c] = "credit" PROVE Holds(new, n, OnTheWay(c), BatchSize)
  BY Zenon, <1>1, <1>6, <1>8, PlacesDiffer DEF Covers
<1>9. Holds(new, n, Served, s + 1)
  BY Zenon, <1>6 DEF Covers
<1>10. Covers(new, n, s + 1, less, at)
  BY Zenon, <1>6, <1>7, <1>8, <1>9 DEF Covers
<1> QED
  BY Zenon, <1>10 DEF less

(* A granted batch: one token is used now, the others go to the reservoir. *)
LEMMA BatchArrives ==
  ASSUME NEW n \in Nat, NEW s \in Nat, NEW loc \in [Replicas -> Nat], NEW at, NEW at2,
         NEW own, Covers(own, n, s, loc, at), NEW c \in Callers, NEW r \in Replicas,
         at[c] = "credit", at2[c] # "credit",
         \A d \in Callers : d # c => at2[d] = at[d]
  PROVE  \E new : Covers(new, n, s + 1, [loc EXCEPT ![r] = @ + Credited], at2)
<1> DEFINE more == [loc EXCEPT ![r] = @ + Credited]
           x == OnTheWay(c)
<1>1. /\ own \in [1..n -> Places] /\ Served \in Places /\ Local(r) \in Places /\ BatchSize \in Nat
      /\ x # Served /\ x # Local(r) /\ Served # Local(r)
      /\ \A q : x # Local(q)
  BY Zenon, PlacesDiffer, BatchIsNat DEF Covers
<1>2. /\ 1 \in Nat /\ 1 <= BatchSize /\ Credited \in Nat /\ Credited + 1 = BatchSize
      /\ more[r] = loc[r] + Credited /\ loc[r] \in Nat
  BY DEF Credited
<1>3. \A q \in Replicas : q # r => more[q] = loc[q] /\ loc[q] \in Nat
  BY Zenon
<1> HIDE DEF more
<1>4. Holds(own, n, x, BatchSize)
  BY Zenon DEF Covers
<1>5. Holds(own, n, x, 1)
  BY Zenon, <1>1, <1>2, <1>4, Weaken
<1> HIDE DEF x
<1>6. PICK mid \in [1..n -> Places] :
           /\ \A z : \A j \in Nat : z # x /\ Holds(own, n, z, j) => Holds(mid, n, z, j)
           /\ \A j \in Nat : Holds(own, n, x, j + 1) => Holds(mid, n, x, j)
           /\ \A j \in Nat : Holds(own, n, Served, j) => Holds(mid, n, Served, j + 1)
  BY Zenon, <1>1, <1>5, Pass
<1>7. Holds(mid, n, x, Credited)
  BY Zenon, <1>2, <1>4, <1>6
<1>8. PICK new \in [1..n -> Places] :
           /\ \A z : \A j \in Nat : z # x /\ Holds(mid, n, z, j) => Holds(new, n, z, j)
           /\ \A j \in Nat : Holds(mid, n, Local(r), j) => Holds(new, n, Local(r), j + Credited)
  BY Zenon, <1>1, <1>2, <1>7, PassAll
<1>9. s + 1 \in Nat
  OBVIOUS
<1>10. Holds(new, n, Served, s + 1)
  BY Zenon, <1>1, <1>6, <1>8, <1>9 DEF Covers
<1>11. ASSUME NEW q \in Replicas PROVE Holds(new, n, Local(q), more[q])
  <2>1. loc[q] \in Nat /\ Holds(own, n, Local(q), loc[q])
    BY Zenon DEF Covers
  <2>2. Holds(mid, n, Local(q), loc[q])
    BY Zenon, <1>1, <1>6, <2>1
  <2>3. CASE q = r
    BY Zenon, <1>2, <1>8, <2>1, <2>2, <2>3
  <2>4. CASE q # r
    BY Zenon, <1>1, <1>3, <1>8, <2>1, <2>2, <2>4
  <2> QED
    BY Zenon, <2>3, <2>4
<1>12. ASSUME NEW d \in Callers, at2[d] = "credit" PROVE Holds(new, n, OnTheWay(d), BatchSize)
  <2>1. d # c /\ at[d] = "credit"
    BY Zenon, <1>12
  <2>2. OnTheWay(d) # x /\ Holds(own, n, OnTheWay(d), BatchSize)
    BY Zenon, <2>1, PlacesDiffer DEF Covers, x
  <2> QED
    BY Zenon, <1>1, <1>6, <1>8, <2>2
<1>13. Covers(new, n, s + 1, more, at2)
  BY Zenon, <1>8, <1>10, <1>11, <1>12 DEF Covers
<1> QED
  BY Zenon, <1>13 DEF more

LEMMA TokenInit == Init => TokenInv
<1> SUFFICES ASSUME Init PROVE TokenInv
  OBVIOUS
<1> DEFINE own == [t \in 1..0 |-> Served]
<1>1. own \in [1..0 -> Places]
  BY Zenon, PlacesDiffer
<1> HIDE DEF own
<1>2. 0 \in Nat
  OBVIOUS
<1>3. \A x : Holds(own, 0, x, 0)
  BY <1>2, AtFinite DEF Holds
<1>4. /\ charged = 0 /\ served = 0 /\ \A r \in Replicas : local[r] = 0
      /\ \A c \in Callers : pc[c] # "credit"
  BY DEF Init
<1> QED
  BY Zenon, <1>1, <1>3, <1>4 DEF TokenInv, Covers

(* A script charges what it was asked for, or nothing. *)
LEMMA ScriptCharges ==
  ASSUME NEW take, NEW t, Script(take, t)
  PROVE  charged' = IF Allowed(take, t) THEN charged + take ELSE charged
BY Zenon DEF Script, Allowed

LEMMA TokenStep == TypeOK /\ TokenInv /\ [Next]_vars => TokenInv'
<1> SUFFICES ASSUME TypeOK, TokenInv, [Next]_vars
             PROVE  \E new : Covers(new, charged', served', local', pc')
  BY Zenon DEF TokenInv
<1>1. PICK own : Covers(own, charged, served, local, pc)
  BY Zenon DEF TokenInv
<1>2. /\ charged \in Nat /\ served \in Nat /\ local \in [Replicas -> Nat]
      /\ pc \in [Callers -> Labels] /\ charged + 0 = charged /\ 0 \in Nat /\ 1 \in Nat
  BY DEF TypeOK
<1>3. \A r \in Replicas : local[r] <= local[r] /\ 0 <= local[r]
  BY <1>2
(* Nothing is credited, granted or let through. *)
<1>4. ASSUME NEW k \in Nat, charged' = charged + k, served' = served, local' = local,
             \A c \in Callers : pc'[c] = "credit" => pc[c] = "credit"
      PROVE  \E new : Covers(new, charged', served', local', pc')
  BY Zenon, <1>1, <1>2, <1>3, <1>4, Fewer
<1>5. ASSUME UNCHANGED <<charged, served, local>>,
             \A c \in Callers : pc'[c] = "credit" => pc[c] = "credit"
      PROVE  \E new : Covers(new, charged', served', local', pc')
  BY Zenon, <1>2, <1>4, <1>5
<1>6. CASE Tick \/ UNCHANGED vars
  <2>1. UNCHANGED <<charged, served, local, pc>>
    BY Zenon, <1>6 DEF Tick, vars, redisVars
  <2> QED
    BY Zenon, <1>5, <2>1
<1>7. ASSUME NEW c \in Callers, TakeLocal(c)
      PROVE  \E new : Covers(new, charged', served', local', pc')
  <2>1. Home[c] \in Replicas
    BY Zenon, Constants
  <2>2. /\ local[Home[c]] >= 1 /\ local' = [local EXCEPT ![Home[c]] = @ - 1]
        /\ served' = served + 1 /\ pc' = pc /\ charged' = charged
    BY Zenon, <1>7 DEF TakeLocal, redisVars
  <2> QED
    BY Zenon, <1>1, <1>2, <2>1, <2>2, FromReservoir
<1>8. ASSUME NEW c \in Callers, TakeEmpty(c) \/ AllowN(c)
      PROVE  \E new : Covers(new, charged', served', local', pc')
  <2>1. UNCHANGED <<charged, served, local>>
    BY Zenon, <1>8 DEF TakeEmpty, AllowN, redisVars
  <2>2. \E l \in {"refill", "batch", "single"} : pc' = [pc EXCEPT ![c] = l]
    BY Zenon, <1>8 DEF TakeEmpty, AllowN, Goto
  <2>3. \A d \in Callers : pc'[d] = "credit" => pc[d] = "credit"
    BY <1>2, <2>2
  <2> QED
    BY Zenon, <1>5, <2>1, <2>3
<1>9. ASSUME NEW c \in Callers, RunBatch(c)
      PROVE  \E new : Covers(new, charged', served', local', pc')
  <2>1. served' = served /\ local' = local /\ Script(BatchSize, stamp[c])
    BY Zenon, <1>9 DEF RunBatch
  <2>2. pc' = [pc EXCEPT ![c] = IF Allowed(BatchSize, stamp[c]) THEN "credit" ELSE "fallback"]
    BY Zenon, <1>9 DEF RunBatch, Goto
  <2>3. CASE Allowed(BatchSize, stamp[c])
    <3>1. charged' = charged + BatchSize
      BY Zenon, <2>1, <2>3, ScriptCharges
    <3>2. \A d \in Callers : d # c /\ pc'[d] = "credit" => pc[d] = "credit"
      BY Zenon, <1>2, <2>2
    <3> QED
      BY Zenon, <1>1, <1>2, <2>1, <3>1, <3>2, BatchOnTheWay
  <2>4. CASE ~Allowed(BatchSize, stamp[c])
    <3>1. charged' = charged
      BY Zenon, <2>1, <2>4, ScriptCharges
    <3>2. \A d \in Callers : pc'[d] = "credit" => pc[d] = "credit"
      BY <1>2, <2>2, <2>4
    <3> QED
      BY Zenon, <1>5, <2>1, <3>1, <3>2
  <2> QED
    BY Zenon, <2>3, <2>4
<1>10. ASSUME NEW c \in Callers, Credit(c)
       PROVE  \E new : Covers(new, charged', served', local', pc')
  <2>1. Home[c] \in Replicas
    BY Zenon, Constants
  <2>2. /\ pc[c] = "credit" /\ pc' = [pc EXCEPT ![c] = "idle"]
        /\ local' = [local EXCEPT ![Home[c]] = @ + Credited]
        /\ served' = served + 1 /\ charged' = charged
    BY Zenon, <1>10 DEF Credit, Goto, redisVars
  <2>3. pc'[c] # "credit" /\ \A d \in Callers : d # c => pc'[d] = pc[d]
    BY <1>2, <2>2
  <2> QED
    BY Zenon, <1>1, <1>2, <2>1, <2>2, <2>3, BatchArrives
<1>11. ASSUME NEW c \in Callers, RunSingle(c)
       PROVE  \E new : Covers(new, charged', served', local', pc')
  <2>1. local' = local /\ Script(1, stamp[c]) /\ pc' = [pc EXCEPT ![c] = "idle"]
    BY Zenon, <1>11 DEF RunSingle, Goto
  <2>2. \A d \in Callers : pc'[d] = "credit" => pc[d] = "credit"
    BY <1>2, <2>1
  <2>3. CASE Allowed(1, stamp[c])
    <3>1. charged' = charged + 1 /\ served' = served + 1
      BY Zenon, <1>11, <2>1, <2>3, ScriptCharges DEF RunSingle
    <3> QED
      BY Zenon, <1>1, <1>2, <2>1, <2>2, <3>1, OneServed
  <2>4. CASE ~Allowed(1, stamp[c])
    <3>1. charged' = charged /\ served' = served
      BY Zenon, <1>11, <2>1, <2>4, ScriptCharges DEF RunSingle
    <3> QED
      BY Zenon, <1>5, <2>1, <2>2, <3>1
  <2> QED
    BY Zenon, <2>3, <2>4
<1>12. ASSUME NEW c \in Callers, TakeError(c)
       PROVE  \E new : Covers(new, charged', served', local', pc')
  <2>1. /\ local' = local /\ served' = served /\ pc' = [pc EXCEPT ![c] = "idle"]
        /\ Script(BatchSize, stamp[c]) \/ Script(1, stamp[c]) \/ charged' = charged
    BY Zenon, <1>12 DEF TakeError, Goto, redisVars
  <2>2. \A d \in Callers : pc'[d] = "credit" => pc[d] = "credit"
    BY <1>2, <2>1
  <2>3. \E k \in Nat : charged' = charged + k
    BY Zenon, <1>2, <2>1, ScriptCharges, BatchIsNat
  <2> QED
    BY Zenon, <1>4, <2>1, <2>2, <2>3
<1>13. ASSUME NEW r \in Replicas, Restart(r)
       PROVE  \E new : Covers(new, charged', served', local', pc')
  <2>1. /\ local' = [local EXCEPT ![r] = 0] /\ served' = served /\ charged' = charged
        /\ pc' = [c \in Callers |-> IF Home[c] = r THEN "idle" ELSE pc[c]]
    BY Zenon, <1>13 DEF Restart, redisVars
  <2>2. \A d \in Callers : pc'[d] = "credit" => pc[d] = "credit"
    BY <2>1
  <2>3. local' \in [Replicas -> Nat] /\ \A q \in Replicas : local'[q] <= local[q]
    BY <1>2, <2>1
  <2>4. \E new : Covers(new, charged + 0, served, local', pc')
    BY Zenon, <1>1, <1>2, <2>2, <2>3, Fewer
  <2> QED
    BY Zenon, <1>2, <2>1, <2>4
<1> QED
  BY Zenon, <1>6, <1>7, <1>8, <1>9, <1>10, <1>11, <1>12, <1>13 DEF Next

(* The requests let through by all replicas together are at most the        *)
(* bucket's capacity and the refill of the time that passed by the callers' *)
(* clocks, fallen-back time counted again.                                  *)
ServedWithinAllowance ==
  served <= charged /\ Grain * served <= Full + Rate * (ts + rewound)

(* The rate limit end to end, for any number of replicas and workers: the   *)
(* reservoirs in front of the bucket let no request through that the        *)
(* bucket was not charged for, although workers refill concurrently with    *)
(* the mutex released (Reservoir.Take), answers are lost and replicas       *)
(* restart; so the bucket's bound is one on the requests.                   *)
THEOREM ThroughputIsBounded == Spec => []ServedWithinAllowance
<1>1. TypeOK /\ BucketInv /\ TokenInv => ServedWithinAllowance
  <2> SUFFICES ASSUME TypeOK, BucketInv, TokenInv PROVE ServedWithinAllowance
    OBVIOUS
  <2>1. charged \in Nat /\ served \in Nat /\ ts \in Nat /\ rewound \in Nat /\ tokens \in Int
    BY DEF TypeOK
  <2>2. PICK own : Holds(own, charged, Served, served)
    BY Zenon DEF TokenInv, Covers
  <2>3. served <= charged
    BY <2>1, <2>2, AtFinite DEF Holds
  <2>4. Rate * (ts + rewound) \in Nat
    BY Zenon, <2>1, Monotone2
  <2>5. Grain * charged + Most(0, tokens) <= Full + Rate * (ts + rewound)
    BY Zenon DEF BucketInv, BucketBound
  <2>6. Most(0, tokens) \in Nat
    BY <2>1 DEF Most
  <2>7. PICK d \in Nat : charged = served + d
    <3>1. charged - served \in Nat /\ charged = served + (charged - served)
      BY <2>1, <2>3
    <3> QED
      BY <3>1
  <2>8. /\ Grain * charged = Grain * served + Grain * d
        /\ Grain * served \in Nat /\ Grain * d \in Nat
    BY <2>1, <2>7, Distribute, Times
  <2>9. Grain * served <= Full + Rate * (ts + rewound)
    <3>1. PICK e \in Nat, m \in Nat, x \in Nat, y \in Nat :
            /\ e = Rate * (ts + rewound) /\ m = Most(0, tokens)
            /\ x = Grain * served /\ y = Grain * d
      BY Zenon, <2>4, <2>6, <2>8
    <3>2. x + y + m <= Full + e
      BY <2>5, <2>8, <3>1
    <3>3. x <= Full + e
      BY <3>2
    <3> QED
      BY Zenon, <3>1, <3>3
  <2> QED
    BY Zenon, <2>3, <2>9 DEF ServedWithinAllowance
<1>2. Spec => []TokenInv
  BY TokenInit, TokenStep, LimiterTypes, PTL DEF Spec
<1> QED
  BY <1>1, <1>2, BucketAlways, LimiterTypes, PTL
=============================================================================

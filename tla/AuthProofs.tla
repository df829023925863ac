----------------------------- MODULE AuthProofs -----------------------------
(***************************************************************************)
(* Revocation, for any number of keys and of requests in progress and for  *)
(* all timers that satisfy AuthAssumption.                                 *)
(*                                                                         *)
(* The argument counts ticks.  A row read as active is stored at most      *)
(* ReqTimeout after the revocation; the entry lives CacheTTL; a request    *)
(* that has read the entry looks at the marker at most ReqTimeout later.   *)
(* Covered says that what is left of the marker is enough for what is left *)
(* of each of these, Aged that what has passed since the revocation is     *)
(* bounded by what each of these has used up.                              *)
(***************************************************************************)
EXTENDS Auth, FiniteSetTheorems, TLAPS

(* A request that is let in, or about to be, knows its key. *)
Found == \A r \in Requests : pc[r] \in {"check", "invalidate", "store", "pass"} => via[r] \in Keys

(* A marker outlives what could still let the key in. *)
Covered ==
  \A k \in Keys : marked[k] =>
    /\ row[k] # None /\ ~active[k]
    /\ cache[k] > 0 => cache[k] + ReqTimeout <= marker[k]
    /\ \A r \in Requests : via[r] = k =>
         /\ pc[r] = "check" => ReqTimeout - age[r] < marker[k]
         /\ pc[r] = "store" => CacheTTL + ReqTimeout + (ReqTimeout - age[r]) <= marker[k]

(* The endpoint writes the marker of a row it has revoked. *)
Marking == \A k \in Keys : revoker[k] = "mark" => row[k] # None /\ ~active[k]

(* A request that came after the revocation does not find the row active. *)
LateInv ==
  \A r \in Requests :
    /\ \A k \in late[r] : marked[k]
    /\ via[r] \in late[r] => pc[r] # "store" /\ (pc[r] = "pass" => open[r])

(* How long a key can have been revoked when something still vouches for it. *)
Aged ==
  \A k \in Keys :
    /\ ~Revoked(k) => gone[k] = 0
    /\ cache[k] > 0 => gone[k] + cache[k] <= CacheTTL + ReqTimeout
    /\ \A r \in Requests : via[r] = k =>
         /\ pc[r] = "check" => gone[k] <= CacheTTL + ReqTimeout + age[r]
         /\ pc[r] = "store" => gone[k] <= age[r]

RInv == TypeOK /\ Found /\ Covered /\ Marking /\ LateInv

-----------------------------------------------------------------------------
(* The variables keep their types and ranges (Auth's TypeOK). *)
THEOREM AuthTypes == Spec => []TypeOK
<1>1. Init => TypeOK
  BY AuthAssumption, FaultsAssumption
     DEF Init, TypeOK, Labels, FaultsInit, FaultsTypeOK, Horizon, Tail
<1>2. TypeOK /\ [Next]_vars => TypeOK'
  <2> SUFFICES ASSUME TypeOK, [Next]_vars PROVE TypeOK'
    OBVIOUS
  <2> USE AuthAssumption, FaultsAssumption
      DEF TypeOK, Labels, FaultsTypeOK, Fault, NoFault, Goto, gateVars, redisVars, keyVars, reqVars, Finds, Done
  <2>1. ASSUME NEW r \in Requests, NEW b \in Bearers, Arrive(r, b) PROVE TypeOK'
    BY Zenon, <2>1 DEF Arrive
  <2>2. ASSUME NEW r \in Requests, Step(r) PROVE TypeOK'
    <3>1. CASE LookupAuthCache(r)
      BY <3>1 DEF LookupAuthCache
    <3>2. CASE IsKeyRevoked(r)
      <4>1. open' \in [Requests -> BOOLEAN]
        BY <3>2, Zenon DEF IsKeyRevoked
      <4>2. pc' \in [Requests -> Labels] /\ faults' \in 0..MaxFaults
        BY <3>2 DEF IsKeyRevoked
      <4> QED BY <3>2, <4>1, <4>2 DEF IsKeyRevoked
    <3>3. CASE InvalidateAuthCache(r)
      BY <3>3 DEF InvalidateAuthCache
    <3>4. CASE IsAuthFailureLocked(r)
      <4>1. CASE Done(r)
        BY <3>4, <4>1 DEF IsAuthFailureLocked
      <4>2. CASE Goto(r, "list") /\ UNCHANGED reqVars
        BY <3>4, <4>2 DEF IsAuthFailureLocked
      <4> QED BY Zenon, <3>4, <4>1, <4>2 DEF IsAuthFailureLocked
    <3>5. CASE ListActiveAPIKeys(r)
      <4>1. CASE Done(r)
        BY <3>5, <4>1 DEF ListActiveAPIKeys
      <4>2. ASSUME NEW k \in Keys, Finds(r, k), Goto(r, "store"),
                   UNCHANGED <<bearer, age, late, open>>
            PROVE  TypeOK'
        BY Zenon, <3>5, <4>2 DEF ListActiveAPIKeys
      <4>3. CASE Goto(r, "note") /\ UNCHANGED reqVars
        BY Zenon, <3>5, <4>3 DEF ListActiveAPIKeys
      <4> QED BY Zenon, <3>5, <4>1, <4>2, <4>3 DEF ListActiveAPIKeys
    <3>6. CASE StoreAuthCache(r)
      BY <3>6 DEF StoreAuthCache, Cached
    <3>7. CASE NoteAuthFailure(r)
      BY <3>7 DEF NoteAuthFailure
    <3>8. CASE Serve(r)
      BY <3>8 DEF Serve
    <3> QED BY Zenon, <2>2, <3>1, <3>2, <3>3, <3>4, <3>5, <3>6, <3>7, <3>8 DEF Step
  <2>3. ASSUME NEW k \in Keys, RevokeAPIKey(k) PROVE TypeOK'
    BY <2>3 DEF RevokeAPIKey
  <2>4. ASSUME NEW k \in Keys, MarkKeyRevoked(k) PROVE TypeOK'
    <3>2. marked' \in [Keys -> BOOLEAN]
      BY <2>4, Zenon DEF MarkKeyRevoked
    <3>3. /\ marker' \in [Keys -> 0..RevokedTTL] /\ faults' \in 0..MaxFaults
          /\ revoker' \in [Keys -> {"idle", "mark"}]
      BY <2>4 DEF MarkKeyRevoked, MarkerTTL
    <3> QED BY <2>4, <3>2, <3>3 DEF MarkKeyRevoked
  <2>5. ASSUME NEW k \in Keys, NEW b \in Bearers, SeedDevKey(k, b) PROVE TypeOK'
    BY Zenon, <2>5 DEF SeedDevKey, Horizon, Tail
  <2>6. CASE Tick
    <3>1. age' \in [Requests -> 0..ReqTimeout]
      BY <2>6 DEF Tick, Running
    <3>2. cache' \in [Keys -> 0..CacheTTL]
      BY <2>6 DEF Tick, Less
    <3>3. marker' \in [Keys -> 0..RevokedTTL]
      BY <2>6 DEF Tick, Less
    <3>4. failures' \in Nat /\ expiry' \in 0..Window /\ quiet' \in Nat
      BY <2>6 DEF Tick, Less
    <3>5. gone' \in [Keys -> 0..Horizon]
      <4>1. Horizon \in Nat
        BY DEF Horizon, Tail
      <4> HIDE DEF Horizon
      <4>2. ASSUME NEW k \in Keys
            PROVE  (IF Revoked(k) /\ gone[k] < Horizon THEN gone[k] + 1 ELSE gone[k]) \in 0..Horizon
        BY <4>1
      <4> QED BY <2>6, <4>2 DEF Tick
    <3> QED BY Zenon, <2>6, <3>1, <3>2, <3>3, <3>4, <3>5 DEF Tick
  <2>7. CASE UNCHANGED vars
    BY <2>7 DEF vars
  <2> QED BY <2>1, <2>2, <2>3, <2>4, <2>5, <2>6, <2>7 DEF Next
<1> QED BY <1>1, <1>2, PTL DEF Spec

-----------------------------------------------------------------------------
(* The invariant behind RevokedStaysOut, from the marker's timer. *)
THEOREM RevocationInvariant == Spec => []RInv
<1>1. Init => RInv
  <2>1. Init => TypeOK
    BY AuthAssumption, FaultsAssumption
       DEF Init, TypeOK, Labels, FaultsInit, FaultsTypeOK, Horizon, Tail
  <2> QED BY Zenon, <2>1 DEF Init, RInv, Found, Covered, Marking, LateInv
<1>2. RInv /\ TypeOK' /\ [Next]_vars => RInv'
  <2> SUFFICES ASSUME TypeOK, Found, Covered, Marking, LateInv, TypeOK', [Next]_vars
               PROVE  Found' /\ Covered' /\ Marking' /\ LateInv'
    BY Zenon DEF RInv
  <2> USE AuthAssumption DEF TypeOK, NoFault, Goto, gateVars, redisVars, keyVars, reqVars, Finds, Done
  <2>1. ASSUME NEW r \in Requests, NEW b \in Bearers, Arrive(r, b)
        PROVE  Found' /\ Covered' /\ Marking' /\ LateInv'
    <3>1. Found'
      BY Zenon, <2>1 DEF Arrive, Found
    <3>2. Covered'
      BY Zenon, <2>1 DEF Arrive, Covered
    <3>3. LateInv'
      BY Zenon, <2>1 DEF Arrive, LateInv
    <3>4. Marking'
      BY Zenon, <2>1 DEF Arrive, Marking
    <3> QED BY Zenon, <3>1, <3>2, <3>3, <3>4
  <2>2. ASSUME NEW r \in Requests, Step(r)
        PROVE  Found' /\ Covered' /\ Marking' /\ LateInv'
    <3>1. CASE LookupAuthCache(r)
      <4>1. Found'
        BY <3>1 DEF LookupAuthCache, Hit, Found
      <4>2. Covered'
        BY <3>1 DEF LookupAuthCache, Hit, Covered
      <4>3. LateInv'
        BY <3>1 DEF LookupAuthCache, Hit, LateInv
      <4>4. Marking'
        BY Zenon, <3>1 DEF LookupAuthCache, Hit, Marking
      <4> QED BY Zenon, <4>1, <4>2, <4>3, <4>4
    <3>2. CASE IsKeyRevoked(r)
      <4>1. Found'
        BY <3>2 DEF IsKeyRevoked, Found
      <4>2. Covered'
        BY <3>2 DEF IsKeyRevoked, Covered
      <4>3. LateInv'
        <5>1. via[r] \in late[r] => marker[via[r]] > 0
          BY <3>2 DEF IsKeyRevoked, LateInv, Covered
        <5>2. ASSUME NEW q \in Requests, via[q] \in late[q] PROVE pc'[q] = "pass" => open'[q]
          BY <3>2, <5>1, <5>2 DEF IsKeyRevoked, LateInv
        <5> QED BY <3>2, <5>2 DEF IsKeyRevoked, LateInv
      <4>4. Marking'
        BY Zenon, <3>2 DEF IsKeyRevoked, Marking
      <4> QED BY <4>1, <4>2, <4>3, <4>4
    <3>3. CASE InvalidateAuthCache(r)
      <4>1. Found'
        BY Zenon, <3>3 DEF InvalidateAuthCache, Found
      <4>2. Covered'
        BY <3>3 DEF InvalidateAuthCache, Covered
      <4>3. LateInv'
        BY Zenon, <3>3 DEF InvalidateAuthCache, LateInv
      <4>4. Marking'
        BY Zenon, <3>3 DEF InvalidateAuthCache, Marking
      <4> QED BY <4>1, <4>2, <4>3, <4>4
    <3>4. CASE IsAuthFailureLocked(r)
      <4>1. Found'
        BY <3>4 DEF IsAuthFailureLocked, Found
      <4>2. Covered'
        BY <3>4 DEF IsAuthFailureLocked, Covered
      <4>3. LateInv'
        BY <3>4 DEF IsAuthFailureLocked, LateInv
      <4>4. Marking'
        BY Zenon, <3>4 DEF IsAuthFailureLocked, Marking
      <4> QED BY <4>1, <4>2, <4>3, <4>4
    <3>5. CASE ListActiveAPIKeys(r)
      <4>1. Found'
        BY <3>5 DEF ListActiveAPIKeys, Verifies, Found
      <4>2. Covered'
        BY <3>5 DEF ListActiveAPIKeys, Verifies, Covered
      <4>3. LateInv'
        <5>1. \A k \in late[r] : ~active[k]
          BY DEF LateInv, Covered
        <5> QED BY <3>5, <5>1 DEF ListActiveAPIKeys, Verifies, LateInv
      <4>4. Marking'
        BY Zenon, <3>5 DEF ListActiveAPIKeys, Verifies, Marking
      <4> QED BY <4>1, <4>2, <4>3, <4>4
    <3>6. CASE StoreAuthCache(r)
      <4>1. Found'
        BY Zenon, <3>6 DEF StoreAuthCache, Cached, Found
      <4>2. Covered'
        BY <3>6 DEF StoreAuthCache, Cached, Covered
      <4>3. LateInv'
        BY Zenon, <3>6 DEF StoreAuthCache, LateInv
      <4>4. Marking'
        BY Zenon, <3>6 DEF StoreAuthCache, Cached, Marking
      <4> QED BY <4>1, <4>2, <4>3, <4>4
    <3>7. CASE NoteAuthFailure(r)
      <4>1. Found'
        BY Zenon, <3>7 DEF NoteAuthFailure, Found
      <4>2. Covered'
        BY Zenon, <3>7 DEF NoteAuthFailure, Covered
      <4>3. LateInv'
        BY Zenon, <3>7 DEF NoteAuthFailure, LateInv
      <4>4. Marking'
        BY Zenon, <3>7 DEF NoteAuthFailure, Marking
      <4> QED BY <4>1, <4>2, <4>3, <4>4
    <3>8. CASE Serve(r)
      <4>1. Found'
        BY Zenon, <3>8 DEF Serve, Found
      <4>2. Covered'
        BY Zenon, <3>8 DEF Serve, Covered
      <4>3. LateInv'
        BY Zenon, <3>8 DEF Serve, LateInv
      <4>4. Marking'
        BY Zenon, <3>8 DEF Serve, Marking
      <4> QED BY <4>1, <4>2, <4>3, <4>4
    <3> QED BY Zenon, <2>2, <3>1, <3>2, <3>3, <3>4, <3>5, <3>6, <3>7, <3>8 DEF Step
  <2>3. ASSUME NEW k \in Keys, RevokeAPIKey(k)
        PROVE  Found' /\ Covered' /\ Marking' /\ LateInv'
    <3>1. Found'
      BY Zenon, <2>3 DEF RevokeAPIKey, Found
    <3>2. Covered'
      BY <2>3 DEF RevokeAPIKey, Covered
    <3>3. LateInv'
      BY Zenon, <2>3 DEF RevokeAPIKey, LateInv
    <3>4. Marking'
      BY ZenonT(30), <2>3 DEF RevokeAPIKey, Marking
    <3> QED BY Zenon, <3>1, <3>2, <3>3, <3>4
  <2>4. ASSUME NEW k \in Keys, MarkKeyRevoked(k)
        PROVE  Found' /\ Covered' /\ Marking' /\ LateInv'
    <3>1. Found'
      BY Zenon, <2>4 DEF MarkKeyRevoked, MarkerTTL, Found
    <3>2. Covered'
      BY <2>4 DEF MarkKeyRevoked, MarkerTTL, Covered, Marking
    <3>3. LateInv'
      <4>1. \A q \in Keys : marked[q] => marked'[q]
        BY <2>4 DEF MarkKeyRevoked, Covered
      <4> QED BY Zenon, <2>4, <4>1 DEF MarkKeyRevoked, LateInv
    <3>4. Marking'
      BY <2>4 DEF MarkKeyRevoked, MarkerTTL, Marking
    <3> QED BY <3>1, <3>2, <3>3, <3>4
  <2>5. ASSUME NEW k \in Keys, NEW b \in Bearers, SeedDevKey(k, b)
        PROVE  Found' /\ Covered' /\ Marking' /\ LateInv'
    <3>1. Found'
      BY Zenon, <2>5 DEF SeedDevKey, Found
    <3>2. Covered'
      BY <2>5 DEF SeedDevKey, Covered
    <3>3. LateInv'
      BY Zenon, <2>5 DEF SeedDevKey, LateInv
    <3>4. Marking'
      BY <2>5 DEF SeedDevKey, Marking
    <3> QED BY Zenon, <3>1, <3>2, <3>3, <3>4
  <2>6. CASE Tick
    <3>1. Found'
      BY Zenon, <2>6 DEF Tick, Found
    <3>2. Covered'
      BY <2>6 DEF Tick, Less, Running, Covered
    <3>3. LateInv'
      BY Zenon, <2>6 DEF Tick, LateInv
    <3>4. Marking'
      BY Zenon, <2>6 DEF Tick, Marking
    <3> QED BY Zenon, <3>1, <3>2, <3>3, <3>4
  <2>7. CASE UNCHANGED vars
    BY <2>7 DEF vars, Found, Covered, Marking, LateInv
  <2> QED BY Zenon, <2>1, <2>2, <2>3, <2>4, <2>5, <2>6, <2>7 DEF Next
<1> QED BY <1>1, <1>2, AuthTypes, PTL DEF Spec

(* A key whose marker has been written lets in no request that comes later *)
(* (Auth's RevokedStaysOut), unless that request's own EXISTS fails.       *)
THEOREM RevocationHolds == Spec => []RevokedStaysOut
<1>1. RInv => RevokedStaysOut
  BY DEF RInv, LateInv, RevokedStaysOut
<1> QED BY <1>1, RevocationInvariant, PTL

-----------------------------------------------------------------------------
(* The invariant behind RevokedExpires, from the cache's timer alone. *)
THEOREM AgeInvariant == Spec => []Aged
<1>1. Init => Aged
  BY DEF Init, Revoked, Aged
<1>2. Aged /\ RInv /\ TypeOK' /\ [Next]_vars => Aged'
  <2> SUFFICES ASSUME TypeOK, Found, Aged, TypeOK', [Next]_vars
               PROVE  Aged'
    BY Zenon DEF RInv
  <2> USE AuthAssumption DEF TypeOK, NoFault, Goto, gateVars, redisVars, keyVars, reqVars, Finds, Done
  <2>1. ASSUME NEW r \in Requests, NEW b \in Bearers, Arrive(r, b) PROVE Aged'
    BY Zenon, <2>1 DEF Arrive, Revoked, Aged
  <2>2. ASSUME NEW r \in Requests, Step(r) PROVE Aged'
    <3>1. CASE LookupAuthCache(r)
      BY <3>1 DEF LookupAuthCache, Hit, Found, Revoked, Aged
    <3>2. CASE IsKeyRevoked(r)
      BY <3>2 DEF IsKeyRevoked, Found, Revoked, Aged
    <3>3. CASE InvalidateAuthCache(r)
      <4>1. UNCHANGED <<row, active, gone, age>>
        BY Zenon, <3>3 DEF InvalidateAuthCache
      <4>3. \A k \in Keys : cache'[k] = cache[k] \/ cache'[k] = 0
        BY <3>3 DEF InvalidateAuthCache
      <4>4. pc'[r] = "gate" /\ \A q \in Requests \ {r} : pc'[q] = pc[q] /\ via'[q] = via[q]
        BY Zenon, <3>3 DEF InvalidateAuthCache
      <4>2. ~(0 > 0)
        OBVIOUS
      <4> HIDE DEF TypeOK
      <4> QED
        BY Zenon, <4>1, <4>2, <4>3, <4>4 DEF Revoked, Aged
    <3>4. CASE IsAuthFailureLocked(r)
      BY <3>4 DEF IsAuthFailureLocked, Found, Revoked, Aged
    <3>5. CASE ListActiveAPIKeys(r)
      BY <3>5 DEF ListActiveAPIKeys, Verifies, Found, Revoked, Aged
    <3>6. CASE StoreAuthCache(r)
      BY <3>6 DEF StoreAuthCache, Cached, Found, Revoked, Aged
    <3>7. CASE NoteAuthFailure(r)
      BY Zenon, <3>7 DEF NoteAuthFailure, Found, Revoked, Aged
    <3>8. CASE Serve(r)
      BY Zenon, <3>8 DEF Serve, Found, Revoked, Aged
    <3> QED BY Zenon, <2>2, <3>1, <3>2, <3>3, <3>4, <3>5, <3>6, <3>7, <3>8 DEF Step
  <2>3. ASSUME NEW k \in Keys, RevokeAPIKey(k) PROVE Aged'
    BY <2>3 DEF RevokeAPIKey, Revoked, Aged
  <2>4. ASSUME NEW k \in Keys, MarkKeyRevoked(k) PROVE Aged'
    BY Zenon, <2>4 DEF MarkKeyRevoked, MarkerTTL, Revoked, Aged
  <2>5. ASSUME NEW k \in Keys, NEW b \in Bearers, SeedDevKey(k, b) PROVE Aged'
    BY <2>5 DEF SeedDevKey, Revoked, Aged
  <2>6. CASE Tick
    BY <2>6 DEF Tick, Less, Running, Revoked, Aged
  <2>7. CASE UNCHANGED vars
    BY <2>7 DEF vars, Revoked, Aged
  <2> QED BY Zenon, <2>1, <2>2, <2>3, <2>4, <2>5, <2>6, <2>7 DEF Next
<1> QED BY <1>1, <1>2, AuthTypes, RevocationInvariant, PTL DEF Spec

(* Whatever becomes of the marker, a key stops letting requests in within  *)
(* the cache's TTL and the time of two requests (Auth's RevokedExpires).   *)
THEOREM RevocationExpires == Spec => RevokedExpires
<1>1. Aged /\ RInv /\ [Next]_vars
        => [\A r \in Requests :
              (pc[r] # "pass" /\ pc'[r] = "pass") => gone[via'[r]] <= Tail]_vars
  <2> SUFFICES ASSUME TypeOK, Found, Aged, Next,
                      NEW r \in Requests, pc[r] # "pass", pc'[r] = "pass"
               PROVE  gone[via'[r]] <= Tail
    BY Zenon DEF RInv
  <2> USE AuthAssumption DEF TypeOK, Goto, Done
  <2>1. Step(r)
    <3>1. \E q \in Requests : Step(q) \/ \E b \in Bearers : Arrive(q, b)
      BY Zenon DEF Next, RevokeAPIKey, MarkKeyRevoked, SeedDevKey, Tick
    <3>2. PICK q \in Requests : Step(q) \/ \E b \in Bearers : Arrive(q, b)
      BY Zenon, <3>1
    <3>3. pc' = [pc EXCEPT ![q] = pc'[q]]
      BY Zenon, <3>2 DEF Step, Arrive, LookupAuthCache, IsKeyRevoked, InvalidateAuthCache,
                  IsAuthFailureLocked, ListActiveAPIKeys, StoreAuthCache, NoteAuthFailure, Serve
    <3>4. q = r
      BY Zenon, <3>3
    <3> QED BY Zenon, <3>2, <3>4 DEF Arrive
  <2>2. pc[r] \in {"check", "store"}
    BY Zenon, <2>1 DEF Step, LookupAuthCache, IsKeyRevoked, InvalidateAuthCache,
                IsAuthFailureLocked, ListActiveAPIKeys, StoreAuthCache, NoteAuthFailure, Serve
  <2>3. via'[r] = via[r]
    BY <2>1, <2>2 DEF Step, LookupAuthCache, IsKeyRevoked, InvalidateAuthCache,
                IsAuthFailureLocked, ListActiveAPIKeys, StoreAuthCache, NoteAuthFailure, Serve,
                reqVars
  <2> QED BY <2>2, <2>3 DEF Found, Aged, Tail
<1> QED BY <1>1, AgeInvariant, RevocationInvariant, PTL DEF Spec, RevokedExpires

(* A failure counter without an expiry has counted no more failures than   *)
(* there were lost calls (Auth's CounterExpires).                          *)
THEOREM CounterIsTransient == Spec => []CounterExpires
<1>1. Init => CounterExpires
  BY FaultsAssumption DEF Init, CounterExpires, FaultsInit
<1>2. TypeOK /\ CounterExpires /\ [Next]_vars => CounterExpires'
  <2> SUFFICES ASSUME TypeOK, CounterExpires, [Next]_vars PROVE CounterExpires'
    BY Zenon
  <2> USE AuthAssumption, FaultsAssumption
      DEF TypeOK, FaultsTypeOK, NoFault, Fault, gateVars, redisVars, CounterExpires
  <2>1. ASSUME NEW r \in Requests, NoteAuthFailure(r) PROVE CounterExpires'
    BY <2>1 DEF NoteAuthFailure
  <2>2. CASE Tick
    BY <2>2 DEF Tick, Less
  <2>3. ASSUME UNCHANGED <<failures, expiry>>, faults' \in {faults, faults + 1}
        PROVE  CounterExpires'
    BY <2>3
  <2>4. CASE UNCHANGED vars
    BY Zenon, <2>3, <2>4 DEF vars
  <2>5. ASSUME NEW r \in Requests, Step(r) PROVE CounterExpires'
    BY Zenon, <2>1, <2>3, <2>5 DEF Step, LookupAuthCache, IsKeyRevoked, InvalidateAuthCache,
                  IsAuthFailureLocked, ListActiveAPIKeys, StoreAuthCache, Serve
  <2>6. ASSUME NEW r \in Requests, NEW b \in Bearers, Arrive(r, b) PROVE CounterExpires'
    BY Zenon, <2>3, <2>6 DEF Arrive
  <2>7. ASSUME NEW k \in Keys, RevokeAPIKey(k) \/ MarkKeyRevoked(k) \/ (\E b \in Bearers : SeedDevKey(k, b))
        PROVE  CounterExpires'
    BY Zenon, <2>3, <2>7 DEF RevokeAPIKey, MarkKeyRevoked, SeedDevKey
  <2> QED BY <2>2, <2>4, <2>5, <2>6, <2>7 DEF Next
<1> QED BY <1>1, <1>2, AuthTypes, PTL DEF Spec

(* The lock on a prefix ends a window after the last failure, whatever is  *)
(* turned away meanwhile (Auth's LockEnds).                                *)
THEOREM LockIsBounded == Spec => []LockEnds
<1>1. Init => LockEnds
  BY AuthAssumption DEF Init, LockEnds
<1>2. TypeOK /\ LockEnds /\ [Next]_vars => LockEnds'
  <2> SUFFICES ASSUME TypeOK, LockEnds, [Next]_vars PROVE LockEnds'
    OBVIOUS
  <2> USE AuthAssumption DEF TypeOK, gateVars, redisVars, LockEnds
  <2>1. ASSUME NEW r \in Requests, NoteAuthFailure(r) PROVE LockEnds'
    BY <2>1 DEF NoteAuthFailure
  <2>2. CASE Tick
    BY <2>2 DEF Tick, Less
  <2>3. CASE UNCHANGED gateVars
    BY Zenon, <2>3
  <2>4. ASSUME NEW r \in Requests, Step(r) PROVE LockEnds'
    BY Zenon, <2>1, <2>3, <2>4 DEF Step, LookupAuthCache, IsKeyRevoked, InvalidateAuthCache,
                  IsAuthFailureLocked, ListActiveAPIKeys, StoreAuthCache, Serve
  <2> QED BY Zenon, <2>2, <2>3, <2>4 DEF Next, vars, Arrive, RevokeAPIKey, MarkKeyRevoked, SeedDevKey
<1> QED BY <1>1, <1>2, AuthTypes, PTL DEF Spec

-----------------------------------------------------------------------------
(* Requests past the gate whose failure may still be counted. *)
Past == {r \in Requests : pc[r] \in {"list", "note"}}

(* What is counted and what may still be counted: a request that finds the  *)
(* gate open does so at or below the limit, or on a Redis error.            *)
GateInv == failures + Cardinality(Past) <= Limit + Cardinality(Requests) + faults

(* A subset of the requests is counted by at most their number, one request *)
(* more or less by at most one.                                             *)
LEMMA Counting ==
  ASSUME IsFiniteSet(Requests), NEW S \in SUBSET Requests, NEW T \in SUBSET Requests
  PROVE  /\ Cardinality(S) \in Nat /\ Cardinality(T) \in Nat /\ Cardinality(Requests) \in Nat
         /\ Cardinality(T) <= Cardinality(Requests)
         /\ T \subseteq S => Cardinality(T) <= Cardinality(S)
         /\ \A r : T \subseteq S \cup {r} => Cardinality(T) <= Cardinality(S) + 1
         /\ \A r \in S : T \subseteq S \ {r} => Cardinality(T) <= Cardinality(S) - 1
<1>1. IsFiniteSet(S) /\ IsFiniteSet(T) /\ Cardinality(T) <= Cardinality(Requests)
  BY FS_Subset
<1>2. Cardinality(S) \in Nat /\ Cardinality(T) \in Nat /\ Cardinality(Requests) \in Nat
  BY <1>1, FS_CardinalityType
<1>3. T \subseteq S => Cardinality(T) <= Cardinality(S)
  BY <1>1, FS_Subset
<1>4. ASSUME NEW r, T \subseteq S \cup {r}
      PROVE  Cardinality(T) <= Cardinality(S) + 1
  <2>0. /\ IsFiniteSet(S \cup {r})
        /\ Cardinality(S \cup {r}) = IF r \in S THEN Cardinality(S) ELSE Cardinality(S) + 1
    BY Zenon, <1>1, FS_AddElement
  <2>1. IsFiniteSet(S \cup {r}) /\ Cardinality(S \cup {r}) <= Cardinality(S) + 1
    BY <1>2, <2>0
  <2>2. Cardinality(T) <= Cardinality(S \cup {r}) /\ Cardinality(S \cup {r}) \in Nat
    BY Zenon, <1>4, <2>1, FS_Subset, FS_CardinalityType
  <2> QED
    BY <1>2, <2>1, <2>2
<1>5. ASSUME NEW r \in S, T \subseteq S \ {r}
      PROVE  Cardinality(T) <= Cardinality(S) - 1
  <2>1. IsFiniteSet(S \ {r}) /\ Cardinality(S \ {r}) = Cardinality(S) - 1
    BY Zenon, <1>1, FS_RemoveElement
  <2>2. Cardinality(T) <= Cardinality(S \ {r})
    BY Zenon, <1>5, <2>1, FS_Subset
  <2> QED
    BY Zenon, <2>1, <2>2
<1> QED
  BY Zenon, <1>1, <1>2, <1>3, <1>4, <1>5

(* How a step moves the counter and the requests past the gate. *)
LEMMA GateMoves ==
  ASSUME TypeOK, [Next]_vars
  PROVE  /\ faults' \in {faults, faults + 1}
         /\ \/ failures' <= failures /\ Past' \subseteq Past
            \/ failures' = failures /\ failures <= Limit
            \/ /\ failures' = failures /\ faults' = faults + 1
               /\ \E r \in Requests : Past' \subseteq Past \cup {r}
            \/ failures' = failures + 1 /\ \E r \in Past : Past' \subseteq Past \ {r}
<1> USE AuthAssumption, FaultsAssumption
    DEF TypeOK, Fault, NoFault, Goto, Done, gateVars, redisVars
<1>0. ASSUME UNCHANGED <<pc, failures>>
      PROVE  failures' <= failures /\ Past' \subseteq Past
  BY <1>0 DEF Past
<1>1. ASSUME NEW r \in Requests, NEW l \in Labels \ {"list", "note"}, Goto(r, l), UNCHANGED failures
      PROVE  failures' <= failures /\ Past' \subseteq Past
  BY <1>1 DEF Past
<1>2. ASSUME NEW r \in Requests, NEW b \in Bearers, Arrive(r, b)
      PROVE  faults' = faults /\ failures' <= failures /\ Past' \subseteq Past
  BY Zenon, <1>1, <1>2 DEF Arrive, Labels
<1>3. ASSUME NEW r \in Requests,
             \/ LookupAuthCache(r) \/ IsKeyRevoked(r) \/ InvalidateAuthCache(r)
             \/ StoreAuthCache(r) \/ Serve(r)
      PROVE  /\ faults' \in {faults, faults + 1}
             /\ failures' <= failures /\ Past' \subseteq Past
  <2>1. /\ UNCHANGED failures /\ faults' \in {faults, faults + 1}
        /\ \E l \in {"check", "gate", "invalidate", "pass", "idle"} : Goto(r, l)
    BY Zenon, <1>3 DEF LookupAuthCache, IsKeyRevoked, InvalidateAuthCache, StoreAuthCache, Serve
  <2> QED
    BY Zenon, <1>1, <2>1 DEF Labels
<1>4. ASSUME NEW r \in Requests, IsAuthFailureLocked(r)
      PROVE  /\ faults' \in {faults, faults + 1}
             /\ \/ failures' <= failures /\ Past' \subseteq Past
                \/ failures' = failures /\ failures <= Limit
                \/ /\ failures' = failures /\ faults' = faults + 1
                   /\ Past' \subseteq Past \cup {r}
  <2>1. CASE Locked /\ Done(r) /\ NoFault
    BY Zenon, <1>1, <1>4, <2>1 DEF IsAuthFailureLocked, Labels
  <2>2. CASE ~Locked /\ NoFault
    BY <1>4, <2>2 DEF IsAuthFailureLocked, Locked
  <2>3. CASE Goto(r, "list") /\ Fault("redis")
    BY Zenon, <1>4, <2>3 DEF IsAuthFailureLocked, Past
  <2> QED
    BY <1>4, <2>1, <2>2, <2>3 DEF IsAuthFailureLocked
<1>5. ASSUME NEW r \in Requests, ListActiveAPIKeys(r)
      PROVE  /\ faults' \in {faults, faults + 1}
             /\ failures' <= failures /\ Past' \subseteq Past
  BY <1>5 DEF ListActiveAPIKeys, Past
<1>6. ASSUME NEW r \in Requests, NoteAuthFailure(r)
      PROVE  /\ faults' \in {faults, faults + 1}
             /\ \/ failures' <= failures /\ Past' \subseteq Past
                \/ failures' = failures + 1 /\ r \in Past /\ Past' \subseteq Past \ {r}
  BY <1>6 DEF NoteAuthFailure, Past
<1>7. ASSUME NEW k \in Keys,
             RevokeAPIKey(k) \/ MarkKeyRevoked(k) \/ (\E b \in Bearers : SeedDevKey(k, b))
      PROVE  /\ faults' \in {faults, faults + 1}
             /\ failures' <= failures /\ Past' \subseteq Past
  BY Zenon, <1>0, <1>7 DEF RevokeAPIKey, MarkKeyRevoked, SeedDevKey
<1>8. CASE Tick
  BY <1>8 DEF Tick, Past
<1>9. CASE UNCHANGED vars
  BY <1>0, <1>9 DEF vars
<1> QED
  BY Zenon, <1>2, <1>3, <1>4, <1>5, <1>6, <1>7, <1>8, <1>9 DEF Next, Step

(* Failed verifications within a window (Auth's FailureBudget): the limit,  *)
(* one for each request that may be in progress, one for each Redis error,  *)
(* for any number of requests that read the counter and raise it later.     *)
THEOREM FailuresAreBounded ==
  ASSUME IsFiniteSet(Requests)
  PROVE  Spec => []FailureBudget
<1>1. Init => GateInv
  <2> SUFFICES ASSUME Init PROVE GateInv
    BY Zenon
  <2>1. Past = {}
    BY DEF Init, Past
  <2>2. Cardinality(Past) = 0 /\ Cardinality(Requests) \in Nat
    BY Zenon, <2>1, FS_EmptySet, FS_CardinalityType
  <2> QED
    BY <2>2, AuthAssumption DEF Init, GateInv, FaultsInit
<1>2. TypeOK /\ TypeOK' /\ GateInv /\ [Next]_vars => GateInv'
  <2> SUFFICES ASSUME TypeOK, TypeOK', GateInv, [Next]_vars PROVE GateInv'
    BY Zenon
  <2>1. /\ failures \in Nat /\ failures' \in Nat /\ faults \in Nat /\ faults' \in Nat
        /\ Limit \in Nat
    BY AuthAssumption, FaultsAssumption DEF TypeOK, FaultsTypeOK
  <2>2. Past \in SUBSET Requests /\ Past' \in SUBSET Requests
    BY Zenon DEF Past
  <2>3. /\ Cardinality(Past) \in Nat /\ Cardinality(Past') \in Nat /\ Cardinality(Requests) \in Nat
        /\ Cardinality(Past') <= Cardinality(Requests)
        /\ Past' \subseteq Past => Cardinality(Past') <= Cardinality(Past)
        /\ \A r : Past' \subseteq Past \cup {r} => Cardinality(Past') <= Cardinality(Past) + 1
        /\ \A r \in Past : Past' \subseteq Past \ {r} => Cardinality(Past') <= Cardinality(Past) - 1
    BY Zenon, <2>2, Counting
  <2>4. failures' + Cardinality(Past') <= Limit + Cardinality(Requests) + faults'
    BY <2>1, <2>3, GateMoves DEF GateInv
  <2> QED
    BY <2>4 DEF GateInv
<1>3. TypeOK /\ GateInv => FailureBudget
  <2> SUFFICES ASSUME TypeOK, GateInv PROVE FailureBudget
    BY Zenon
  <2>1. /\ failures \in Nat /\ faults \in Nat /\ Limit \in Nat
        /\ Past \in SUBSET Requests
    BY AuthAssumption, FaultsAssumption DEF TypeOK, FaultsTypeOK, Past
  <2>2. Cardinality(Past) \in Nat /\ Cardinality(Requests) \in Nat
    BY <2>1, Counting
  <2> QED
    BY <2>1, <2>2 DEF GateInv, FailureBudget
<1> QED
  BY <1>1, <1>2, <1>3, AuthTypes, PTL DEF Spec
=============================================================================

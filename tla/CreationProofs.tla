--------------------------- MODULE CreationProofs ---------------------------
(***************************************************************************)
(* Creating notifications, for any number of requests, owners, keys and    *)
(* faults, and reading them while they are created, for any page size.     *)
(*                                                                         *)
(* The unique index lets one row with a given key in, and a row that is    *)
(* still in its transaction counts (RowsInv).  Both what is answered 201   *)
(* and what a final record holds name such a row (AnswerInv, SlotInv), so  *)
(* they agree, whatever expires.  As long as nothing fails or lapses a     *)
(* claim has one holder and a final record stays (RetryInv); as long as    *)
(* nothing fails a claim has a holder at all (HolderInv).                  *)
(*                                                                         *)
(* Every step of Listing is a step of Creation or leaves it alone, so the  *)
(* invariants of Creation hold there.  A walk's cursor divides the rows    *)
(* into those returned and those to come (WalkInv); a batch and its rows   *)
(* become visible at once (BatchInv).                                      *)
(***************************************************************************)
EXTENDS Listing, TLAPS

AllAsks == {"plain", "later", "templated", "batch"}

Row == [id : Nat, ts : Nat, owner : Owners, key : IdemKeys \cup {NoKey}, ask : AllAsks,
        batch : Nat, version : Nat]

Request == [owner : Owners, key : IdemKeys \cup {NoKey}, ask : AllAsks, items : 0..(MaxBatch + 1),
            version : Nat]

Hashes == AllAsks \X Nat

Record == {Free} \cup [state : {"in flight"}, hash : Hashes]
                 \cup [state : {"final"}, hash : Hashes, ids : SUBSET Nat]

CreateType ==
  /\ rows \subseteq Row /\ tx \in [Requests -> SUBSET Row] /\ clock \in Nat /\ nextId \in Nat \ {0}
  /\ outbox \subseteq 1..(nextId - 1) /\ scheduled \subseteq 1..(nextId - 1)
  /\ version \in 1..MaxVersion /\ deprecated \in BOOLEAN
  /\ slot \in [Owners \X IdemKeys -> Record]
  /\ pc \in [Requests -> Labels] /\ req \in [Requests -> Request]
  /\ answer \in [Requests -> [status : Statuses, ids : SUBSET Nat]]
  /\ before \in [Requests -> SUBSET Requests] /\ cancelled \subseteq Requests
  /\ lapsed \in BOOLEAN /\ FaultsTypeOK

(* Requests that have not inserted their rows. *)
Unspent == {r \in Requests : pc[r] \in {"idle", "template", "claim", "get", "insert"}}

(* Past validation and template. *)
Admitted(r) == pc[r] \in {"claim", "get", "insert", "commit", "finalize"} \/ Succeeded(r)

(* Where a request is in create or createBatch, and what it has by then. *)
RequestOK(r) ==
  /\ r \in Unspent \/ pc[r] = "commit" => answer[r] = NoAnswer
  /\ pc[r] \in {"claim", "get", "finalize", "release"} => Keyed(r)
  /\ pc[r] = "finalize" => answer[r].status = "201"
  /\ pc[r] = "release" => answer[r].status = "error"
  /\ ~Succeeded(r) => answer[r].ids = {}
  /\ req[r].ask # "batch" => req[r].items = 1
  /\ req[r].ask # "templated" => req[r].version = 0
  /\ req[r].version <= version
  /\ pc[r] = "template" => req[r].ask = "templated"
  /\ Admitted(r) => /\ req[r].ask = "templated" => req[r].version >= 1 /\ MayRender(req[r].owner)
                    /\ req[r].ask = "later" => SchedulerEnabled

RequestInv == \A r \in Requests : RequestOK(r)

(* The row is committed, or inserted by a transaction that has not ended. *)
Written(w) == w \in rows \/ \E r \in Requests : w \in tx[r]

(* Row w is what r asked for. *)
Fits(w, r) ==
  /\ w.owner = req[r].owner /\ w.key = RowKey(r) /\ w.ask = req[r].ask /\ w.version = req[r].version

Dated(w) == w.id \in 1..(nextId - 1) /\ w.ts <= clock

(* Neither the primary key nor the unique index on the key holds twice. *)
Apart(v, w) ==
  /\ v.id = w.id => v = w
  /\ v.key = w.key /\ v.key # NoKey => v = w

(* A transaction is open between its inserts and its commit, with the rows  *)
(* its request asked for.                                                   *)
TxOK(r) ==
  /\ tx[r] # {} => pc[r] = "commit"
  /\ \A w \in tx[r] : Fits(w, r)
  /\ pc[r] = "commit" /\ Keyed(r) => \E w \in tx[r] : tx[r] = {w}

RowsInv ==
  /\ \A w : Written(w) => Dated(w)
  /\ \A v, w : Written(v) /\ Written(w) => Apart(v, w)
  /\ \A w \in rows : w.id \in outbox \cup scheduled
  /\ \A r \in Requests : TxOK(r)

(* The final record of a single create that stored row w. *)
FinalOf(w) == [state |-> "final", hash |-> <<w.ask, w.version>>, ids |-> {w.id}]

(* A final record names the row of its key, and what was asked for. *)
SlotInv ==
  \A o \in Owners, k \in IdemKeys : slot[<<o, k>>].state = "final" =>
    \E w \in rows : w.owner = o /\ w.key = k /\ slot[<<o, k>>] = FinalOf(w)

(* Success means stored rows; under a key, the one row of the key. *)
AnswerOK(r) ==
  Succeeded(r) =>
    /\ \A i \in answer[r].ids : \E w \in rows : w.id = i /\ w.owner = req[r].owner
    /\ Keyed(r) => \E w \in rows : Fits(w, r) /\ answer[r].ids = {w.id}

AnswerInv == \A r \in Requests : AnswerOK(r)

(* Nothing has failed or lapsed and no client has gone away. *)
Calm == ~lapsed /\ faults = 0 /\ cancelled = {}

(* Request r has claimed its key and not let go of it. *)
Holding(r) == Keyed(r) /\ pc[r] \in {"insert", "commit", "finalize", "release"}

SameSlot(q, r) == req[q].owner = req[r].owner /\ req[q].key = req[r].key

Unchanged(r) == req[r].ask = "templated" => version = 1 /\ ~deprecated

(* Request r was answered 201 and has stored its record. *)
Recorded(r) == Keyed(r) /\ pc[r] \in {"exit", "done"} /\ answer[r].status = "201"

(* One request at a time holds a key, and a final record stays. *)
Claims ==
  /\ \A r \in Requests : Holding(r) => Slot(r).state = "in flight"
  /\ \A q, r \in Requests : Holding(q) /\ Holding(r) /\ SameSlot(q, r) => q = r
  /\ \A r \in Requests : Recorded(r) =>
       Slot(r) = [state |-> "final", hash |-> CanonicalHash(r), ids |-> answer[r].ids]

ClaimInv == Calm => Claims

(* A retry of q is on its way to the record of q, or has replayed it. *)
Retries(q, r) ==
  Unchanged(r) /\ Same(q, r) /\ Keyed(r) =>
    \/ pc[r] \in {"template", "claim", "get"}
    \/ pc[r] = "done" /\ answer[r] = Answer("replayed", answer[q].ids)

RetryInv ==
  \A r \in Requests : \A q \in before[r] :
    /\ pc[r] # "idle" /\ pc[q] = "done" /\ answer[q].status = "201"
    /\ Calm => Retries(q, r)

CreateInv == CreateType /\ RequestInv /\ RowsInv /\ SlotInv /\ AnswerInv

-----------------------------------------------------------------------------
(* Steps that concern one request *)

(* The other requests are where they were. *)
Others(r) ==
  \A q \in Requests \ {r} :
    pc'[q] = pc[q] /\ answer'[q] = answer[q] /\ req'[q] = req[q] /\ tx'[q] = tx[q]

LEMMA Natural ==
  ASSUME NEW m, NEW v \in 1..m
  PROVE  v \in Nat /\ v >= 1
OBVIOUS

LEMMA NaturalOrZero ==
  ASSUME NEW m, NEW v \in 0..m
  PROVE  v \in Nat
OBVIOUS

LEMMA RequestFacts ==
  ASSUME CreateType, NEW r \in Requests
  PROVE  /\ req[r].owner \in Owners /\ req[r].key \in IdemKeys \cup {NoKey}
         /\ req[r].ask \in AllAsks /\ req[r].items \in 0..(MaxBatch + 1) /\ req[r].version \in Nat
         /\ answer[r].status \in Statuses /\ answer[r].ids \subseteq Nat
         /\ Keyed(r) => req[r].key \in IdemKeys /\ <<req[r].owner, req[r].key>> \in Owners \X IdemKeys
<1>1. req[r] \in Request /\ answer[r] \in [status : Statuses, ids : SUBSET Nat]
  BY DEF CreateType
<1>2. /\ req[r].owner \in Owners /\ req[r].key \in IdemKeys \cup {NoKey}
      /\ req[r].ask \in AllAsks /\ req[r].items \in 0..(MaxBatch + 1) /\ req[r].version \in Nat
  BY <1>1 DEF Request
<1> QED
  BY <1>1, <1>2 DEF Keyed

LEMMA OthersRequest ==
  ASSUME CreateType, RequestInv, NEW r \in Requests, Others(r), version' \in Nat, version <= version'
  PROVE  \A q \in Requests \ {r} : RequestOK(q)'
<1> SUFFICES ASSUME NEW q \in Requests \ {r} PROVE RequestOK(q)'
  OBVIOUS
<1>1. pc'[q] = pc[q] /\ answer'[q] = answer[q] /\ req'[q] = req[q] /\ RequestOK(q)
  BY DEF Others, RequestInv
<1>2. req[q].version \in Nat
  BY Zenon, RequestFacts
<1>v. version \in Nat
  BY DEF CreateType
<1>3. (q \in Unspent)' <=> q \in Unspent
  BY <1>1 DEF Unspent
<1> QED
  BY <1>1, <1>2, <1>3, <1>v DEF RequestOK, Keyed, Succeeded, Admitted

LEMMA OthersAnswer ==
  ASSUME AnswerInv, NEW r \in Requests, Others(r), rows \subseteq rows'
  PROVE  \A q \in Requests \ {r} : AnswerOK(q)'
BY DEF Others, AnswerInv, AnswerOK, Succeeded, Keyed, Fits, RowKey

(* A step that leaves tables and transactions alone, of a request that is  *)
(* in no transaction.                                                       *)
LEMMA RowsStay ==
  ASSUME RowsInv, NEW r \in Requests, Others(r), pc[r] # "commit", pc'[r] # "commit",
         UNCHANGED <<rows, tx, outbox, scheduled, clock, nextId>>
  PROVE  RowsInv'
<1>1. \A w : Written(w)' <=> Written(w)
  BY DEF Written
<1>2. tx[r] = {}
  BY DEF RowsInv, TxOK
<1>3. \A q \in Requests : TxOK(q)'
  BY <1>2 DEF Others, RowsInv, TxOK, Fits, RowKey, Keyed
<1>4. \A w : Dated(w)' <=> Dated(w)
  BY DEF Dated
<1> QED
  BY <1>1, <1>3, <1>4 DEF RowsInv, Apart

LEMMA SlotStays ==
  ASSUME SlotInv, UNCHANGED slot, rows \subseteq rows'
  PROVE  SlotInv'
<1>1. \A w : FinalOf(w)' = FinalOf(w)
  BY DEF FinalOf
<1>2. ASSUME NEW o \in Owners, NEW k \in IdemKeys, slot'[<<o, k>>].state = "final"
      PROVE  \E w \in rows' : w.owner = o /\ w.key = k /\ slot'[<<o, k>>] = FinalOf(w)
  BY <1>2 DEF SlotInv
<1> QED
  BY Zenon, <1>1, <1>2 DEF SlotInv

(* One record changes: to one that is not final, or to that of its key. *)
LEMMA SlotStep ==
  ASSUME SlotInv, slot \in [Owners \X IdemKeys -> Record], UNCHANGED rows,
         NEW o \in Owners, NEW k \in IdemKeys, NEW s \in Record,
         slot' = [slot EXCEPT ![<<o, k>>] = s],
         s.state = "final" =>
           \E w \in rows : w.owner = o /\ w.key = k /\ s = FinalOf(w)
  PROVE  slot' \in [Owners \X IdemKeys -> Record] /\ SlotInv'
<1>1. slot' \in [Owners \X IdemKeys -> Record]
  <2> HIDE DEF Record
  <2> QED
    OBVIOUS
<1>2. ASSUME NEW p \in Owners, NEW l \in IdemKeys, slot'[<<p, l>>].state = "final"
      PROVE  \E w \in rows : w.owner = p /\ w.key = l /\ slot'[<<p, l>>] = FinalOf(w)
  <2>1. CASE p = o /\ l = k
    BY <1>2, <2>1
  <2>2. CASE ~(p = o /\ l = k)
    <3>1. slot'[<<p, l>>] = slot[<<p, l>>]
      BY <2>2
    <3> QED
      BY <1>2, <3>1 DEF SlotInv
  <2> QED
    BY <2>1, <2>2
<1>3. \A w : FinalOf(w)' = FinalOf(w)
  BY DEF FinalOf
<1> QED
  BY <1>1, <1>2, <1>3 DEF SlotInv

(* What a step of one request outside the tables has to keep. *)
LEMMA RequestStep ==
  ASSUME CreateInv, NEW r \in Requests, Others(r),
         UNCHANGED <<rows, tx, outbox, scheduled, clock, nextId, version, deprecated, cancelled>>,
         pc[r] # "commit", pc'[r] # "commit",
         pc' \in [Requests -> Labels], req' \in [Requests -> Request],
         answer' \in [Requests -> [status : Statuses, ids : SUBSET Nat]],
         before' \in [Requests -> SUBSET Requests], lapsed' \in BOOLEAN, FaultsTypeOK',
         slot' \in [Owners \X IdemKeys -> Record], SlotInv', RequestOK(r)', AnswerOK(r)'
  PROVE  CreateInv'
<1> USE DEF CreateInv
<1>1. CreateType'
  BY DEF CreateType
<1>2. version' \in Nat /\ version <= version'
  BY DEF CreateType
<1>3. RequestInv'
  BY <1>2, OthersRequest DEF RequestInv
<1>4. RowsInv'
  BY RowsStay
<1>5. AnswerInv'
  BY OthersAnswer DEF AnswerInv
<1> QED
  BY <1>1, <1>3, <1>4, <1>5

LEMMA AnswerTypes ==
  /\ NoAnswer \in [status : Statuses, ids : SUBSET Nat] /\ NoAnswer.status = "none" /\ NoAnswer.ids = {}
  /\ \A st \in Statuses, ids \in SUBSET Nat :
       /\ Answer(st, ids) \in [status : Statuses, ids : SUBSET Nat]
       /\ Answer(st, ids).status = st /\ Answer(st, ids).ids = ids
BY DEF NoAnswer, Answer, Statuses

(* Faults stay within their budget. *)
LEMMA FaultMoves ==
  ASSUME FaultsTypeOK, NoFault \/ \E kind \in AllFaultKinds : Fault(kind)
  PROVE  FaultsTypeOK'
BY FaultsAssumption DEF FaultsTypeOK, NoFault, Fault

LEMMA ArriveStep ==
  ASSUME CreateInv, NEW r \in Requests, NEW o \in Owners, NEW k \in Headers, NEW a \in Asks,
         NEW n \in 0..MaxBatch, Arrive(r, o, k, a, n)
  PROVE  CreateInv'
<1> DEFINE q == [owner |-> o, key |-> k, ask |-> a, items |-> n, version |-> 0]
<1>1. q \in Request /\ q.owner = o /\ q.key = k /\ q.ask = a /\ q.items = n /\ q.version = 0
  BY CreationAssumption DEF Request, AllAsks
<1>2. /\ pc[r] = "idle" /\ (n = 1 \/ a = "batch") /\ req' = [req EXCEPT ![r] = q]
      /\ before' = [before EXCEPT ![r] = {p \in Requests : pc[p] = "done" /\ answer[p].status = "201"}]
      /\ UNCHANGED <<rows, tx, outbox, scheduled, clock, nextId, version, deprecated, cancelled, slot, lapsed, faults>>
  BY DEF Arrive, dbVars, NoFault
<1> HIDE DEF q
<1>3. \/ /\ pc' = [pc EXCEPT ![r] = "done"] /\ answer' = [answer EXCEPT ![r] = Answer("invalid", {})]
      \/ /\ \/ pc' = [pc EXCEPT ![r] = "template"] /\ a = "templated"
            \/ pc' = [pc EXCEPT ![r] = "claim"] /\ a \notin {"batch", "templated"} /\ k # NoKey
            \/ pc' = [pc EXCEPT ![r] = "insert"] /\ a # "templated"
         /\ answer' = answer /\ (a = "later" => SchedulerEnabled)
  <2> DEFINE l == CASE a = "templated" -> "template"
                    [] a \notin {"templated", "batch"} /\ k # NoKey -> "claim"
                    [] OTHER -> "insert"
  <2>1. \/ Finish(r, Answer("invalid", {}))
        \/ Goto(r, l) /\ answer' = answer /\ ~(a = "later" /\ ~SchedulerEnabled)
    BY DEF Arrive
  <2>2. CASE a = "templated"
    <3>1. l = "template"
      BY <2>2
    <3> QED
      BY <2>1, <2>2, <3>1 DEF Finish, Goto
  <2>3. CASE a # "templated" /\ a # "batch" /\ k # NoKey
    <3>1. l = "claim"
      BY <2>3
    <3> QED
      BY <2>1, <2>3, <3>1 DEF Finish, Goto
  <2>4. CASE a # "templated" /\ ~(a # "batch" /\ k # NoKey)
    <3>1. l = "insert"
      BY <2>4
    <3> QED
      BY <2>1, <2>4, <3>1 DEF Finish, Goto
  <2> QED
    BY <2>2, <2>3, <2>4
<1>4. pc \in [Requests -> Labels] /\ req \in [Requests -> Request] /\ before \in [Requests -> SUBSET Requests]
      /\ answer \in [Requests -> [status : Statuses, ids : SUBSET Nat]] /\ version \in Nat
      /\ slot \in [Owners \X IdemKeys -> Record] /\ lapsed \in BOOLEAN /\ FaultsTypeOK
  BY DEF CreateInv, CreateType
<1>5. answer[r] = NoAnswer
  BY <1>2 DEF CreateInv, RequestInv, RequestOK, Unspent
<1>6. /\ Answer("invalid", {}) \in [status : Statuses, ids : SUBSET Nat]
      /\ Answer("invalid", {}).status = "invalid" /\ Answer("invalid", {}).ids = {}
      /\ NoAnswer.status = "none" /\ NoAnswer.ids = {}
  BY Zenon, AnswerTypes DEF Statuses
<1>7. /\ pc' \in [Requests -> Labels] /\ pc'[r] # "commit"
      /\ req' \in [Requests -> Request] /\ before' \in [Requests -> SUBSET Requests]
      /\ answer' \in [Requests -> [status : Statuses, ids : SUBSET Nat]]
  <2>1. pc' \in [Requests -> Labels] /\ pc'[r] # "commit"
    BY Zenon, <1>3, <1>4 DEF Labels
  <2>2. req' \in [Requests -> Request] /\ before' \in [Requests -> SUBSET Requests]
    BY <1>1, <1>2, <1>4
  <2>3. answer' \in [Requests -> [status : Statuses, ids : SUBSET Nat]]
    BY <1>3, <1>4, <1>6
  <2> QED
    BY <2>1, <2>2, <2>3
<1>8. Others(r)
  BY <1>2, <1>3, <1>4 DEF Others
<1>9. req'[r] = q /\ ~Succeeded(r)'
  BY <1>2, <1>3, <1>4, <1>5, <1>6 DEF Succeeded
<1>10. RequestOK(r)'
  <2>1. /\ pc'[r] \in {"done", "template", "claim", "insert"}
        /\ pc'[r] \in {"claim", "insert", "template"} =>
             answer'[r] = NoAnswer /\ (a = "later" => SchedulerEnabled)
        /\ pc'[r] \in {"claim", "insert"} => a # "templated"
        /\ pc'[r] = "claim" => a # "batch" /\ k # NoKey
        /\ pc'[r] = "template" => a = "templated"
        /\ answer'[r].ids = {}
    BY <1>3, <1>4, <1>5, <1>6
  <2>2. /\ req'[r].ask = a /\ req'[r].key = k /\ req'[r].items = n /\ req'[r].version = 0
        /\ 0 <= version' /\ (n = 1 \/ a = "batch")
    BY <1>1, <1>2, <1>4, <1>9
  <2>3. (r \in Unspent)' => pc'[r] \in {"template", "claim", "insert"}
    BY Zenon, <2>1 DEF Unspent
  <2> QED
    BY <1>9, <2>1, <2>2, <2>3 DEF RequestOK, Keyed, Admitted
<1>11. AnswerOK(r)'
  BY Zenon, <1>9 DEF AnswerOK
<1>12. SlotInv'
  BY <1>2, SlotStays DEF CreateInv
<1>13. FaultsTypeOK'
  BY <1>2, <1>4 DEF FaultsTypeOK
<1> QED
  BY Zenon, <1>2, <1>4, <1>7, <1>8, <1>10, <1>11, <1>12, <1>13, RequestStep

LEMMA TemplateStep ==
  ASSUME CreateInv, NEW r \in Requests, GetTemplate(r)
  PROVE  CreateInv'
<1>1. /\ pc[r] = "template" /\ FaultsTypeOK'
      /\ UNCHANGED <<rows, tx, outbox, scheduled, clock, nextId, version, deprecated, cancelled, slot,
                     before, lapsed>>
  BY FaultMoves DEF GetTemplate, Works, Fails, dbVars, AllFaultKinds, CreateInv, CreateType
<1>2. pc \in [Requests -> Labels] /\ req \in [Requests -> Request] /\ before \in [Requests -> SUBSET Requests]
      /\ answer \in [Requests -> [status : Statuses, ids : SUBSET Nat]] /\ version \in Nat \ {0}
      /\ slot \in [Owners \X IdemKeys -> Record] /\ lapsed \in BOOLEAN
  BY DEF CreateInv, CreateType
<1>3. answer[r] = NoAnswer /\ req[r].ask = "templated" /\ req[r].items = 1
  BY <1>1 DEF CreateInv, RequestInv, RequestOK, Unspent
<1>4. \/ /\ pc' = [pc EXCEPT ![r] = "done"] /\ req' = req
         /\ \E st \in {"invalid", "error"} : answer' = [answer EXCEPT ![r] = Answer(st, {})]
      \/ /\ req' = [req EXCEPT ![r].version = version] /\ answer' = answer /\ MayRender(req[r].owner)
         /\ \/ pc' = [pc EXCEPT ![r] = "claim"] /\ Keyed(r)
            \/ pc' = [pc EXCEPT ![r] = "insert"]
  BY DEF GetTemplate, Finish, Goto
<1>5. \A st \in {"invalid", "error"} :
        /\ Answer(st, {}) \in [status : Statuses, ids : SUBSET Nat]
        /\ Answer(st, {}).status = st /\ Answer(st, {}).ids = {}
  <2>1. {"invalid", "error"} \subseteq Statuses /\ {} \in SUBSET Nat
    BY DEF Statuses
  <2> QED
    BY <2>1, AnswerTypes
<1>6. NoAnswer.status = "none" /\ NoAnswer.ids = {}
  BY AnswerTypes
<1>7. req' \in [Requests -> Request] /\ \A q \in Requests \ {r} : req'[q] = req[q]
  <2>1. CASE req' = req
    BY <1>2, <2>1
  <2>2. CASE req' = [req EXCEPT ![r].version = version]
    BY Zenon, <1>2, <2>2 DEF Request
  <2> QED
    BY <1>4, <2>1, <2>2
<1>8. pc' \in [Requests -> Labels] /\ pc'[r] \in {"done", "claim", "insert"}
      /\ \A q \in Requests \ {r} : pc'[q] = pc[q]
  BY Zenon, <1>2, <1>4 DEF Labels
<1>9. answer' \in [Requests -> [status : Statuses, ids : SUBSET Nat]]
      /\ \A q \in Requests \ {r} : answer'[q] = answer[q]
  <2>1. CASE answer' = answer
    BY Zenon, <1>2, <2>1
  <2>2. ASSUME NEW st \in {"invalid", "error"}, answer' = [answer EXCEPT ![r] = Answer(st, {})]
        PROVE  /\ answer' \in [Requests -> [status : Statuses, ids : SUBSET Nat]]
               /\ \A q \in Requests \ {r} : answer'[q] = answer[q]
    <3> DEFINE v == Answer(st, {})
               A == [status : Statuses, ids : SUBSET Nat]
    <3>1. v \in A /\ answer \in [Requests -> A] /\ answer' = [answer EXCEPT ![r] = v]
      BY Zenon, <1>2, <1>5, <2>2
    <3> HIDE DEF v, A
    <3>2. answer' \in [Requests -> A] /\ \A q \in Requests \ {r} : answer'[q] = answer[q]
      BY <3>1
    <3> QED
      BY Zenon, <3>2 DEF A
  <2> QED
    BY Zenon, <1>4, <2>1, <2>2
<1>10. /\ req'[r].owner = req[r].owner /\ req'[r].key = req[r].key /\ req'[r].ask = "templated"
       /\ req'[r].items = 1 /\ req'[r].version <= version
       /\ pc'[r] \in {"claim", "insert"} => req'[r].version >= 1 /\ MayRender(req[r].owner) /\ answer'[r] = NoAnswer
       /\ pc'[r] = "claim" => Keyed(r)
       /\ answer'[r].ids = {} /\ answer'[r].status \notin {"201", "replayed"}
  <2>0. req[r].version <= version /\ req[r] \in Request
    BY <1>2 DEF CreateInv, RequestInv, RequestOK
  <2>1. CASE pc' = [pc EXCEPT ![r] = "done"]
    BY <1>2, <1>3, <1>4, <1>5, <2>0, <2>1
  <2>2. CASE pc' # [pc EXCEPT ![r] = "done"]
    BY <1>2, <1>3, <1>4, <1>6, <2>0, <2>2 DEF Request
  <2> QED
    BY <2>1, <2>2
<1>11. RequestOK(r)'
  <2>1. (r \in Unspent)' => pc'[r] \in {"claim", "insert"}
    BY Zenon, <1>8 DEF Unspent
  <2> QED
    BY <1>1, <1>8, <1>10, <2>1 DEF RequestOK, Keyed, Admitted, Succeeded
<1>12. AnswerOK(r)'
  BY <1>10 DEF AnswerOK, Succeeded
<1>13. SlotInv'
  BY <1>1, SlotStays DEF CreateInv
<1>14. Others(r)
  BY <1>1, <1>7, <1>8, <1>9 DEF Others
<1> QED
  BY Zenon, <1>1, <1>2, <1>7, <1>8, <1>9, <1>11, <1>12, <1>13, <1>14, RequestStep

(* The same when the request itself and what came before it stay. *)
LEMMA MoveStep ==
  ASSUME CreateInv, NEW r \in Requests, pc[r] # "commit",
         UNCHANGED <<rows, tx, outbox, scheduled, clock, nextId, version, deprecated, cancelled, req, before>>,
         NEW l \in Labels \ {"commit"}, pc' = [pc EXCEPT ![r] = l],
         NEW a \in [status : Statuses, ids : SUBSET Nat], answer' = [answer EXCEPT ![r] = a],
         lapsed' \in BOOLEAN, FaultsTypeOK',
         slot' \in [Owners \X IdemKeys -> Record], SlotInv', RequestOK(r)', AnswerOK(r)'
  PROVE  CreateInv'
<1>1. pc \in [Requests -> Labels] /\ answer \in [Requests -> [status : Statuses, ids : SUBSET Nat]]
      /\ req \in [Requests -> Request] /\ before \in [Requests -> SUBSET Requests]
  BY DEF CreateInv, CreateType
<1>2. pc' \in [Requests -> Labels] /\ answer' \in [Requests -> [status : Statuses, ids : SUBSET Nat]]
      /\ req' \in [Requests -> Request] /\ before' \in [Requests -> SUBSET Requests]
      /\ pc'[r] # "commit"
  BY <1>1
<1>3. Others(r)
  BY <1>1 DEF Others
<1> QED
  BY <1>2, <1>3, RequestStep

(* What is known of request r. *)
LEMMA OneRequest ==
  ASSUME CreateInv, NEW r \in Requests
  PROVE  /\ RequestOK(r) /\ AnswerOK(r) /\ TxOK(r)
         /\ answer[r] \in [status : Statuses, ids : SUBSET Nat]
         /\ answer = [answer EXCEPT ![r] = answer[r]]
         /\ pc \in [Requests -> Labels] /\ answer \in [Requests -> [status : Statuses, ids : SUBSET Nat]]
         /\ slot \in [Owners \X IdemKeys -> Record] /\ SlotInv
         /\ lapsed \in BOOLEAN /\ FaultsTypeOK
BY DEF CreateInv, CreateType, RequestInv, AnswerInv, RowsInv

(* A request that is answered with an error, a conflict or the like. *)
LEMMA EndStep ==
  ASSUME CreateInv, NEW r \in Requests, pc[r] # "commit",
         NEW st \in {"invalid", "error", "in flight", "conflict"}, NEW l \in {"done", "exit", "release"},
         l = "release" => st = "error" /\ Keyed(r),
         pc' = [pc EXCEPT ![r] = l], answer' = [answer EXCEPT ![r] = Answer(st, {})],
         UNCHANGED <<rows, tx, outbox, scheduled, clock, nextId, version, deprecated, cancelled, req, before,
                     slot, lapsed>>, FaultsTypeOK'
  PROVE  CreateInv'
<1>1. /\ Answer(st, {}) \in [status : Statuses, ids : SUBSET Nat]
      /\ Answer(st, {}).status = st /\ Answer(st, {}).ids = {}
  <2>1. st \in Statuses /\ {} \in SUBSET Nat
    BY Zenon DEF Statuses
  <2> QED
    BY Zenon, <2>1, AnswerTypes
<1>2. RequestOK(r) /\ pc \in [Requests -> Labels] /\ answer \in [Requests -> [status : Statuses, ids : SUBSET Nat]]
      /\ slot \in [Owners \X IdemKeys -> Record] /\ SlotInv /\ lapsed \in BOOLEAN
  BY Zenon, OneRequest
<1>3. pc'[r] = l /\ answer'[r] = Answer(st, {}) /\ l \in Labels \ {"commit"}
  BY Zenon, <1>2 DEF Labels
<1>4. ~Succeeded(r)' /\ ~(r \in Unspent)' /\ ~Admitted(r)'
  BY Zenon, <1>1, <1>3 DEF Succeeded, Unspent, Admitted
<1>5. RequestOK(r)'
  BY Zenon, <1>1, <1>2, <1>3, <1>4 DEF RequestOK, Keyed
<1>6. AnswerOK(r)'
  BY Zenon, <1>4 DEF AnswerOK
<1>7. SlotInv'
  BY Zenon, <1>2, SlotStays
<1> QED
  BY Zenon, <1>1, <1>2, <1>3, <1>5, <1>6, <1>7, MoveStep

LEMMA RecordTypes ==
  /\ Free \in Record /\ Free.state = "free"
  /\ \A h \in Hashes : /\ [state |-> "in flight", hash |-> h] \in Record
                       /\ [state |-> "in flight", hash |-> h].state = "in flight"
  /\ \A h \in Hashes, ids \in SUBSET Nat :
       /\ [state |-> "final", hash |-> h, ids |-> ids] \in Record
       /\ [state |-> "final", hash |-> h, ids |-> ids].state = "final"
BY Zenon DEF Free, Record

LEMMA RecordStates ==
  ASSUME NEW s \in Record
  PROVE  s.state \in {"free", "in flight", "final"}
<1>1. CASE s = Free
  BY <1>1 DEF Free
<1>2. CASE s \in [state : {"in flight"}, hash : Hashes]
  BY Zenon, <1>2
<1>3. CASE s \in [state : {"final"}, hash : Hashes, ids : SUBSET Nat]
  BY Zenon, <1>3
<1> QED
  BY Zenon, <1>1, <1>2, <1>3 DEF Record

LEMMA HashType ==
  ASSUME CreateType, NEW r \in Requests
  PROVE  CanonicalHash(r) \in Hashes
BY Zenon, RequestFacts DEF CanonicalHash, Hashes

LEMMA ClaimStep ==
  ASSUME CreateInv, NEW r \in Requests, Claim(r)
  PROVE  CreateInv'
<1>1. /\ pc[r] = "claim" /\ FaultsTypeOK'
      /\ UNCHANGED <<rows, tx, outbox, scheduled, clock, nextId, version, deprecated, cancelled, req, before, lapsed>>
  BY Zenon, FaultMoves DEF Claim, Works, Fails, dbVars, AllFaultKinds, CreateInv, CreateType
<1> DEFINE s == [state |-> "in flight", hash |-> CanonicalHash(r)]
<1>2. \/ pc' = [pc EXCEPT ![r] = "done"] /\ answer' = [answer EXCEPT ![r] = Answer("error", {})] /\ slot' = slot
      \/ /\ answer' = answer
         /\ \/ pc' = [pc EXCEPT ![r] = "insert"] /\ slot' = [slot EXCEPT ![<<req[r].owner, req[r].key>>] = s]
            \/ pc' = [pc EXCEPT ![r] = "get"] /\ slot' = slot
  BY Zenon DEF Claim, Finish, Goto, SetSlot
<1>3. CASE pc' = [pc EXCEPT ![r] = "done"] /\ answer' = [answer EXCEPT ![r] = Answer("error", {})] /\ slot' = slot
  BY Zenon, <1>1, <1>3, EndStep
<1>4. ASSUME NEW l \in {"insert", "get"}, pc' = [pc EXCEPT ![r] = l], answer' = answer,
             slot' = slot \/ slot' = [slot EXCEPT ![<<req[r].owner, req[r].key>>] = s]
      PROVE  CreateInv'
  <2>1. /\ RequestOK(r) /\ answer[r] \in [status : Statuses, ids : SUBSET Nat]
        /\ answer' = [answer EXCEPT ![r] = answer[r]] /\ pc \in [Requests -> Labels]
        /\ slot \in [Owners \X IdemKeys -> Record] /\ SlotInv /\ lapsed' \in BOOLEAN
    BY Zenon, <1>1, <1>4, OneRequest
  <2>2. Keyed(r) /\ answer[r] = NoAnswer /\ Admitted(r)
    BY <1>1, <2>1 DEF RequestOK, Unspent, Admitted
  <2>3. slot' \in [Owners \X IdemKeys -> Record] /\ SlotInv'
    <3>1. CASE slot' = slot
      BY <1>1, <2>1, <3>1, SlotStays
    <3>2. CASE slot' = [slot EXCEPT ![<<req[r].owner, req[r].key>>] = s]
      <4>1. req[r].owner \in Owners /\ req[r].key \in IdemKeys /\ s \in Record /\ s.state # "final"
        BY Zenon, <2>2, RequestFacts, HashType, RecordTypes DEF CreateInv
      <4> HIDE DEF s
      <4> QED
        BY Zenon, <1>1, <2>1, <3>2, <4>1, SlotStep
    <3> QED
      BY Zenon, <1>4, <3>1, <3>2
  <2>4. pc'[r] = l /\ l \in Labels \ {"commit"}
    BY Zenon, <2>1, <1>4 DEF Labels
  <2>5. RequestOK(r)'
    BY Zenon, <1>1, <1>4, <2>1, <2>2, <2>4 DEF RequestOK, Keyed, Unspent, Admitted, Succeeded
  <2>6. AnswerOK(r)'
    BY Zenon, <1>4, <2>2, AnswerTypes DEF AnswerOK, Succeeded
  <2> QED
    BY Zenon, <1>1, <1>4, <2>1, <2>3, <2>4, <2>5, <2>6, MoveStep
<1> QED
  BY Zenon, <1>2, <1>3, <1>4

(* What a final record under the same hash holds is the row of the key. *)
LEMMA ReplayFits ==
  ASSUME CreateInv, NEW r \in Requests, Keyed(r), Slot(r).state = "final", Slot(r).hash = CanonicalHash(r)
  PROVE  /\ Slot(r).ids \in SUBSET Nat
         /\ \E w \in rows : Fits(w, r) /\ Slot(r).ids = {w.id}
<1>1. req[r].owner \in Owners /\ req[r].key \in IdemKeys
  BY Zenon, RequestFacts DEF CreateInv
<1>2. PICK w \in rows : w.owner = req[r].owner /\ w.key = req[r].key /\ Slot(r) = FinalOf(w)
  BY <1>1 DEF CreateInv, SlotInv, Slot
<1>3. Slot(r).hash = <<w.ask, w.version>> /\ Slot(r).ids = {w.id}
  BY <1>2 DEF FinalOf
<1>4. w.ask = req[r].ask /\ w.version = req[r].version
  BY <1>3 DEF CanonicalHash
<1>5. Fits(w, r)
  BY <1>2, <1>4 DEF Fits, RowKey, Keyed
<1>6. w.id \in Nat
  BY DEF CreateInv, CreateType, Row
<1> QED
  BY <1>3, <1>5, <1>6

LEMMA GetStep ==
  ASSUME CreateInv, NEW r \in Requests, Get(r)
  PROVE  CreateInv'
<1>1. /\ pc[r] = "get" /\ FaultsTypeOK'
      /\ UNCHANGED <<rows, tx, outbox, scheduled, clock, nextId, version, deprecated, cancelled, req, before,
                     lapsed, slot>>
      /\ pc' = [pc EXCEPT ![r] = "done"]
  BY FaultMoves DEF Get, Works, Fails, dbVars, AllFaultKinds, CreateInv, CreateType, Finish, Goto
<1>2. /\ RequestOK(r) /\ pc \in [Requests -> Labels] /\ SlotInv
      /\ answer \in [Requests -> [status : Statuses, ids : SUBSET Nat]]
      /\ slot \in [Owners \X IdemKeys -> Record] /\ lapsed \in BOOLEAN
  BY Zenon, OneRequest
<1>3. Keyed(r) /\ Admitted(r)
  BY <1>1, <1>2 DEF RequestOK, Admitted
<1>4. \/ \E st \in {"error", "in flight", "conflict"} : answer' = [answer EXCEPT ![r] = Answer(st, {})]
      \/ /\ Slot(r).state = "final" /\ Slot(r).hash = CanonicalHash(r)
         /\ answer' = [answer EXCEPT ![r] = Answer("replayed", Slot(r).ids)]
  <2>1. Slot(r).state \in {"free", "in flight", "final"}
    <3>1. Slot(r) \in Record
      BY <1>2, <1>3, RequestFacts DEF Slot, CreateInv
    <3> QED
      BY Zenon, <3>1, RecordStates
  <2> QED
    BY Zenon, <2>1 DEF Get, Finish, Decided
<1>5. ASSUME NEW st \in {"error", "in flight", "conflict"}, answer' = [answer EXCEPT ![r] = Answer(st, {})]
      PROVE  CreateInv'
  BY Zenon, <1>1, <1>5, EndStep
<1>6. ASSUME Slot(r).state = "final", Slot(r).hash = CanonicalHash(r),
             answer' = [answer EXCEPT ![r] = Answer("replayed", Slot(r).ids)]
      PROVE  CreateInv'
  <2>1. Slot(r).ids \in SUBSET Nat /\ "replayed" \in Statuses
    BY <1>3, <1>6, ReplayFits DEF Statuses
  <2>2. PICK w \in rows : Fits(w, r) /\ Slot(r).ids = {w.id}
    BY <1>3, <1>6, ReplayFits
  <2>3. /\ Answer("replayed", Slot(r).ids) \in [status : Statuses, ids : SUBSET Nat]
        /\ Answer("replayed", Slot(r).ids).status = "replayed"
        /\ Answer("replayed", Slot(r).ids).ids = {w.id}
    BY <2>1, <2>2, AnswerTypes
  <2>4. pc'[r] = "done" /\ answer'[r] = Answer("replayed", Slot(r).ids) /\ "done" \in Labels \ {"commit"}
    BY Zenon, <1>1, <1>2, <1>6 DEF Labels
  <2>5. RequestOK(r)'
    BY <1>1, <1>2, <1>3, <2>3, <2>4 DEF RequestOK, Keyed, Unspent, Admitted, Succeeded
  <2>6. Fits(w, r)' /\ w \in rows' /\ w.owner = req[r].owner
    BY Zenon, <1>1, <2>2 DEF Fits, RowKey
  <2>7. AnswerOK(r)'
    BY <1>1, <2>3, <2>4, <2>6 DEF AnswerOK
  <2>8. SlotInv'
    BY <1>1, <1>2, SlotStays
  <2> QED
    BY ZenonT(30), <1>1, <1>2, <1>6, <2>3, <2>4, <2>5, <2>7, <2>8, MoveStep
<1> QED
  BY Zenon, <1>4, <1>5, <1>6

(* A step to the exit, or from there to the end. *)
LEMMA LeaveStep ==
  ASSUME CreateInv, NEW r \in Requests, pc[r] \in {"finalize", "release", "exit"},
         NEW l \in {"exit", "done"}, pc' = [pc EXCEPT ![r] = l],
         UNCHANGED <<rows, tx, outbox, scheduled, clock, nextId, version, deprecated, cancelled, req, before, answer>>,
         lapsed' \in BOOLEAN, FaultsTypeOK', slot' \in [Owners \X IdemKeys -> Record], SlotInv'
  PROVE  CreateInv'
<1>1. /\ RequestOK(r) /\ AnswerOK(r) /\ answer[r] \in [status : Statuses, ids : SUBSET Nat]
      /\ answer' = [answer EXCEPT ![r] = answer[r]] /\ pc \in [Requests -> Labels]
  BY OneRequest
<1>2. pc'[r] = l /\ l \in Labels \ {"commit"}
  BY Zenon, <1>1 DEF Labels
<1>3. RequestOK(r)'
  BY Zenon, <1>1, <1>2 DEF RequestOK, Keyed, Unspent, Admitted, Succeeded
<1>4. AnswerOK(r)'
  BY <1>1 DEF AnswerOK, Succeeded, Keyed, Fits, RowKey
<1> QED
  BY Zenon, <1>1, <1>2, <1>3, <1>4, MoveStep

LEMMA FinalizeStep ==
  ASSUME CreateInv, NEW r \in Requests, Finalize(r)
  PROVE  CreateInv'
<1> DEFINE s == [state |-> "final", hash |-> CanonicalHash(r), ids |-> answer[r].ids]
<1>1. /\ pc[r] = "finalize" /\ FaultsTypeOK'
      /\ UNCHANGED <<rows, tx, outbox, scheduled, clock, nextId, version, deprecated, cancelled, req, before,
                     lapsed, answer>>
      /\ pc' = [pc EXCEPT ![r] = "exit"]
      /\ slot' = slot \/ slot' = [slot EXCEPT ![<<req[r].owner, req[r].key>>] = s]
  BY FaultMoves DEF Finalize, Works, Fails, dbVars, AllFaultKinds, CreateInv, CreateType, Goto, SetSlot
<1>2. /\ RequestOK(r) /\ AnswerOK(r) /\ SlotInv
      /\ slot \in [Owners \X IdemKeys -> Record] /\ lapsed' \in BOOLEAN
  BY Zenon, <1>1, OneRequest
<1>3. Keyed(r) /\ Succeeded(r)
  BY Zenon, <1>1, <1>2 DEF RequestOK, Succeeded
<1>4. PICK w \in rows : Fits(w, r) /\ answer[r].ids = {w.id}
  BY Zenon, <1>2, <1>3 DEF AnswerOK
<1>5. s = FinalOf(w) /\ w.owner = req[r].owner /\ w.key = req[r].key
  BY <1>3, <1>4 DEF FinalOf, Fits, CanonicalHash, RowKey, Keyed
<1>6. req[r].owner \in Owners /\ req[r].key \in IdemKeys /\ s \in Record
  BY Zenon, <1>3, RequestFacts, HashType, RecordTypes DEF CreateInv
<1> HIDE DEF s
<1>7. slot' \in [Owners \X IdemKeys -> Record] /\ SlotInv'
  <2>1. CASE slot' = slot
    BY <1>1, <1>2, <2>1, SlotStays
  <2>2. CASE slot' = [slot EXCEPT ![<<req[r].owner, req[r].key>>] = s]
    <3> DEFINE o == req[r].owner
               k == req[r].key
    <3>1. \E v \in rows : v.owner = o /\ v.key = k /\ s = FinalOf(v)
      BY <1>5
    <3>2. o \in Owners /\ k \in IdemKeys /\ slot' = [slot EXCEPT ![<<o, k>>] = s] /\ UNCHANGED rows
      BY <1>1, <1>6, <2>2
    <3> HIDE DEF o, k
    <3> QED
      BY Zenon, <1>2, <1>6, <3>1, <3>2, SlotStep
  <2> QED
    BY Zenon, <1>1, <2>1, <2>2
<1> QED
  BY Zenon, <1>1, <1>2, <1>7, LeaveStep

(* Deleting the record of the key. *)
LEMMA Freed ==
  ASSUME CreateInv, NEW r \in Requests, Keyed(r), UNCHANGED rows,
         slot' = slot \/ slot' = [slot EXCEPT ![<<req[r].owner, req[r].key>>] = Free]
  PROVE  slot' \in [Owners \X IdemKeys -> Record] /\ SlotInv'
<1>1. SlotInv /\ slot \in [Owners \X IdemKeys -> Record]
  BY Zenon, OneRequest
<1>2. CASE slot' = slot
  BY <1>1, <1>2, SlotStays
<1>3. CASE slot' = [slot EXCEPT ![<<req[r].owner, req[r].key>>] = Free]
  <2>1. req[r].owner \in Owners /\ req[r].key \in IdemKeys /\ Free \in Record /\ Free.state # "final"
    BY Zenon, RequestFacts, RecordTypes DEF CreateInv
  <2> DEFINE o == req[r].owner
             k == req[r].key
  <2>2. o \in Owners /\ k \in IdemKeys /\ slot' = [slot EXCEPT ![<<o, k>>] = Free]
    BY Zenon, <1>3, <2>1
  <2> HIDE DEF o, k
  <2> QED
    BY Zenon, <1>1, <2>1, <2>2, SlotStep
<1> QED
  BY <1>2, <1>3

LEMMA ReleaseStep ==
  ASSUME CreateInv, NEW r \in Requests, Release(r)
  PROVE  CreateInv'
<1>1. /\ pc[r] = "release" /\ FaultsTypeOK'
      /\ UNCHANGED <<rows, tx, outbox, scheduled, clock, nextId, version, deprecated, cancelled, req, before,
                     lapsed, answer>>
      /\ pc' = [pc EXCEPT ![r] = "exit"]
      /\ slot' = slot \/ slot' = [slot EXCEPT ![<<req[r].owner, req[r].key>>] = Free]
  BY FaultMoves DEF Release, Works, Fails, dbVars, AllFaultKinds, CreateInv, CreateType, Goto, SetSlot
<1>2. Keyed(r) /\ lapsed' \in BOOLEAN
  BY <1>1, OneRequest DEF RequestOK
<1> QED
  BY Zenon, <1>1, <1>2, Freed, LeaveStep

LEMMA ExitStep ==
  ASSUME CreateInv, NEW r \in Requests, Exit(r)
  PROVE  CreateInv'
<1>1. /\ pc[r] = "exit" /\ FaultsTypeOK'
      /\ UNCHANGED <<rows, tx, outbox, scheduled, clock, nextId, version, deprecated, cancelled, req, before, answer>>
      /\ pc' = [pc EXCEPT ![r] = "done"]
      /\ slot' = slot \/ (Keyed(r) /\ slot' = [slot EXCEPT ![<<req[r].owner, req[r].key>>] = Free])
  BY FaultMoves DEF Exit, dbVars, AllFaultKinds, CreateInv, CreateType, Goto, SetSlot
<1>2. lapsed' \in BOOLEAN
  BY Zenon DEF Exit, CreateInv, CreateType
<1>3. slot' \in [Owners \X IdemKeys -> Record] /\ SlotInv'
  BY Zenon, <1>1, Freed, OneRequest, SlotStays
<1> QED
  BY Zenon, <1>1, <1>2, <1>3, LeaveStep

-----------------------------------------------------------------------------
(* The transaction *)

(* The rows a request inserts are new, what it asked for, and one of its  *)
(* key.                                                                   *)
LEMMA NewRowsFacts ==
  ASSUME CreateInv, NEW r \in Requests, RequestOK(r), NEW t \in Nat
  PROVE  /\ \A w \in NewRows(r, t) : /\ w \in Row /\ w.id \in nextId..(nextId + req[r].items - 1)
                                     /\ w.ts = t /\ Fits(w, r)
         /\ \A v, w \in NewRows(r, t) : v.id = w.id => v = w
         /\ Keyed(r) => \E w \in NewRows(r, t) : NewRows(r, t) = {w}
         /\ RowKey(r) # NoKey => Keyed(r)
<1> DEFINE b == IF req[r].ask = "batch" THEN r ELSE 0
           W(i) == [id |-> nextId + i, ts |-> t, owner |-> req[r].owner, key |-> RowKey(r), ask |-> req[r].ask,
                    batch |-> b, version |-> req[r].version]
<1>1. nextId \in Nat /\ nextId >= 1 /\ req[r].items \in Nat /\ b \in Nat
  <2>1. req[r].items \in 0..(MaxBatch + 1)
    BY Zenon, RequestFacts DEF CreateInv
  <2> QED
    BY <2>1 DEF CreateInv, CreateType, Requests
<1>2. req[r].owner \in Owners /\ req[r].ask \in AllAsks /\ req[r].version \in Nat
      /\ RowKey(r) \in IdemKeys \cup {NoKey}
  BY Zenon, RequestFacts DEF CreateInv, RowKey
<1>3. NewRows(r, t) = {W(i) : i \in 0..(req[r].items - 1)}
  BY Zenon DEF NewRows
<1> HIDE DEF b
<1>4. ASSUME NEW i \in 0..(req[r].items - 1)
      PROVE  /\ W(i) \in Row /\ W(i).id = nextId + i /\ W(i).ts = t /\ Fits(W(i), r)
             /\ nextId + i \in nextId..(nextId + req[r].items - 1)
  <2>1. nextId + i \in Nat /\ nextId + i \in nextId..(nextId + req[r].items - 1)
    BY <1>1
  <2> QED
    BY Zenon, <1>1, <1>2, <2>1 DEF Row, Fits
<1>5. RowKey(r) # NoKey => Keyed(r)
  BY DEF RowKey, Keyed
<1>6. Keyed(r) => req[r].items = 1
  BY DEF RequestOK, Keyed
<1>7. Keyed(r) => NewRows(r, t) = {W(0)}
  <2>1. Keyed(r) => 0..(req[r].items - 1) = {0}
    BY <1>6
  <2> HIDE DEF W
  <2> QED
    BY <1>3, <2>1
<1>8. \A i, j \in 0..(req[r].items - 1) : W(i).id = W(j).id => i = j
  BY <1>1, <1>4
<1> HIDE DEF W
<1>9. \A w \in NewRows(r, t) : /\ w \in Row /\ w.id \in nextId..(nextId + req[r].items - 1)
                               /\ w.ts = t /\ Fits(w, r)
  BY <1>3, <1>4
<1>10. \A v, w \in NewRows(r, t) : v.id = w.id => v = w
  BY <1>3, <1>8
<1>11. Keyed(r) => \E w \in NewRows(r, t) : NewRows(r, t) = {w}
  BY <1>7
<1> QED
  BY <1>5, <1>9, <1>10, <1>11

LEMMA InsertStep ==
  ASSUME CreateInv, NEW r \in Requests, Insert(r)
  PROVE  CreateInv'
<1>1. /\ pc[r] = "insert" /\ FaultsTypeOK'
      /\ UNCHANGED <<rows, outbox, scheduled, version, deprecated, cancelled, req, before, lapsed, slot>>
  BY Zenon, FaultMoves DEF Insert, Works, Fails, AllFaultKinds, CreateInv, CreateType
<1>2. /\ RequestOK(r) /\ pc \in [Requests -> Labels] /\ SlotInv /\ TxOK(r)
      /\ answer \in [Requests -> [status : Statuses, ids : SUBSET Nat]]
      /\ slot \in [Owners \X IdemKeys -> Record] /\ lapsed \in BOOLEAN
  BY Zenon, OneRequest
<1>3. \/ Failed(r) /\ UNCHANGED <<tx, clock, nextId>>
      \/ /\ ~Taken(r) /\ ~Waiting(r) /\ nextId' = nextId + req[r].items
         /\ \E p \in Passing : clock' = clock + p /\ tx' = [tx EXCEPT ![r] = NewRows(r, clock + p)]
         /\ pc' = [pc EXCEPT ![r] = "commit"] /\ answer' = answer
  BY DEF Insert, Works, Goto
<1>4. ASSUME Failed(r), UNCHANGED <<tx, clock, nextId>>
      PROVE  CreateInv'
  <2>1. answer' = [answer EXCEPT ![r] = Answer("error", {})]
        /\ pc' = [pc EXCEPT ![r] = IF Keyed(r) THEN "release" ELSE "exit"]
    BY <1>4 DEF Failed, Goto
  <2>2. CASE Keyed(r)
    BY Zenon, <1>1, <1>4, <2>1, <2>2, EndStep
  <2>3. CASE ~Keyed(r)
    BY Zenon, <1>1, <1>4, <2>1, <2>3, EndStep
  <2> QED
    BY <2>2, <2>3
<1>5. ASSUME NEW p \in Passing, ~Taken(r), ~Waiting(r), nextId' = nextId + req[r].items,
             clock' = clock + p, tx' = [tx EXCEPT ![r] = NewRows(r, clock + p)],
             pc' = [pc EXCEPT ![r] = "commit"], answer' = answer
      PROVE  CreateInv'
  <2> DEFINE N == NewRows(r, clock')
  <2>1. /\ clock \in Nat /\ clock' \in Nat /\ clock <= clock' /\ nextId \in Nat /\ nextId' \in Nat
        /\ 1 <= nextId /\ nextId <= nextId' /\ nextId' = nextId + req[r].items /\ req[r].items \in Nat
    <3>1. req[r].items \in 0..(MaxBatch + 1)
      BY Zenon, RequestFacts DEF CreateInv
    <3>2. p \in Nat
      BY CreationAssumption
    <3> QED
      BY <1>5, <3>1, <3>2 DEF CreateInv, CreateType
  <2>2. /\ \A w \in N : /\ w \in Row /\ w.id \in nextId..(nextId + req[r].items - 1) /\ w.ts = clock' /\ Fits(w, r)
        /\ \A v, w \in N : v.id = w.id => v = w
        /\ Keyed(r) => \E w \in N : N = {w}
        /\ RowKey(r) # NoKey => Keyed(r)
    BY Zenon, <1>2, <2>1, NewRowsFacts
  <2>3. /\ tx \in [Requests -> SUBSET Row] /\ tx' = [tx EXCEPT ![r] = N]
        /\ outbox \subseteq 1..(nextId - 1) /\ scheduled \subseteq 1..(nextId - 1)
    BY Zenon, <1>5 DEF CreateInv, CreateType
  <2> HIDE DEF N
  <2>4. /\ tx' \in [Requests -> SUBSET Row] /\ tx'[r] = N /\ pc'[r] = "commit"
        /\ \A q \in Requests \ {r} : tx'[q] = tx[q]
    BY ZenonT(30), <1>2, <1>5, <2>2, <2>3
  <2>5. Others(r)
    BY <1>1, <1>2, <1>5, <2>4 DEF Others
  <2>6. CreateType'
    <3>1. outbox' \subseteq 1..(nextId' - 1) /\ scheduled' \subseteq 1..(nextId' - 1)
      BY <1>1, <2>1, <2>3
    <3>2. pc' \in [Requests -> Labels]
      BY Zenon, <1>2, <1>5 DEF Labels
    <3>3. nextId' \in Nat \ {0}
      BY <2>1
    <3> QED
      BY ZenonT(30), <1>1, <1>5, <2>1, <2>4, <3>1, <3>2, <3>3 DEF CreateInv, CreateType
  <2>7. RequestInv'
    <3>1. RequestOK(r)'
      BY Zenon, <1>1, <1>2, <1>5, <2>4 DEF RequestOK, Keyed, Unspent, Admitted, Succeeded
    <3>2. version' \in Nat /\ version <= version'
      BY <1>1 DEF CreateInv, CreateType
    <3> QED
      BY <2>5, <3>1, <3>2, OthersRequest DEF RequestInv, CreateInv
  <2>8. AnswerInv'
    <3>1. AnswerOK(r)'
      BY Zenon, <1>1, <1>2, <1>5, AnswerTypes DEF AnswerOK, Succeeded, RequestOK, Unspent
    <3> QED
      BY <1>1, <2>5, <3>1, OthersAnswer DEF AnswerInv, CreateInv
  <2>9. RowsInv'
    <3>1. \A w : Written(w)' => Written(w) \/ w \in N
      BY <1>1, <2>4 DEF Written
    <3>4. \A w : Written(w) => w.id \in Nat /\ w.ts \in Nat
      <4>1. \A w : Written(w) => w \in Row
        BY Zenon DEF Written, CreateInv, CreateType
      <4> QED
        BY <4>1 DEF Row
    <3>2. \A w : Written(w) => Dated(w)' /\ w.id < nextId
      BY <2>1, <3>4 DEF CreateInv, RowsInv, Dated
    <3>3. \A w \in N : Dated(w)' /\ nextId <= w.id
      <4> SUFFICES ASSUME NEW w \in N PROVE Dated(w)' /\ nextId <= w.id
        BY Zenon
      <4>1. w.id \in Nat /\ w.id \in nextId..(nextId + req[r].items - 1) /\ w.ts = clock'
        BY <2>2 DEF Row
      <4> QED
        BY <2>1, <4>1 DEF Dated
    <3>5. \A v : Written(v) => \A w \in N : v.id # w.id /\ ~(v.key = w.key /\ v.key # NoKey)
      <4>1. \A w \in N : w.key = RowKey(r) /\ w.id \in Nat
        BY <2>2 DEF Fits, Row
      <4>2. \A v : Written(v) => ~(v.key = RowKey(r) /\ v.key # NoKey)
        BY Zenon, <1>5 DEF Written, Taken, Waiting
      <4>3. \A v : Written(v) => \A w \in N : v.id # w.id
        BY <2>1, <3>2, <3>3, <3>4, <4>1
      <4> QED
        BY Zenon, <4>1, <4>2, <4>3
    <3>6. \A v, w \in N : v.key = w.key /\ v.key # NoKey => v = w
      BY <2>2 DEF Fits
    <3>7. \A v, w : Written(v)' /\ Written(w)' => Apart(v, w)
      BY Zenon, <2>2, <3>1, <3>5, <3>6 DEF CreateInv, RowsInv, Apart
    <3>8. \A v, w : Apart(v, w)' = Apart(v, w)
      BY DEF Apart
    <3>9. \A q \in Requests : TxOK(q)'
      <4>1. TxOK(r)'
        BY Zenon, <1>1, <2>2, <2>4 DEF TxOK, Fits, RowKey, Keyed
      <4>2. \A q \in Requests \ {r} : TxOK(q)'
        BY <2>5 DEF Others, CreateInv, RowsInv, TxOK, Fits, RowKey, Keyed
      <4> QED
        BY Zenon, <4>1, <4>2
    <3>10. \A w \in rows' : w.id \in outbox' \cup scheduled'
      BY <1>1 DEF CreateInv, RowsInv
    <3>11. \A w : Written(w)' => Dated(w)'
      BY <3>1, <3>2, <3>3
    <3> QED
      BY <3>7, <3>8, <3>9, <3>10, <3>11 DEF RowsInv
  <2>10. SlotInv'
    BY <1>1, <1>2, SlotStays
  <2> QED
    BY Zenon, <2>6, <2>7, <2>8, <2>9, <2>10 DEF CreateInv
<1> QED
  BY Zenon, <1>3, <1>4, <1>5

(* A transaction ends, with its rows in the tables or without. *)
LEMMA EndTx ==
  ASSUME CreateInv, NEW r \in Requests, NEW l \in Labels \ {"commit"},
         pc' = [pc EXCEPT ![r] = l], tx' = [tx EXCEPT ![r] = {}],
         Stored(r) \/ UNCHANGED <<rows, outbox, scheduled>>,
         UNCHANGED <<clock, nextId, req>>,
         NEW a \in [status : Statuses, ids : SUBSET Nat], answer' = [answer EXCEPT ![r] = a]
  PROVE  /\ rows' \subseteq Row /\ rows \subseteq rows' /\ tx' \in [Requests -> SUBSET Row]
         /\ outbox' \subseteq 1..(nextId' - 1) /\ scheduled' \subseteq 1..(nextId' - 1)
         /\ RowsInv' /\ Others(r) /\ tx'[r] = {}
         /\ Stored(r) => tx[r] \subseteq rows'
<1>1. /\ rows \subseteq Row /\ tx \in [Requests -> SUBSET Row] /\ pc \in [Requests -> Labels]
      /\ answer \in [Requests -> [status : Statuses, ids : SUBSET Nat]]
      /\ outbox \subseteq 1..(nextId - 1) /\ scheduled \subseteq 1..(nextId - 1) /\ RowsInv
  BY DEF CreateInv, CreateType
<1>2. tx' \in [Requests -> SUBSET Row] /\ tx'[r] = {} /\ \A q \in Requests \ {r} : tx'[q] = tx[q]
  BY <1>1
<1>3. rows' \subseteq rows \cup tx[r] /\ rows \subseteq rows' /\ (Stored(r) => tx[r] \subseteq rows')
  BY Zenon DEF Stored
<1>4. \A w \in tx[r] : w.id \in 1..(nextId - 1)
  BY Zenon, <1>1 DEF RowsInv, Written, Dated
<1>5. outbox' \subseteq 1..(nextId' - 1) /\ scheduled' \subseteq 1..(nextId' - 1)
  <2>1. outbox' \subseteq outbox \cup {w.id : w \in tx[r]} /\ scheduled' \subseteq scheduled \cup {w.id : w \in tx[r]}
    BY DEF Stored
  <2> QED
    BY <1>1, <1>4, <2>1
<1>6. Others(r)
  BY <1>1, <1>2 DEF Others
<1>7. \A w : Written(w)' => Written(w)
  BY <1>2, <1>3 DEF Written
<1>8. \A w : Dated(w)' <=> Dated(w)
  BY DEF Dated
<1>9. \A w \in rows' : w.id \in outbox' \cup scheduled'
  <2>1. CASE UNCHANGED <<rows, outbox, scheduled>>
    BY <1>1, <2>1 DEF RowsInv
  <2>2. CASE Stored(r)
    <3>1. \A w \in rows : w.id \in outbox' \cup scheduled'
      BY Zenon, <1>1, <2>2 DEF RowsInv, Stored
    <3>2. \A w \in tx[r] : w.id \in outbox' \cup scheduled'
      BY <2>2 DEF Stored
    <3> QED
      BY Zenon, <1>3, <3>1, <3>2
  <2> QED
    BY <2>1, <2>2
<1>10. \A q \in Requests : TxOK(q)'
  <2>1. TxOK(r)'
    BY Zenon, <1>1, <1>2 DEF TxOK
  <2>2. ASSUME NEW q \in Requests \ {r}
        PROVE  TxOK(q)'
    <3>1. TxOK(q) /\ tx'[q] = tx[q] /\ pc'[q] = pc[q] /\ req'[q] = req[q]
      BY Zenon, <1>1, <1>6 DEF Others, RowsInv
    <3>2. (Keyed(q)' <=> Keyed(q)) /\ \A w : Fits(w, q)' <=> Fits(w, q)
      BY Zenon, <3>1 DEF Fits, RowKey, Keyed
    <3> QED
      BY Zenon, <3>1, <3>2 DEF TxOK
  <2> QED
    BY Zenon, <2>1, <2>2
<1>11. RowsInv'
  BY Zenon, <1>1, <1>7, <1>8, <1>9, <1>10 DEF RowsInv, Apart
<1>12. rows' \subseteq Row
  BY Zenon, <1>1, <1>3
<1> QED
  BY Zenon, <1>2, <1>3, <1>5, <1>6, <1>11, <1>12

(* The request whose transaction ends is answered and goes on. *)
LEMMA EndTxStep ==
  ASSUME CreateInv, NEW r \in Requests, NEW l \in Labels \ {"commit"},
         pc' = [pc EXCEPT ![r] = l], tx' = [tx EXCEPT ![r] = {}],
         Stored(r) \/ UNCHANGED <<rows, outbox, scheduled>>,
         UNCHANGED <<clock, nextId, req, version, deprecated, slot, cancelled, before, lapsed>>, FaultsTypeOK',
         NEW a \in [status : Statuses, ids : SUBSET Nat], answer' = [answer EXCEPT ![r] = a],
         RequestOK(r)', AnswerOK(r)'
  PROVE  CreateInv'
<1>1. /\ rows' \subseteq Row /\ rows \subseteq rows' /\ tx' \in [Requests -> SUBSET Row]
      /\ outbox' \subseteq 1..(nextId' - 1) /\ scheduled' \subseteq 1..(nextId' - 1)
      /\ RowsInv' /\ Others(r)
  BY Zenon, EndTx
<1>2. pc' \in [Requests -> Labels] /\ answer' \in [Requests -> [status : Statuses, ids : SUBSET Nat]]
  BY Zenon DEF CreateInv, CreateType
<1>3. CreateType'
  BY Zenon, <1>1, <1>2 DEF CreateInv, CreateType
<1>4. version' \in Nat /\ version <= version'
  BY DEF CreateInv, CreateType
<1>5. RequestInv'
  BY Zenon, <1>1, <1>4, OthersRequest DEF RequestInv, CreateInv
<1>6. AnswerInv'
  BY Zenon, <1>1, OthersAnswer DEF AnswerInv, CreateInv
<1>7. SlotInv'
  BY <1>1, SlotStays DEF CreateInv
<1> QED
  BY <1>1, <1>3, <1>5, <1>6, <1>7 DEF CreateInv

(* A commit or a crash that ends in an error. *)
LEMMA ErrorStep ==
  ASSUME CreateInv, NEW r \in Requests, NEW l \in {"done", "exit", "release"}, l = "release" => Keyed(r),
         pc' = [pc EXCEPT ![r] = l], tx' = [tx EXCEPT ![r] = {}],
         Stored(r) \/ UNCHANGED <<rows, outbox, scheduled>>,
         UNCHANGED <<clock, nextId, req, version, deprecated, slot, cancelled, before, lapsed>>, FaultsTypeOK',
         answer' = [answer EXCEPT ![r] = Answer("error", {})]
  PROVE  CreateInv'
<1>1. /\ Answer("error", {}) \in [status : Statuses, ids : SUBSET Nat]
      /\ Answer("error", {}).status = "error" /\ Answer("error", {}).ids = {}
  <2>1. "error" \in Statuses /\ {} \in SUBSET Nat
    BY Zenon DEF Statuses
  <2> QED
    BY <2>1, AnswerTypes
<1>2. RequestOK(r) /\ pc \in [Requests -> Labels] /\ answer \in [Requests -> [status : Statuses, ids : SUBSET Nat]]
  BY Zenon, OneRequest
<1>3. pc'[r] = l /\ answer'[r] = Answer("error", {}) /\ l \in Labels \ {"commit"}
  BY Zenon, <1>2 DEF Labels
<1>4. ~Succeeded(r)' /\ ~(r \in Unspent)' /\ ~Admitted(r)'
  BY <1>1, <1>3 DEF Succeeded, Unspent, Admitted
<1>5. RequestOK(r)'
  BY Zenon, <1>1, <1>2, <1>3, <1>4 DEF RequestOK, Keyed
<1>6. AnswerOK(r)'
  BY Zenon, <1>4 DEF AnswerOK
<1> QED
  BY Zenon, <1>1, <1>3, <1>5, <1>6, EndTxStep

LEMMA CommitStep ==
  ASSUME CreateInv, NEW r \in Requests, Commit(r)
  PROVE  CreateInv'
<1>1. /\ pc[r] = "commit" /\ FaultsTypeOK' /\ tx' = [tx EXCEPT ![r] = {}]
      /\ UNCHANGED <<clock, nextId, version, deprecated, slot, req, cancelled, before, lapsed>>
  BY Zenon, FaultMoves DEF Commit, Rollback, Works, Fails, AllFaultKinds, CreateInv, CreateType
<1>2. \/ /\ Stored(r) /\ answer' = [answer EXCEPT ![r] = Answer("201", {w.id : w \in tx[r]})]
         /\ pc' = [pc EXCEPT ![r] = IF Keyed(r) THEN "finalize" ELSE "exit"]
      \/ /\ Stored(r) \/ UNCHANGED <<rows, outbox, scheduled>>
         /\ answer' = [answer EXCEPT ![r] = Answer("error", {})]
         /\ pc' = [pc EXCEPT ![r] = IF Keyed(r) THEN "release" ELSE "exit"]
  BY Zenon DEF Commit, Failed, Goto
<1>3. ASSUME Stored(r) \/ UNCHANGED <<rows, outbox, scheduled>>,
             answer' = [answer EXCEPT ![r] = Answer("error", {})],
             pc' = [pc EXCEPT ![r] = IF Keyed(r) THEN "release" ELSE "exit"]
      PROVE  CreateInv'
  <2>1. CASE Keyed(r)
    BY Zenon, <1>1, <1>3, <2>1, ErrorStep
  <2>2. CASE ~Keyed(r)
    BY Zenon, <1>1, <1>3, <2>2, ErrorStep
  <2> QED
    BY <2>1, <2>2
<1>4. ASSUME Stored(r), answer' = [answer EXCEPT ![r] = Answer("201", {w.id : w \in tx[r]})],
             pc' = [pc EXCEPT ![r] = IF Keyed(r) THEN "finalize" ELSE "exit"]
      PROVE  CreateInv'
  <2> DEFINE ids == {w.id : w \in tx[r]}
             l == IF Keyed(r) THEN "finalize" ELSE "exit"
             a == Answer("201", ids)
  <2>1. RequestOK(r) /\ TxOK(r) /\ pc \in [Requests -> Labels]
        /\ answer \in [Requests -> [status : Statuses, ids : SUBSET Nat]] /\ tx[r] \subseteq Row
    BY OneRequest DEF CreateInv, CreateType
  <2>2. ids \in SUBSET Nat /\ "201" \in Statuses
    BY Zenon, <2>1 DEF Statuses, Row
  <2>3. a \in [status : Statuses, ids : SUBSET Nat] /\ a.status = "201" /\ a.ids = ids
    BY <2>2, AnswerTypes
  <2>4. l \in Labels \ {"commit"} /\ l \in {"finalize", "exit"} /\ (l = "finalize" => Keyed(r))
    BY Zenon DEF Labels
  <2>5. pc' = [pc EXCEPT ![r] = l] /\ answer' = [answer EXCEPT ![r] = a]
    BY Zenon, <1>4
  <2> HIDE DEF l, a
  <2>6. tx[r] \subseteq rows'
    BY Zenon, <1>4 DEF Stored
  <2>7. pc'[r] = l /\ answer'[r] = a
    BY <2>1, <2>5
  <2>8. RequestOK(r)'
    BY Zenon, <1>1, <2>1, <2>3, <2>4, <2>7 DEF RequestOK, Keyed, Unspent, Admitted, Succeeded
  <2>9. AnswerOK(r)'
    <3>1. \A i \in ids : \E w \in rows' : w.id = i /\ w.owner = req'[r].owner
      BY Zenon, <1>1, <2>1, <2>6 DEF TxOK, Fits
    <3>2. Keyed(r)' => \E w \in rows' : Fits(w, r)' /\ ids = {w.id}
      <4> SUFFICES ASSUME Keyed(r) PROVE \E w \in rows' : Fits(w, r)' /\ ids = {w.id}
        BY Zenon, <1>1 DEF Keyed
      <4>1. PICK w \in tx[r] : tx[r] = {w}
        BY Zenon, <1>1, <2>1 DEF TxOK
      <4>2. Fits(w, r)' /\ ids = {w.id} /\ w \in rows'
        BY <1>1, <2>1, <2>6, <4>1 DEF TxOK, Fits, RowKey
      <4> QED
        BY Zenon, <4>2
    <3> HIDE DEF ids
    <3> QED
      BY Zenon, <2>3, <2>7, <3>1, <3>2 DEF AnswerOK
  <2> HIDE DEF ids
  <2> QED
    BY Zenon, <1>1, <1>4, <2>3, <2>4, <2>5, <2>8, <2>9, EndTxStep
<1> QED
  BY Zenon, <1>2, <1>3, <1>4

LEMMA CrashStep ==
  ASSUME CreateInv, NEW r \in Requests, Crash(r)
  PROVE  CreateInv'
<1>1. /\ FaultsTypeOK' /\ tx' = [tx EXCEPT ![r] = {}] /\ pc' = [pc EXCEPT ![r] = "done"]
      /\ answer' = [answer EXCEPT ![r] = Answer("error", {})]
      /\ UNCHANGED <<rows, outbox, scheduled, clock, nextId, version, deprecated, slot, req, cancelled, before, lapsed>>
  BY FaultMoves DEF Crash, dbVars, AllFaultKinds, CreateInv, CreateType, Finish, Goto
<1> QED
  BY Zenon, <1>1, ErrorStep

-----------------------------------------------------------------------------
(* Around the requests *)

(* What a step of none of the requests has to keep. *)
LEMMA QuietStep ==
  ASSUME CreateInv, UNCHANGED <<rows, tx, outbox, scheduled, clock, nextId, pc, req, answer, before>>,
         version' \in 1..MaxVersion, version <= version', deprecated' \in BOOLEAN, cancelled' \subseteq Requests,
         lapsed' \in BOOLEAN, FaultsTypeOK', slot' \in [Owners \X IdemKeys -> Record], SlotInv'
  PROVE  CreateInv'
<1>1. CreateType'
  BY Zenon DEF CreateInv, CreateType
<1>2. RequestInv'
  <2> SUFFICES ASSUME NEW r \in Requests PROVE RequestOK(r)'
    BY DEF RequestInv
  <2>1. RequestOK(r) /\ req[r].version \in Nat
    BY Zenon, RequestFacts DEF CreateInv, RequestInv
  <2>2. version \in Nat /\ version' \in Nat
    BY DEF CreateInv, CreateType
  <2>3. (r \in Unspent)' <=> r \in Unspent
    BY Zenon DEF Unspent
  <2>4. req[r].version <= version'
    <3>1. \A a, b, c \in Nat : a <= b /\ b <= c => a <= c
      OBVIOUS
    <3> QED
      BY Zenon, <2>1, <2>2, <3>1 DEF RequestOK
  <2>5. (Keyed(r)' <=> Keyed(r)) /\ (Succeeded(r)' <=> Succeeded(r)) /\ (Admitted(r)' <=> Admitted(r))
    BY Zenon DEF Keyed, Succeeded, Admitted
  <2> QED
    BY Zenon, <2>1, <2>3, <2>4, <2>5 DEF RequestOK
<1>3. RowsInv'
  <2>1. \A w : (Written(w)' <=> Written(w)) /\ (Dated(w)' <=> Dated(w))
    BY Zenon DEF Written, Dated
  <2>2. \A r \in Requests : TxOK(r)'
    BY Zenon DEF CreateInv, RowsInv, TxOK, Fits, RowKey, Keyed
  <2> QED
    BY Zenon, <2>1, <2>2 DEF CreateInv, RowsInv, Apart
<1>4. AnswerInv'
  BY DEF CreateInv, AnswerInv, AnswerOK, Succeeded, Keyed, Fits, RowKey
<1> QED
  BY Zenon, <1>1, <1>2, <1>3, <1>4 DEF CreateInv

LEMMA AroundSteps ==
  ASSUME CreateInv,
         \/ \E o \in Owners, k \in IdemKeys : Expire(o, k)
         \/ \E r \in Requests : Cancel(r)
         \/ BumpTemplateVersion
         \/ DeprecateTemplate
         \/ UNCHANGED vars
  PROVE  CreateInv'
<1>1. /\ version \in 1..MaxVersion /\ deprecated \in BOOLEAN /\ cancelled \subseteq Requests /\ lapsed \in BOOLEAN
      /\ FaultsTypeOK /\ slot \in [Owners \X IdemKeys -> Record] /\ SlotInv
  BY DEF CreateInv, CreateType
<1>2. /\ UNCHANGED <<rows, tx, outbox, scheduled, clock, nextId, pc, req, answer, before>>
      /\ faults' = faults
  BY Zenon DEF Expire, Cancel, BumpTemplateVersion, DeprecateTemplate, vars, dbVars, NoFault
<1>3. FaultsTypeOK'
  BY Zenon, <1>1, <1>2 DEF FaultsTypeOK
<1>4. ASSUME NEW o \in Owners, NEW k \in IdemKeys, Expire(o, k) PROVE CreateInv'
  <2>1. slot' = [slot EXCEPT ![<<o, k>>] = Free] /\ lapsed' \in BOOLEAN
        /\ UNCHANGED <<version, deprecated, cancelled>>
    BY <1>4 DEF Expire, dbVars
  <2>2. Free \in Record /\ Free.state # "final"
    BY Zenon, RecordTypes
  <2>3. slot' \in [Owners \X IdemKeys -> Record] /\ SlotInv'
    BY Zenon, <1>1, <1>2, <2>1, <2>2, SlotStep
  <2>4. version' \in 1..MaxVersion /\ version <= version'
    BY <1>1, <2>1
  <2> QED
    BY Zenon, <1>1, <1>2, <1>3, <2>1, <2>3, <2>4, QuietStep
<1>5. ASSUME UNCHANGED slot, version' \in 1..MaxVersion, version <= version', deprecated' \in BOOLEAN,
             cancelled' \subseteq Requests, lapsed' \in BOOLEAN
      PROVE  CreateInv'
  <2>1. slot' \in [Owners \X IdemKeys -> Record] /\ SlotInv'
    BY <1>1, <1>2, <1>5, SlotStays
  <2> QED
    BY <1>2, <1>3, <1>5, <2>1, QuietStep
<1>6. ASSUME NEW r \in Requests, Cancel(r) PROVE CreateInv'
  <2>1. /\ slot' = slot /\ version' = version /\ deprecated' = deprecated /\ lapsed' = lapsed
        /\ cancelled' = cancelled \cup {r}
    BY Zenon, <1>6 DEF Cancel, dbVars
  <2> QED
    BY <1>1, <1>5, <2>1
<1>7. CASE BumpTemplateVersion
  BY CreationAssumption, <1>1, <1>5, <1>7 DEF BumpTemplateVersion
<1>8. CASE DeprecateTemplate
  BY <1>1, <1>5, <1>8 DEF DeprecateTemplate
<1>9. CASE UNCHANGED vars
  BY <1>1, <1>5, <1>9 DEF vars, dbVars
<1> QED
  BY Zenon, <1>4, <1>6, <1>7, <1>8, <1>9

LEMMA CreateInit ==
  ASSUME Init
  PROVE  CreateInv
<1>1. CreateType
  <2> DEFINE q == [owner |-> Author, key |-> NoKey, ask |-> "plain", items |-> 1, version |-> 0]
  <2>1. q \in Request /\ req = [r \in Requests |-> q]
    BY CreationAssumption DEF Init, Request, AllAsks
  <2>2. Free \in Record /\ NoAnswer \in [status : Statuses, ids : SUBSET Nat]
    BY Zenon, RecordTypes, AnswerTypes
  <2>3. FaultsTypeOK
    BY FaultsAssumption DEF Init, FaultsInit, FaultsTypeOK
  <2> HIDE DEF q
  <2>4. rows = {} /\ outbox = {} /\ scheduled = {} /\ clock = 0 /\ nextId = 1 /\ version = 1 /\ deprecated = FALSE
        /\ cancelled = {} /\ lapsed = FALSE
    BY DEF Init
  <2>5. version \in 1..MaxVersion /\ clock \in Nat /\ nextId \in Nat \ {0}
    BY CreationAssumption, <2>4
  <2>6. slot \in [Owners \X IdemKeys -> Record] /\ answer \in [Requests -> [status : Statuses, ids : SUBSET Nat]]
        /\ req \in [Requests -> Request]
    BY Zenon, <2>1, <2>2 DEF Init
  <2>7. pc \in [Requests -> Labels] /\ tx \in [Requests -> SUBSET Row] /\ before \in [Requests -> SUBSET Requests]
    BY Zenon DEF Init, Labels
  <2> QED
    BY Zenon, <2>3, <2>4, <2>5, <2>6, <2>7 DEF CreateType
<1>2. RequestInv
  <2> SUFFICES ASSUME NEW r \in Requests PROVE RequestOK(r)
    BY Zenon DEF RequestInv
  <2>1. /\ pc[r] = "idle" /\ answer[r] = NoAnswer /\ version = 1
        /\ req[r].ask = "plain" /\ req[r].items = 1 /\ req[r].version = 0
    BY DEF Init
  <2> QED
    BY <2>1, AnswerTypes DEF RequestOK, Admitted, Succeeded
<1>3. RowsInv
  BY Zenon DEF Init, RowsInv, Written, TxOK
<1>4. SlotInv
  BY Zenon, RecordTypes DEF Init, SlotInv
<1>5. AnswerInv
  BY Zenon, AnswerTypes DEF Init, AnswerInv, AnswerOK, Succeeded
<1> QED
  BY <1>1, <1>2, <1>3, <1>4, <1>5 DEF CreateInv

LEMMA CreateStep ==
  ASSUME CreateInv, [Next]_vars
  PROVE  CreateInv'
<1>1. ASSUME NEW r \in Requests, NEW o \in Owners, NEW k \in Headers, NEW a \in Asks, NEW n \in 0..MaxBatch,
             Arrive(r, o, k, a, n)
      PROVE  CreateInv'
  BY Zenon, <1>1, ArriveStep
<1>2. ASSUME NEW r \in Requests, Step(r) \/ Crash(r) PROVE CreateInv'
  BY <1>2, TemplateStep, ClaimStep, GetStep, InsertStep, CommitStep, FinalizeStep, ReleaseStep, ExitStep,
     CrashStep DEF Step
<1> QED
  BY <1>1, <1>2, AroundSteps DEF Next

-----------------------------------------------------------------------------
(* What is answered *)

(* Create and createBatch keep the tables, the records and the answers in  *)
(* agreement, whatever fails, expires or goes away.                        *)
THEOREM CreationInvariant == Spec => []CreateInv
BY CreateInit, CreateStep, PTL DEF Spec

(* Single creates under one key of an owner leave one notification behind  *)
(* and are answered with one and the same, asked for by both, whatever the *)
(* schedule of claims, expiries, crashes and failed calls.                 *)
THEOREM OneKeyOneNotification == Spec => []AnswersAgree
<1>1. CreateInv => AnswersAgree
  <2>0. CreateInv => \A v, w \in rows : v.owner = w.owner /\ v.key = w.key /\ v.key # NoKey => v = w
    BY Zenon DEF CreateInv, RowsInv, Written, Apart
  <2> SUFFICES ASSUME CreateInv, NEW q \in Requests, NEW r \in Requests, Succeeded(q), Succeeded(r),
                      Keyed(q), Keyed(r), req[q].owner = req[r].owner, req[q].key = req[r].key
               PROVE  /\ answer[q].ids = answer[r].ids
                      /\ req[q].ask = req[r].ask /\ req[q].version = req[r].version
    BY Zenon, <2>0 DEF AnswersAgree
  <2>1. PICK v \in rows : Fits(v, q) /\ answer[q].ids = {v.id}
    BY Zenon DEF CreateInv, AnswerInv, AnswerOK
  <2>2. PICK w \in rows : Fits(w, r) /\ answer[r].ids = {w.id}
    BY Zenon DEF CreateInv, AnswerInv, AnswerOK
  <2>3. v.key = w.key /\ v.key # NoKey
    BY Zenon, <2>1, <2>2 DEF Fits, RowKey, Keyed
  <2>4. v = w
    BY Zenon, <2>3 DEF CreateInv, RowsInv, Written, Apart
  <2> QED
    BY Zenon, <2>1, <2>2, <2>4 DEF Fits
<1> QED
  BY <1>1, CreationInvariant, PTL

(* A success response is only given for stored notifications of the        *)
(* caller, each with the outbox row or the timer that gets it sent.        *)
THEOREM SuccessIsStored == Spec => []AnsweredIsStored
<1>1. CreateInv => AnsweredIsStored
  <2> SUFFICES ASSUME CreateInv, NEW r \in Requests, Succeeded(r), NEW i \in answer[r].ids
               PROVE  /\ \E w \in rows : w.id = i /\ w.owner = req[r].owner
                      /\ i \in outbox \cup scheduled
    BY Zenon DEF AnsweredIsStored
  <2>1. PICK w \in rows : w.id = i /\ w.owner = req[r].owner
    BY Zenon DEF CreateInv, AnswerInv, AnswerOK
  <2>2. w.id \in outbox \cup scheduled
    BY Zenon DEF CreateInv, RowsInv
  <2> QED
    BY Zenon, <2>1, <2>2
<1> QED
  BY <1>1, CreationInvariant, PTL

-----------------------------------------------------------------------------
(* While nothing fails or lapses *)

(* Once something has failed or lapsed it stays so, and a failure shows. *)
LEMMA CalmBefore ==
  ASSUME CreateInv, Next, Calm'
  PROVE  Calm /\ (\A kind : ~Fault(kind)) /\ \A r \in Requests : \A kind : ~Fails(r, kind)
<1>1. faults \in Nat /\ faults' = 0 /\ ~lapsed' /\ cancelled' = {} /\ lapsed \in BOOLEAN
  BY FaultsAssumption DEF CreateInv, CreateType, FaultsTypeOK, Calm
<1>2. \A kind : ~Fault(kind)
  BY <1>1 DEF Fault
<1>3. faults' = faults /\ cancelled = {} /\ lapsed = FALSE
  <2>1. ASSUME NEW r \in Requests, Step(r) \/ Crash(r)
        PROVE  faults' = faults /\ cancelled' = cancelled /\ lapsed' = lapsed
    BY Zenon, <1>1, <1>2, <2>1 DEF Step, GetTemplate, Claim, Get, Insert, Commit, Finalize, Release, Exit, Crash,
       Works, Fails, NoFault
  <2>2. ASSUME NEW r \in Requests, NEW o, NEW k, NEW a, NEW n, Arrive(r, o, k, a, n)
        PROVE  faults' = faults /\ cancelled' = cancelled /\ lapsed' = lapsed
    BY Zenon, <1>2, <2>2 DEF Arrive, NoFault
  <2> QED
    BY Zenon, <1>1, <1>2, <2>1, <2>2 DEF Next, Expire, Cancel, BumpTemplateVersion, DeprecateTemplate, NoFault
<1> QED
  BY Zenon, <1>1, <1>2, <1>3 DEF Calm, Fails

(* A step of a request is no step of another. *)
LEMMA OneActor ==
  ASSUME CreateInv, NEW r \in Requests,
         \/ Step(r)
         \/ \E o \in Owners, k \in Headers, a \in Asks, n \in 0..MaxBatch : Arrive(r, o, k, a, n)
         \/ Crash(r)
  PROVE  Others(r) /\ pc[r] # "done"
<1>1. /\ pc \in [Requests -> Labels] /\ req \in [Requests -> Request] /\ tx \in [Requests -> SUBSET Row]
      /\ answer \in [Requests -> [status : Statuses, ids : SUBSET Nat]]
  BY DEF CreateInv, CreateType
<1>2. CASE GetTemplate(r)
  BY <1>1, <1>2 DEF Others, GetTemplate, Finish, Goto
<1>3. CASE Claim(r) \/ Get(r) \/ Finalize(r) \/ Release(r) \/ Exit(r)
  BY Zenon, <1>1, <1>3 DEF Others, Claim, Get, Finalize, Release, Exit, Finish, Goto
<1>4. CASE Insert(r)
  BY Zenon, <1>1, <1>4 DEF Others, Insert, Failed, Goto
<1>5. CASE Commit(r)
  BY Zenon, <1>1, <1>5 DEF Others, Commit, Rollback, Failed, Goto
<1>6. CASE Crash(r)
  BY <1>1, <1>6 DEF Others, Crash, Finish, Goto
<1>7. CASE \E o \in Owners, k \in Headers, a \in Asks, n \in 0..MaxBatch : Arrive(r, o, k, a, n)
  BY <1>1, <1>7 DEF Others, Arrive, Finish, Goto
<1> QED
  BY <1>2, <1>3, <1>4, <1>5, <1>6, <1>7 DEF Step

(* A step that leaves the records alone and in which nobody claims a key   *)
(* or is newly answered 201.                                                *)
LEMMA ClaimsKept ==
  ASSUME Claims, NEW r \in Requests, Others(r), slot' = slot,
         Holding(r)' => Holding(r) /\ req'[r] = req[r],
         Recorded(r)' => Recorded(r) /\ req'[r] = req[r] /\ answer'[r] = answer[r]
  PROVE  Claims'
<1>1. \A q \in Requests : /\ Holding(q)' => Holding(q) /\ req'[q] = req[q]
                          /\ Recorded(q)' => Recorded(q) /\ req'[q] = req[q] /\ answer'[q] = answer[q]
  BY Zenon DEF Others, Holding, Recorded, Keyed
<1>2. \A q \in Requests : Holding(q)' => Slot(q)'.state = "in flight"
  <2> SUFFICES ASSUME NEW q \in Requests, Holding(q)' PROVE Slot(q)'.state = "in flight"
    BY Zenon
  <2>1. Holding(q) /\ Slot(q)' = Slot(q)
    BY Zenon, <1>1 DEF Slot
  <2> QED
    BY Zenon, <2>1 DEF Claims
<1>3. \A p, q \in Requests : Holding(p)' /\ Holding(q)' /\ SameSlot(p, q)' => p = q
  <2> SUFFICES ASSUME NEW p \in Requests, NEW q \in Requests, Holding(p)', Holding(q)', SameSlot(p, q)'
               PROVE  p = q
    BY Zenon
  <2>1. Holding(p) /\ Holding(q) /\ SameSlot(p, q)
    BY Zenon, <1>1 DEF SameSlot
  <2> QED
    BY Zenon, <2>1 DEF Claims
<1>4. \A q \in Requests : Recorded(q)' =>
        Slot(q)' = [state |-> "final", hash |-> CanonicalHash(q)', ids |-> answer'[q].ids]
  BY Zenon, <1>1 DEF Claims, Slot, CanonicalHash
<1> QED
  BY Zenon, <1>2, <1>3, <1>4 DEF Claims

(* The record of a key changes: its key was free and is claimed, or the    *)
(* holder lets go of it.                                                    *)
LEMMA ClaimsMoved ==
  ASSUME Claims, NEW r \in Requests, Others(r), Keyed(r), req' = req, answer' = answer,
         req[r].owner \in Owners, req[r].key \in IdemKeys,
         slot \in [Owners \X IdemKeys -> Record],
         \A q \in Requests : Keyed(q) => req[q].owner \in Owners /\ req[q].key \in IdemKeys,
         NEW s, slot' = [slot EXCEPT ![<<req[r].owner, req[r].key>>] = s],
         \/ Slot(r).state = "free" /\ pc'[r] = "insert" /\ s.state = "in flight"
         \/ /\ Holding(r) /\ pc'[r] = "exit"
            /\ answer[r].status = "201" => s = [state |-> "final", hash |-> CanonicalHash(r), ids |-> answer[r].ids]
  PROVE  Claims'
<1>1. Slot(r)' = s
  BY Zenon DEF Slot
<1>2. \A q \in Requests : Keyed(q) /\ ~SameSlot(q, r) => Slot(q)' = Slot(q)
  BY Zenon DEF Slot, SameSlot
<1>3. \A q \in Requests : SameSlot(q, r) => Slot(q) = Slot(r)
  BY Zenon DEF Slot, SameSlot
<1>4. \A q \in Requests \ {r} : (Holding(q)' <=> Holding(q)) /\ (Recorded(q)' <=> Recorded(q))
  BY Zenon DEF Others, Holding, Recorded, Keyed
<1>5. \A q \in Requests \ {r} : SameSlot(q, r) => ~Holding(q) /\ ~Recorded(q)
  <2> SUFFICES ASSUME NEW q \in Requests \ {r}, SameSlot(q, r) PROVE ~Holding(q) /\ ~Recorded(q)
    BY Zenon
  <2>1. Slot(q) = Slot(r)
    BY Zenon, <1>3
  <2>2. Slot(r).state \in {"free", "in flight"}
    BY Zenon DEF Claims
  <2>3. ~Recorded(q)
    <3> SUFFICES ASSUME Recorded(q) PROVE FALSE
      BY Zenon
    <3> DEFINE f == [state |-> "final", hash |-> CanonicalHash(q), ids |-> answer[q].ids]
    <3>1. Slot(q) = f
      BY Zenon DEF Claims
    <3>2. f.state = "final"
      BY Zenon
    <3> HIDE DEF f
    <3> QED
      BY Zenon, <2>1, <2>2, <3>1, <3>2
  <2>4. ~Holding(q)
    BY Zenon, <2>1 DEF Claims
  <2> QED
    BY Zenon, <2>3, <2>4
<1>6. \A q \in Requests : Holding(q)' => Slot(q)'.state = "in flight"
  <2> SUFFICES ASSUME NEW q \in Requests, Holding(q)' PROVE Slot(q)'.state = "in flight"
    BY Zenon
  <2>1. CASE q = r
    BY Zenon, <1>1, <2>1 DEF Holding
  <2>2. CASE q # r
    BY Zenon, <1>2, <1>4, <1>5, <2>2 DEF Claims, Holding
  <2> QED
    BY Zenon, <2>1, <2>2
<1>7. \A p, q \in Requests : SameSlot(p, q)' <=> SameSlot(p, q)
  BY Zenon DEF SameSlot
<1>8. \A p, q \in Requests : Holding(p)' /\ Holding(q)' /\ SameSlot(p, q)' => p = q
  <2> SUFFICES ASSUME NEW p \in Requests, NEW q \in Requests, Holding(p)', Holding(q)', SameSlot(p, q), p # q
               PROVE  FALSE
    BY Zenon, <1>7
  <2>1. CASE p = r
    BY Zenon, <1>4, <1>5, <2>1 DEF SameSlot
  <2>2. CASE q = r
    BY Zenon, <1>4, <1>5, <2>2
  <2>3. CASE p # r /\ q # r
    BY Zenon, <1>4, <2>3 DEF Claims
  <2> QED
    BY Zenon, <2>1, <2>2, <2>3
<1>9. ASSUME NEW q \in Requests, Recorded(q)'
      PROVE  Slot(q)' = [state |-> "final", hash |-> CanonicalHash(q), ids |-> answer[q].ids]
  <2>1. CASE q = r
    BY Zenon, <1>1, <1>9, <2>1 DEF Recorded
  <2>2. CASE q # r
    <3>1. Recorded(q) /\ Slot(q)' = Slot(q)
      BY Zenon, <1>2, <1>4, <1>5, <1>9, <2>2 DEF Recorded
    <3> QED
      BY Zenon, <3>1 DEF Claims
  <2> QED
    BY Zenon, <2>1, <2>2
<1>10. \A q \in Requests : CanonicalHash(q)' = CanonicalHash(q)
  BY Zenon DEF CanonicalHash
<1> QED
  BY Zenon, <1>6, <1>8, <1>9, <1>10 DEF Claims

(* The steps of one request keep the claims. *)
LEMMA ClaimsStep ==
  ASSUME CreateInv, Claims, Next, Calm'
  PROVE  Claims'
<1>1. Calm /\ (\A kind : ~Fault(kind)) /\ \A r \in Requests : \A kind : ~Fails(r, kind)
  BY Zenon, CalmBefore
<1>2. /\ pc \in [Requests -> Labels] /\ slot \in [Owners \X IdemKeys -> Record]
      /\ answer \in [Requests -> [status : Statuses, ids : SUBSET Nat]]
      /\ \A q \in Requests : RequestOK(q)
      /\ \A q \in Requests : Keyed(q) => req[q].owner \in Owners /\ req[q].key \in IdemKeys
  <2>1. CreateType /\ RequestInv
    BY DEF CreateInv
  <2>2. \A q \in Requests : Keyed(q) => req[q].owner \in Owners /\ req[q].key \in IdemKeys
    BY Zenon, <2>1, RequestFacts
  <2> QED
    BY <2>1, <2>2 DEF CreateType, RequestInv
<1>3. \A st \in {"invalid", "error", "in flight", "conflict"} : Answer(st, {}).status # "201"
  <2>1. {"invalid", "error", "in flight", "conflict"} \subseteq Statuses /\ {} \in SUBSET Nat
    BY Zenon DEF Statuses
  <2> QED
    BY Zenon, <2>1, AnswerTypes
<1>4. ASSUME NEW r \in Requests, NEW o \in Owners, NEW k \in Headers, NEW a \in Asks, NEW n \in 0..MaxBatch,
             Arrive(r, o, k, a, n)
      PROVE  Claims'
  <2> DEFINE l == CASE a = "templated" -> "template"
                    [] a \notin {"templated", "batch"} /\ k # NoKey -> "claim"
                    [] OTHER -> "insert"
             q == [owner |-> o, key |-> k, ask |-> a, items |-> n, version |-> 0]
  <2>1. Others(r)
    BY <1>4, OneActor
  <2>2. /\ slot' = slot /\ answer[r] = NoAnswer /\ req' = [req EXCEPT ![r] = q]
        /\ \/ pc' = [pc EXCEPT ![r] = "done"] /\ answer' = [answer EXCEPT ![r] = Answer("invalid", {})]
           \/ pc' = [pc EXCEPT ![r] = l] /\ answer' = answer
    BY Zenon, <1>2, <1>4 DEF Arrive, Finish, Goto, RequestOK, Unspent
  <2>3. q.key = k /\ q.ask = a
    OBVIOUS
  <2>4. /\ l \in {"template", "claim", "insert"}
        /\ l = "insert" => a = "batch" \/ k = NoKey
    <3>1. CASE a = "templated"
      BY <3>1
    <3>2. CASE a \notin {"templated", "batch"} /\ k # NoKey
      BY <3>2
    <3>3. CASE a # "templated" /\ ~(a \notin {"templated", "batch"} /\ k # NoKey)
      BY Zenon, <3>3
    <3> QED
      BY <3>1, <3>2, <3>3
  <2> HIDE DEF l, q
  <2>5. req'[r] = q
    BY <2>2 DEF CreateInv, CreateType
  <2>6. Keyed(r)' => k # NoKey /\ a # "batch"
    BY <2>3, <2>5 DEF Keyed
  <2>7. ~Holding(r)'
    BY Zenon, <1>2, <2>2, <2>4, <2>6 DEF Holding
  <2>8. ~Recorded(r)'
    <3>1. NoAnswer.status # "201"
      BY AnswerTypes
    <3>2. answer'[r] = NoAnswer \/ answer'[r] = Answer("invalid", {})
      BY Zenon, <1>2, <2>2
    <3> QED
      BY Zenon, <1>3, <3>1, <3>2 DEF Recorded
  <2> QED
    BY Zenon, <2>1, <2>2, <2>7, <2>8, ClaimsKept
<1>5. ASSUME NEW r \in Requests, GetTemplate(r) PROVE Claims'
  <2>1. Others(r) /\ slot' = slot
    BY Zenon, <1>5, OneActor DEF GetTemplate, Step
  <2>2. /\ pc'[r] \in {"done", "claim", "insert"} /\ (pc'[r] = "insert" => ~Keyed(r))
        /\ answer'[r].status # "201"
    <3>1. answer[r] = NoAnswer
      BY <1>2, <1>5 DEF GetTemplate, RequestOK, Unspent
    <3>2. NoAnswer.status # "201"
      BY AnswerTypes
    <3>3. \/ pc'[r] = "done" /\ \E st \in {"invalid", "error"} : answer'[r] = Answer(st, {})
          \/ pc'[r] = (IF Keyed(r) THEN "claim" ELSE "insert") /\ answer'[r] = NoAnswer
      BY <1>2, <1>5, <3>1 DEF GetTemplate, Finish, Goto
    <3>4. answer'[r].status # "201"
      BY Zenon, <1>3, <3>2, <3>3
    <3> QED
      BY <3>3, <3>4
  <2>3. Keyed(r)' => Keyed(r)
    <3>1. req' = req \/ req' = [req EXCEPT ![r].version = version]
      BY <1>5 DEF GetTemplate
    <3>2. req'[r].key = req[r].key /\ req'[r].ask = req[r].ask
      <4>1. req \in [Requests -> Request]
        BY Zenon DEF CreateInv, CreateType
      <4> QED
        BY Zenon, <3>1, <4>1 DEF Request
    <3> QED
      BY <3>2 DEF Keyed
  <2>4. ~Holding(r)' /\ ~Recorded(r)'
    BY <2>2, <2>3 DEF Holding, Recorded
  <2> QED
    BY Zenon, <2>1, <2>4, ClaimsKept
<1>6. ASSUME NEW r \in Requests, Claim(r) PROVE Claims'
  <2> DEFINE s == [state |-> "in flight", hash |-> CanonicalHash(r)]
  <2>1. Others(r) /\ req' = req /\ answer' = answer /\ Keyed(r) /\ answer[r] = NoAnswer
    BY Zenon, <1>1, <1>2, <1>6, OneActor DEF Claim, Step, RequestOK, Unspent
  <2>2. \/ pc' = [pc EXCEPT ![r] = "get"] /\ slot' = slot
        \/ /\ Slot(r).state = "free" /\ pc' = [pc EXCEPT ![r] = "insert"]
           /\ slot' = [slot EXCEPT ![<<req[r].owner, req[r].key>>] = s]
    BY Zenon, <1>1, <1>6 DEF Claim, Goto, SetSlot
  <2>3. CASE pc' = [pc EXCEPT ![r] = "get"] /\ slot' = slot
    <3>1. ~Holding(r)' /\ ~Recorded(r)'
      BY <1>2, <2>3 DEF Holding, Recorded
    <3> QED
      BY Zenon, <2>1, <2>3, <3>1, ClaimsKept
  <2>4. CASE /\ Slot(r).state = "free" /\ pc' = [pc EXCEPT ![r] = "insert"]
             /\ slot' = [slot EXCEPT ![<<req[r].owner, req[r].key>>] = s]
    <3>1. s.state = "in flight" /\ pc'[r] = "insert"
      BY Zenon, <1>2, <2>4
    <3> HIDE DEF s
    <3> QED
      BY Zenon, <1>2, <2>1, <2>4, <3>1, ClaimsMoved
  <2> QED
    BY Zenon, <2>2, <2>3, <2>4
<1>7. ASSUME NEW r \in Requests, Get(r) PROVE Claims'
  <2>1. Others(r) /\ slot' = slot /\ pc'[r] = "done"
    BY Zenon, <1>2, <1>7, OneActor DEF Get, Step, Finish, Goto
  <2>2. answer'[r].status # "201"
    <3>1. Keyed(r) /\ answer'[r] = Decided(r, Slot(r))
      BY Zenon, <1>1, <1>2, <1>7 DEF Get, RequestOK, Finish
    <3>2. \/ \E st \in {"in flight", "conflict"} : Decided(r, Slot(r)) = Answer(st, {})
          \/ Decided(r, Slot(r)) = Answer("replayed", Slot(r).ids)
      BY Zenon DEF Decided
    <3>3. Answer("replayed", Slot(r).ids).status = "replayed"
      BY Zenon DEF Answer
    <3> QED
      BY Zenon, <1>3, <3>1, <3>2, <3>3
  <2> QED
    BY Zenon, <2>1, <2>2, ClaimsKept DEF Holding, Recorded
<1>8. ASSUME NEW r \in Requests, Insert(r) \/ Commit(r) PROVE Claims'
  <2>1. Others(r) /\ slot' = slot /\ req' = req
    BY Zenon, <1>8, OneActor DEF Insert, Commit, Step
  <2>2. pc[r] \in {"insert", "commit"} /\ pc'[r] \in {"commit", "release", "finalize", "exit"}
        /\ (pc'[r] = "exit" => ~Keyed(r))
    BY Zenon, <1>2, <1>8 DEF Insert, Commit, Failed, Goto
  <2> QED
    BY <2>1, <2>2, ClaimsKept DEF Holding, Recorded, Keyed
<1>9. ASSUME NEW r \in Requests, Finalize(r) PROVE Claims'
  <2> DEFINE s == [state |-> "final", hash |-> CanonicalHash(r), ids |-> answer[r].ids]
  <2>1. Others(r) /\ req' = req /\ answer' = answer /\ Holding(r) /\ Keyed(r) /\ pc'[r] = "exit"
    BY Zenon, <1>2, <1>9, OneActor DEF Finalize, Step, RequestOK, Holding, Goto
  <2>2. slot' = [slot EXCEPT ![<<req[r].owner, req[r].key>>] = s]
    BY Zenon, <1>1, <1>9 DEF Finalize, SetSlot
  <2>3. answer[r].status = "201" => s = [state |-> "final", hash |-> CanonicalHash(r), ids |-> answer[r].ids]
    BY Zenon
  <2> HIDE DEF s
  <2> QED
    BY Zenon, <1>2, <2>1, <2>2, <2>3, ClaimsMoved
<1>10. ASSUME NEW r \in Requests, Release(r) PROVE Claims'
  <2>1. /\ Others(r) /\ req' = req /\ answer' = answer /\ Holding(r) /\ Keyed(r) /\ pc'[r] = "exit"
        /\ answer[r].status # "201"
    BY Zenon, <1>2, <1>10, OneActor DEF Release, Step, RequestOK, Holding, Goto
  <2>2. slot' = [slot EXCEPT ![<<req[r].owner, req[r].key>>] = Free]
    BY Zenon, <1>1, <1>10 DEF Release, SetSlot
  <2> QED
    BY Zenon, <1>2, <2>1, <2>2, ClaimsMoved
<1>11. ASSUME NEW r \in Requests, Exit(r) PROVE Claims'
  <2>1. Others(r) /\ req' = req /\ answer' = answer /\ pc[r] = "exit" /\ pc'[r] = "done"
    BY Zenon, <1>2, <1>11, OneActor DEF Exit, Step, Goto
  <2>2. slot' = slot
    BY <1>1, <1>11 DEF Exit, Calm
  <2> QED
    BY <2>1, <2>2, ClaimsKept DEF Holding, Recorded, Keyed
<1>12. ASSUME \/ \E o \in Owners, k \in IdemKeys : Expire(o, k)
              \/ \E r \in Requests : Cancel(r) \/ Crash(r)
       PROVE  FALSE
  BY Zenon, <1>1, <1>12 DEF Expire, Cancel, Crash, Calm
<1>13. ASSUME BumpTemplateVersion \/ DeprecateTemplate PROVE Claims'
  <2>1. UNCHANGED <<slot, pc, req, answer>>
    BY Zenon, <1>13 DEF BumpTemplateVersion, DeprecateTemplate
  <2>2. \A q \in Requests : /\ Holding(q)' <=> Holding(q)
                            /\ Recorded(q)' <=> Recorded(q)
                            /\ Slot(q)' = Slot(q) /\ CanonicalHash(q)' = CanonicalHash(q)
    BY <2>1 DEF Holding, Recorded, Keyed, Slot, CanonicalHash
  <2>3. \A p, q \in Requests : SameSlot(p, q)' <=> SameSlot(p, q)
    BY ZenonT(30), <2>1 DEF SameSlot
  <2> QED
    BY Zenon, <2>1, <2>2, <2>3 DEF Claims
<1> QED
  BY Zenon, <1>4, <1>5, <1>6, <1>7, <1>8, <1>9, <1>10, <1>11, <1>12, <1>13 DEF Next, Step

(* What the record of an earlier request tells a later one like it. *)
LEMMA RetryFinds ==
  ASSUME CreateInv, Claims, NEW q \in Requests, NEW r \in Requests, pc[q] = "done", answer[q].status = "201",
         Same(q, r), Keyed(r)
  PROVE  /\ Slot(r).state = "final" /\ Slot(r).hash = CanonicalHash(q) /\ Slot(r).ids = answer[q].ids
         /\ req[r].ask = "templated" => MayRender(req[r].owner)
         /\ req[r].ask = "later" => SchedulerEnabled
         /\ pc[r] = "get" /\ Unchanged(r) => CanonicalHash(r) = CanonicalHash(q)
<1> DEFINE f == [state |-> "final", hash |-> CanonicalHash(q), ids |-> answer[q].ids]
<1>1. Keyed(q) /\ Recorded(q) /\ Slot(q) = Slot(r)
  BY Zenon DEF Same, Keyed, Recorded, Slot
<1>2. Slot(r) = f
  BY Zenon, <1>1 DEF Claims
<1>3. f.state = "final" /\ f.hash = CanonicalHash(q) /\ f.ids = answer[q].ids
  BY Zenon
<1> HIDE DEF f
<1>4. Admitted(q) /\ RequestOK(q) /\ RequestOK(r)
  BY DEF Admitted, Succeeded, CreateInv, RequestInv
<1>5. (req[r].ask = "templated" => MayRender(req[r].owner)) /\ (req[r].ask = "later" => SchedulerEnabled)
  BY Zenon, <1>4 DEF RequestOK, Same
<1>6. ASSUME pc[r] = "get", Unchanged(r) PROVE CanonicalHash(r) = CanonicalHash(q)
  <2>1. req[q].version \in Nat /\ req[r].version \in Nat /\ req[q].ask = req[r].ask
    BY Zenon, RequestFacts DEF CreateInv, Same
  <2>2. Admitted(r)
    BY Zenon, <1>6 DEF Admitted
  <2>3. CASE req[r].ask = "templated"
    <3>1. version = 1
      BY <1>6, <2>3 DEF Unchanged
    <3>2. /\ req[q].version <= version /\ req[r].version <= version
          /\ req[q].version >= 1 /\ req[r].version >= 1
      BY Zenon, <1>4, <2>1, <2>2, <2>3 DEF RequestOK
    <3>3. req[q].version = req[r].version
      BY <2>1, <3>1, <3>2
    <3> QED
      BY Zenon, <2>1, <3>3 DEF CanonicalHash
  <2>4. CASE req[r].ask # "templated"
    BY Zenon, <1>4, <2>1, <2>4 DEF RequestOK, CanonicalHash
  <2> QED
    BY <2>3, <2>4
<1> QED
  BY <1>2, <1>3, <1>5, <1>6

(* A template that is unchanged was so before. *)
LEMMA UnchangedBefore ==
  ASSUME CreateInv, Next, NEW r \in Requests, Unchanged(r)', req'[r].ask = req[r].ask
  PROVE  Unchanged(r)
<1>1. \/ UNCHANGED <<version, deprecated>>
      \/ version' = version + 1 /\ UNCHANGED deprecated
      \/ deprecated' = TRUE
  <2>1. ASSUME NEW p \in Requests, Step(p) PROVE UNCHANGED <<version, deprecated>>
    BY Zenon, <2>1 DEF Step, GetTemplate, Claim, Get, Insert, Commit, Finalize, Release, Exit, dbVars
  <2>2. ASSUME NEW p \in Requests, Cancel(p) \/ Crash(p) PROVE UNCHANGED <<version, deprecated>>
    BY Zenon, <2>2 DEF Cancel, Crash, dbVars
  <2>3. ASSUME \E p \in Requests, o \in Owners, k \in Headers, a \in Asks, n \in 0..MaxBatch : Arrive(p, o, k, a, n)
        PROVE  UNCHANGED <<version, deprecated>>
    BY ZenonT(30), <2>3 DEF Arrive, dbVars
  <2>4. ASSUME \E o \in Owners, k \in IdemKeys : Expire(o, k) PROVE UNCHANGED <<version, deprecated>>
    BY Zenon, <2>4 DEF Expire, dbVars
  <2> QED
    BY <2>1, <2>2, <2>3, <2>4 DEF Next, BumpTemplateVersion, DeprecateTemplate
<1>2. version \in Nat /\ version >= 1
  <2>1. version \in 1..MaxVersion
    BY Zenon DEF CreateInv, CreateType
  <2> QED
    BY Zenon, <2>1, Natural
<1>3. version' = version + 1 => version' # 1
  BY <1>2
<1> QED
  BY Zenon, <1>1, <1>3 DEF Unchanged

(* A retry takes its steps. *)
LEMMA RetriesOwn ==
  ASSUME CreateInv, Claims, Next, Calm', NEW r \in Requests, NEW q \in Requests, q # r,
         Step(r), pc[q] = "done", answer[q].status = "201", Retries(q, r)
  PROVE  Retries(q, r)'
<1> SUFFICES ASSUME Unchanged(r)', Same(q, r)', Keyed(r)'
             PROVE  \/ pc'[r] \in {"claim", "get"}
                    \/ pc'[r] = "done" /\ answer'[r] = Answer("replayed", answer'[q].ids)
  BY Zenon DEF Retries
<1>1. Others(r)
  BY Zenon, OneActor
<1>2. req'[r].owner = req[r].owner /\ req'[r].key = req[r].key /\ req'[r].ask = req[r].ask /\ req'[r].items = req[r].items
  <2>1. req' = req \/ req' = [req EXCEPT ![r].version = version]
    BY Zenon DEF Step, GetTemplate, Claim, Get, Insert, Commit, Finalize, Release, Exit
  <2> QED
    BY <2>1 DEF CreateInv, CreateType, Request
<1>3. Same(q, r) /\ Keyed(r) /\ Unchanged(r)
  BY Zenon, <1>1, <1>2, UnchangedBefore DEF Same, Keyed, Others
<1>4. pc[r] \in {"template", "claim", "get"} \/ pc[r] = "done"
  BY Zenon, <1>3 DEF Retries
<1>5. pc[r] # "done" /\ pc \in [Requests -> Labels] /\ answer'[q] = answer[q]
      /\ answer \in [Requests -> [status : Statuses, ids : SUBSET Nat]]
  BY Zenon, <1>1, OneActor DEF CreateInv, CreateType, Others
<1>6. \A kind : ~Fails(r, kind)
  BY Zenon, CalmBefore
<1>7. /\ Slot(r).state = "final" /\ Slot(r).hash = CanonicalHash(q) /\ Slot(r).ids = answer[q].ids
      /\ req[r].ask = "templated" => MayRender(req[r].owner)
      /\ pc[r] = "get" => CanonicalHash(r) = CanonicalHash(q)
  BY Zenon, <1>3, RetryFinds
<1>8. CASE pc[r] = "template"
  <2>1. req[r].ask = "templated"
    BY Zenon, <1>8 DEF CreateInv, RequestInv, RequestOK
  <2>2. MayRender(req[r].owner) /\ ~deprecated
    BY Zenon, <1>3, <1>7, <2>1 DEF Unchanged
  <2>3. GetTemplate(r)
    BY Zenon, <1>8 DEF Step, Claim, Get, Insert, Commit, Finalize, Release, Exit
  <2> QED
    BY <1>3, <1>5, <1>6, <2>2, <2>3 DEF GetTemplate, Goto
<1>9. CASE pc[r] = "claim"
  <2>1. Claim(r)
    BY Zenon, <1>9 DEF Step, GetTemplate, Get, Insert, Commit, Finalize, Release, Exit
  <2> QED
    BY Zenon, <1>5, <1>6, <1>7, <2>1 DEF Claim, Goto
<1>10. CASE pc[r] = "get"
  <2>1. Get(r)
    BY <1>10 DEF Step, GetTemplate, Claim, Insert, Commit, Finalize, Release, Exit
  <2>2. Decided(r, Slot(r)) = Answer("replayed", answer[q].ids)
    BY Zenon, <1>7, <1>10 DEF Decided
  <2> QED
    BY Zenon, <1>5, <1>6, <2>1, <2>2 DEF Get, Finish, Goto
<1> QED
  BY Zenon, <1>4, <1>5, <1>8, <1>9, <1>10

(* A retry arrives. *)
LEMMA RetriesArrive ==
  ASSUME CreateInv, NEW r \in Requests, NEW o \in Owners, NEW k \in Headers, NEW a \in Asks,
         NEW n \in 0..MaxBatch, Arrive(r, o, k, a, n),
         NEW q \in Requests, pc[q] = "done", answer[q].status = "201"
  PROVE  Retries(q, r)'
<1> DEFINE l == CASE a = "templated" -> "template"
                  [] a \notin {"templated", "batch"} /\ k # NoKey -> "claim"
                  [] OTHER -> "insert"
           d == [owner |-> o, key |-> k, ask |-> a, items |-> n, version |-> 0]
<1>1. Others(r) /\ q # r /\ pc \in [Requests -> Labels] /\ req \in [Requests -> Request]
  BY Zenon, OneActor DEF Arrive, CreateInv, CreateType
<1>2. d.ask = a /\ d.key = k
  BY Zenon
<1>3. /\ n = 1 \/ a = "batch"
      /\ req'[r] = d
      /\ pc' = [pc EXCEPT ![r] = l] \/ n = 0 \/ (a = "later" /\ ~SchedulerEnabled)
  BY <1>1 DEF Arrive, Finish, Goto
<1> SUFFICES ASSUME Same(q, r)', Keyed(r)'
             PROVE  pc'[r] \in {"template", "claim"}
  BY Zenon DEF Retries
<1>4. a # "batch" /\ k # NoKey
  BY <1>2, <1>3 DEF Keyed
<1>5. req[q].ask = a
  BY <1>1, <1>2, <1>3 DEF Same, Others
<1>6. a = "later" => SchedulerEnabled
  BY Zenon, <1>5 DEF CreateInv, RequestInv, RequestOK, Admitted, Succeeded
<1>7. l \in {"template", "claim"}
  <2>1. CASE a = "templated"
    BY <2>1
  <2>2. CASE a # "templated"
    BY <1>4, <2>2
  <2> QED
    BY <2>1, <2>2
<1>8. n # 0
  BY <1>3, <1>4
<1> HIDE DEF l
<1> QED
  BY Zenon, <1>1, <1>3, <1>4, <1>6, <1>7, <1>8

LEMMA RetryStep ==
  ASSUME CreateInv, ClaimInv, RetryInv, Next
  PROVE  RetryInv'
<1> SUFFICES ASSUME NEW r \in Requests, NEW q \in before'[r]
             PROVE  /\ pc'[r] # "idle" /\ pc'[q] = "done" /\ answer'[q].status = "201"
                    /\ Calm' => Retries(q, r)'
  BY Zenon DEF RetryInv
<1>1. /\ before \in [Requests -> SUBSET Requests] /\ pc \in [Requests -> Labels]
      /\ answer \in [Requests -> [status : Statuses, ids : SUBSET Nat]]
  BY Zenon DEF CreateInv, CreateType
<1>2. ASSUME NEW o \in Owners, NEW k \in Headers, NEW a \in Asks, NEW n \in 0..MaxBatch, Arrive(r, o, k, a, n)
      PROVE  /\ pc'[r] # "idle" /\ pc'[q] = "done" /\ answer'[q].status = "201"
             /\ Retries(q, r)'
  <2>1. /\ q \in Requests /\ pc[q] = "done" /\ answer[q].status = "201" /\ pc[r] = "idle"
    BY <1>1, <1>2 DEF Arrive
  <2>2. Others(r) /\ q # r
    BY Zenon, <1>2, <2>1, OneActor
  <2>3. pc'[r] # "idle"
    BY Zenon, <1>1, <1>2 DEF Arrive, Finish, Goto
  <2> QED
    BY Zenon, <1>2, <2>1, <2>2, <2>3, RetriesArrive DEF Others
<1>3. ASSUME q \in before[r] PROVE q \in Requests /\ pc[q] = "done" /\ answer[q].status = "201" /\ pc[r] # "idle"
                                   /\ (Calm => Retries(q, r) /\ Claims)
  BY <1>1, <1>3 DEF RetryInv, ClaimInv
<1>4. ASSUME Step(r) \/ Crash(r)
      PROVE  /\ pc'[r] # "idle" /\ pc'[q] = "done" /\ answer'[q].status = "201"
             /\ Calm' => Retries(q, r)'
  <2>1. Others(r) /\ pc[r] # "done"
    BY Zenon, <1>4, OneActor
  <2>2. before' = before
    BY Zenon, <1>4 DEF Step, Crash, GetTemplate, Claim, Get, Insert, Commit, Finalize, Release, Exit
  <2>3. q # r /\ q \in before[r]
    BY <1>3, <2>1, <2>2
  <2>4. pc'[r] # "idle"
    BY Zenon, <1>1, <1>4 DEF Step, Crash, GetTemplate, Claim, Get, Insert, Commit, Finalize, Release, Exit, Failed, Finish, Goto
  <2>5. Calm' => Retries(q, r)'
    <3>1. Calm' => Calm /\ Step(r)
      BY Zenon, <1>4, CalmBefore DEF Crash
    <3> QED
      BY <1>3, <2>3, <3>1, RetriesOwn
  <2> QED
    BY Zenon, <1>3, <2>1, <2>3, <2>4, <2>5 DEF Others
<1>5. ASSUME before'[r] = before[r], UNCHANGED <<pc[r], answer[r], req[r]>>,
             \A p \in Requests : pc[p] = "done" => UNCHANGED <<pc[p], answer[p], req[p]>>
      PROVE  /\ pc'[r] # "idle" /\ pc'[q] = "done" /\ answer'[q].status = "201"
             /\ Calm' => Retries(q, r)'
  <2>1. q \in before[r] /\ UNCHANGED <<pc[q], answer[q], req[q]>>
    BY Zenon, <1>3, <1>5
  <2>2. Calm' => Calm
    BY Zenon, CalmBefore
  <2>3. Unchanged(r)' => Unchanged(r)
    BY Zenon, <1>5, UnchangedBefore
  <2>4. (Same(q, r)' <=> Same(q, r)) /\ (Keyed(r)' <=> Keyed(r))
    BY <1>5, <2>1 DEF Same, Keyed
  <2> QED
    BY Zenon, <1>3, <1>5, <2>1, <2>2, <2>3, <2>4 DEF Retries
<1>6. ASSUME NEW p \in Requests, p # r,
             \/ Step(p)
             \/ \E o \in Owners, k \in Headers, a \in Asks, n \in 0..MaxBatch : Arrive(p, o, k, a, n)
             \/ Crash(p)
      PROVE  /\ pc'[r] # "idle" /\ pc'[q] = "done" /\ answer'[q].status = "201"
             /\ Calm' => Retries(q, r)'
  <2>1. Others(p) /\ pc[p] # "done"
    BY Zenon, <1>6, OneActor
  <2>2. before'[r] = before[r]
    BY Zenon, <1>1, <1>6 DEF Step, Crash, GetTemplate, Claim, Get, Insert, Commit, Finalize, Release, Exit, Arrive
  <2> QED
    BY Zenon, <1>5, <1>6, <2>1, <2>2 DEF Others
<1>7. ASSUME \/ \E o \in Owners, k \in IdemKeys : Expire(o, k)
             \/ \E p \in Requests : Cancel(p)
             \/ BumpTemplateVersion
             \/ DeprecateTemplate
      PROVE  /\ pc'[r] # "idle" /\ pc'[q] = "done" /\ answer'[q].status = "201"
             /\ Calm' => Retries(q, r)'
  <2>1. UNCHANGED <<before, pc, answer, req>>
    BY Zenon, <1>7 DEF Expire, Cancel, BumpTemplateVersion, DeprecateTemplate
  <2> QED
    BY Zenon, <1>5, <2>1
<1> QED
  BY Zenon, <1>2, <1>4, <1>6, <1>7 DEF Next

(* Without failures, lapses and template changes a retry of a create that  *)
(* was answered 201 is answered with the same notification.                *)
THEOREM RetriesAreReplayed == Spec => []RetryReplays
<1> DEFINE I == CreateInv /\ ClaimInv /\ RetryInv
<1>1. Init => I
  <2> SUFFICES ASSUME Init PROVE I
    BY Zenon
  <2>1. Claims
    BY Zenon DEF Init, Claims, Holding, Recorded
  <2>2. RetryInv
    BY DEF Init, RetryInv
  <2> QED
    BY <2>1, <2>2, CreateInit DEF ClaimInv
<1>2. I /\ [Next]_vars => I'
  <2> SUFFICES ASSUME I, [Next]_vars PROVE ClaimInv' /\ RetryInv'
    BY CreateStep
  <2>1. CASE Next
    <3>1. ClaimInv'
      BY <2>1, CalmBefore, ClaimsStep DEF ClaimInv
    <3> QED
      BY <2>1, <3>1, RetryStep
  <2>2. CASE UNCHANGED vars
    <3>1. UNCHANGED <<slot, pc, req, answer, before, version, deprecated>> /\ (Calm' <=> Calm)
      BY Zenon, <2>2 DEF vars, dbVars, Calm
    <3>2. \A q \in Requests : /\ Holding(q)' <=> Holding(q)
                              /\ Recorded(q)' <=> Recorded(q)
                              /\ Slot(q)' = Slot(q) /\ CanonicalHash(q)' = CanonicalHash(q)
      BY <3>1 DEF Holding, Recorded, Keyed, Slot, CanonicalHash
    <3>3. \A p, q \in Requests : SameSlot(p, q)' <=> SameSlot(p, q)
      BY <3>1 DEF SameSlot
    <3>4. ClaimInv'
      BY Zenon, <3>1, <3>2, <3>3 DEF ClaimInv, Claims
    <3>5. \A p, q : Retries(p, q)' <=> Retries(p, q)
      <4>1. \A p, q : (Unchanged(q)' <=> Unchanged(q)) /\ (Same(p, q)' <=> Same(p, q)) /\ (Keyed(q)' <=> Keyed(q))
        BY Zenon, <3>1 DEF Unchanged, Same, Keyed
      <4> QED
        BY Zenon, <3>1, <4>1 DEF Retries
    <3> QED
      BY Zenon, <3>1, <3>4, <3>5 DEF RetryInv
  <2> QED
    BY <2>1, <2>2
<1>3. I => RetryReplays
  BY DEF RetryInv, RetryReplays, Retries, Calm, Unchanged
<1> QED
  BY <1>1, <1>2, <1>3, PTL DEF Spec

-----------------------------------------------------------------------------
(* Claims and their holders *)

(* A holder of the claim that will let go of it: it is on its way to        *)
(* Finalize or Release, or to the deferred one of a client that has gone.   *)
Holder(p, o, k) ==
  /\ Keyed(p) /\ req[p].owner = o /\ req[p].key = k
  /\ \/ pc[p] \in {"insert", "commit", "finalize", "release"}
     \/ pc[p] = "exit" /\ p \in cancelled

HolderInv ==
  faults = 0 =>
    \A o \in Owners, k \in IdemKeys :
      slot[<<o, k>>].state = "in flight" => \E p \in Requests : Holder(p, o, k)

LEMMA NoFaultYet ==
  ASSUME CreateInv, Next, faults' = 0
  PROVE  faults = 0 /\ \A kind : ~Fault(kind)
<1>1. faults \in Nat
  BY FaultsAssumption DEF CreateInv, CreateType, FaultsTypeOK
<1>2. \A kind : ~Fault(kind)
  BY <1>1 DEF Fault
<1>3. faults' = faults
  <2>1. ASSUME NEW r \in Requests, Step(r) \/ Crash(r) PROVE faults' = faults
    BY Zenon, <1>2, <2>1 DEF Step, GetTemplate, Claim, Get, Insert, Commit, Finalize, Release, Exit, Crash,
       Works, Fails, NoFault
  <2> QED
    BY Zenon, <2>1 DEF Next, Arrive, Expire, Cancel, BumpTemplateVersion, DeprecateTemplate, NoFault
<1> QED
  BY <1>2, <1>3

(* Without a fault a call fails only for a client that has gone away. *)
LEMMA FailsForGone ==
  ASSUME \A kind : ~Fault(kind), NEW r, NEW kind, Fails(r, kind)
  PROVE  r \in cancelled
BY Zenon DEF Fails

(* Whoever holds a claim goes on, or lets go of it. *)
LEMMA HolderMoves ==
  ASSUME CreateInv, NEW p \in Requests, Step(p), \A kind : ~Fault(kind),
         NEW o \in Owners, NEW k \in IdemKeys, Holder(p, o, k)
  PROVE  Holder(p, o, k)' \/ slot'[<<o, k>>].state # "in flight"
<1>1. /\ pc \in [Requests -> Labels] /\ slot \in [Owners \X IdemKeys -> Record]
      /\ Keyed(p) /\ req[p].owner = o /\ req[p].key = k /\ <<o, k>> \in Owners \X IdemKeys
  BY Zenon DEF CreateInv, CreateType, Holder
<1>2. ASSUME req' = req, cancelled' = cancelled,
             pc'[p] \in {"commit", "finalize", "release"} \/ (pc'[p] = "exit" /\ p \in cancelled)
      PROVE  Holder(p, o, k)'
  BY Zenon, <1>1, <1>2 DEF Holder, Keyed
<1>3. ASSUME SetSlot(p, Free) PROVE slot'[<<o, k>>].state # "in flight"
  <2>1. slot'[<<o, k>>] = Free /\ "free" # "in flight"
    BY Zenon, <1>1, <1>3 DEF SetSlot
  <2> QED
    BY Zenon, <2>1, RecordTypes
<1>4. CASE Insert(p)
  <2>1. req' = req /\ cancelled' = cancelled /\ pc'[p] \in {"commit", "release"}
    BY Zenon, <1>1, <1>4 DEF Insert, Failed, Goto
  <2> QED
    BY Zenon, <1>2, <2>1
<1>5. CASE Commit(p)
  <2>1. req' = req /\ cancelled' = cancelled /\ pc'[p] \in {"finalize", "release"}
    BY Zenon, <1>1, <1>5 DEF Commit, Failed, Goto
  <2> QED
    BY Zenon, <1>2, <2>1
<1>6. CASE Finalize(p)
  <2> DEFINE f == [state |-> "final", hash |-> CanonicalHash(p), ids |-> answer[p].ids]
  <2>1. req' = req /\ cancelled' = cancelled /\ pc'[p] = "exit"
    BY Zenon, <1>1, <1>6 DEF Finalize, Goto
  <2>2. f.state = "final" /\ "final" # "in flight"
    BY Zenon
  <2> HIDE DEF f
  <2>3. p \in cancelled \/ SetSlot(p, f)
    BY Zenon, <1>6, FailsForGone DEF Finalize, f
  <2>4. SetSlot(p, f) => slot'[<<o, k>>] = f
    BY Zenon, <1>1 DEF SetSlot
  <2> QED
    BY Zenon, <1>2, <2>1, <2>2, <2>3, <2>4
<1>7. CASE Release(p)
  <2>1. req' = req /\ cancelled' = cancelled /\ pc'[p] = "exit"
    BY Zenon, <1>1, <1>7 DEF Release, Goto
  <2>2. p \in cancelled \/ SetSlot(p, Free)
    BY Zenon, <1>7, FailsForGone DEF Release
  <2> QED
    BY Zenon, <1>2, <1>3, <2>1, <2>2
<1>8. CASE Exit(p)
  <2>1. p \in cancelled
    BY <1>8 DEF Exit, Holder
  <2> QED
    BY Zenon, <1>1, <1>3, <1>8, <2>1 DEF Exit
<1>9. CASE GetTemplate(p) \/ Claim(p) \/ Get(p)
  BY <1>9 DEF GetTemplate, Claim, Get, Holder
<1> QED
  BY Zenon, <1>4, <1>5, <1>6, <1>7, <1>8, <1>9 DEF Step

LEMMA HolderStays ==
  ASSUME CreateInv, Next, faults' = 0, NEW p \in Requests, NEW o \in Owners, NEW k \in IdemKeys,
         Holder(p, o, k), slot'[<<o, k>>].state = "in flight"
  PROVE  Holder(p, o, k)'
<1>1. \A kind : ~Fault(kind)
  BY Zenon, NoFaultYet
<1>2. ASSUME pc'[p] = pc[p], req'[p] = req[p], cancelled \subseteq cancelled'
      PROVE  Holder(p, o, k)'
  BY Zenon, <1>2 DEF Holder, Keyed
<1>3. ASSUME NEW r \in Requests,
             \/ Step(r)
             \/ \E b \in Owners, h \in Headers, a \in Asks, n \in 0..MaxBatch : Arrive(r, b, h, a, n)
      PROVE  Holder(p, o, k)'
  <2>1. cancelled' = cancelled
    BY Zenon, <1>3 DEF Step, Arrive, GetTemplate, Claim, Get, Insert, Commit, Finalize, Release, Exit
  <2>2. CASE r # p
    BY Zenon, <1>2, <1>3, <2>1, <2>2, OneActor DEF Others
  <2>3. CASE r = p /\ Step(p)
    BY Zenon, <1>1, <2>3, HolderMoves
  <2>4. CASE r = p /\ ~Step(p)
    BY <1>3, <2>4 DEF Arrive, Holder
  <2> QED
    BY Zenon, <2>2, <2>3, <2>4
<1>4. ASSUME \/ \E r \in Requests : Cancel(r)
             \/ \E b \in Owners, h \in IdemKeys : Expire(b, h)
             \/ BumpTemplateVersion \/ DeprecateTemplate
      PROVE  Holder(p, o, k)'
  <2>1. pc' = pc /\ req' = req /\ cancelled \subseteq cancelled'
    BY Zenon, <1>4 DEF Cancel, Expire, BumpTemplateVersion, DeprecateTemplate
  <2> QED
    BY Zenon, <1>2, <2>1
<1>5. ASSUME NEW r \in Requests, Crash(r) PROVE FALSE
  BY Zenon, <1>1, <1>5 DEF Crash
<1> QED
  BY Zenon, <1>3, <1>4, <1>5 DEF Next

(* A claim is new only for the request that makes it. *)
LEMMA ClaimIsMade ==
  ASSUME CreateInv, Next, faults' = 0, NEW o \in Owners, NEW k \in IdemKeys,
         slot[<<o, k>>].state # "in flight", slot'[<<o, k>>].state = "in flight"
  PROVE  \E p \in Requests : Holder(p, o, k)'
<1>1. \A kind : ~Fault(kind)
  BY Zenon, NoFaultYet
<1>2. /\ pc \in [Requests -> Labels] /\ slot \in [Owners \X IdemKeys -> Record]
      /\ <<o, k>> \in Owners \X IdemKeys /\ slot'[<<o, k>>] # slot[<<o, k>>]
  BY Zenon DEF CreateInv, CreateType
<1>3. \A s, j : slot' = [slot EXCEPT ![j] = s] => j = <<o, k>> /\ s.state = "in flight"
  <2> SUFFICES ASSUME NEW s, NEW j, slot' = [slot EXCEPT ![j] = s]
               PROVE  j = <<o, k>> /\ s.state = "in flight"
    BY Zenon
  <2>1. j # <<o, k>> => slot'[<<o, k>>] = slot[<<o, k>>]
    BY Zenon, <1>2
  <2>2. j = <<o, k>> => slot'[<<o, k>>] = s
    BY Zenon, <1>2
  <2> QED
    BY Zenon, <1>2, <2>1, <2>2
<1>4. \A j : slot' # [slot EXCEPT ![j] = Free]
  <2>1. "free" # "in flight"
    OBVIOUS
  <2> QED
    BY Zenon, <1>3, <2>1, RecordTypes
<1>5. ASSUME NEW p \in Requests, Step(p) PROVE \E q \in Requests : Holder(q, o, k)'
  <2>1. ~(GetTemplate(p) \/ Get(p) \/ Insert(p) \/ Commit(p))
    BY Zenon, <1>2 DEF GetTemplate, Get, Insert, Commit
  <2>2. ~(Release(p) \/ Exit(p))
    BY Zenon, <1>2, <1>4 DEF Release, Exit, SetSlot
  <2>3. ~Finalize(p)
    <3> DEFINE f == [state |-> "final", hash |-> CanonicalHash(p), ids |-> answer[p].ids]
    <3>1. f.state = "final" /\ "final" # "in flight"
      BY Zenon
    <3> HIDE DEF f
    <3>2. Finalize(p) => SetSlot(p, f) \/ slot' = slot
      BY Zenon DEF Finalize, f
    <3> QED
      BY Zenon, <1>2, <1>3, <3>1, <3>2 DEF SetSlot
  <2>4. Claim(p)
    BY Zenon, <1>5, <2>1, <2>2, <2>3 DEF Step
  <2>5. /\ pc[p] = "claim" /\ req' = req /\ pc' = [pc EXCEPT ![p] = "insert"]
        /\ \E s : slot' = [slot EXCEPT ![<<req[p].owner, req[p].key>>] = s]
    BY Zenon, <1>2, <2>4 DEF Claim, SetSlot, Goto, Finish
  <2>6. <<req[p].owner, req[p].key>> = <<o, k>> /\ Keyed(p) /\ pc'[p] = "insert"
    BY Zenon, <1>2, <1>3, <2>5 DEF CreateInv, RequestInv, RequestOK
  <2>7. req[p].owner = o /\ req[p].key = k
    BY <2>6
  <2> QED
    BY Zenon, <2>5, <2>6, <2>7 DEF Holder, Keyed
<1>6. ~(\E b \in Owners, h \in IdemKeys : Expire(b, h))
  BY Zenon, <1>4 DEF Expire
<1> QED
  BY Zenon, <1>1, <1>2, <1>5, <1>6 DEF Next, Arrive, Cancel, Crash, BumpTemplateVersion, DeprecateTemplate

(* No claim outlives its request while calls work and processes live       *)
(* (Creation's ClaimHasHolder), whatever expires in between and whichever  *)
(* clients go away: one that is over by Finalize's or Release's failure    *)
(* for a client that has gone is deleted by the deferred function.         *)
THEOREM ClaimsAreReleased == Spec => []ClaimHasHolder
<1>1. Init => HolderInv
  BY Zenon, RecordTypes DEF Init, HolderInv
<1>2. CreateInv /\ HolderInv /\ [Next]_vars => HolderInv'
  <2> SUFFICES ASSUME CreateInv, HolderInv, [Next]_vars PROVE HolderInv'
    BY Zenon
  <2>1. CASE UNCHANGED vars
    <3>1. slot' = slot /\ pc' = pc /\ req' = req /\ cancelled' = cancelled /\ faults' = faults
      BY Zenon, <2>1 DEF vars
    <3>2. \A p, o, k : Holder(p, o, k)' <=> Holder(p, o, k)
      BY Zenon, <3>1 DEF Holder, Keyed
    <3> QED
      BY Zenon, <3>1, <3>2 DEF HolderInv
  <2>2. CASE Next
    <3> SUFFICES ASSUME faults' = 0, NEW o \in Owners, NEW k \in IdemKeys, slot'[<<o, k>>].state = "in flight"
                 PROVE  \E p \in Requests : Holder(p, o, k)'
      BY Zenon DEF HolderInv
    <3>1. CASE slot[<<o, k>>].state = "in flight"
      <4>1. PICK p \in Requests : Holder(p, o, k)
        BY Zenon, <2>2, <3>1, NoFaultYet DEF HolderInv
      <4> QED
        BY Zenon, <2>2, <4>1, HolderStays
    <3>2. CASE slot[<<o, k>>].state # "in flight"
      BY Zenon, <2>2, <3>2, ClaimIsMade
    <3> QED
      BY Zenon, <3>1, <3>2
  <2> QED
    BY Zenon, <2>1, <2>2
<1>3. HolderInv => ClaimHasHolder
  <2>1. \A p, o, k : Holder(p, o, k) => HoldsClaim(p) /\ req[p].owner = o /\ req[p].key = k
    BY DEF Holder, HoldsClaim
  <2> QED
    BY Zenon, <2>1 DEF HolderInv, ClaimHasHolder
<1> QED
  BY <1>1, <1>2, <1>3, CreationInvariant, PTL DEF Spec

-----------------------------------------------------------------------------
(* Listing: walks *)

(* The number of elements, as Creation and Listing count them. *)
Size(S) == Cardinality(S)

Newer(S, w) == {v \in S : Older(w, v)}

(* Rows that ORDER BY created_at DESC, id DESC puts in one order. *)
Ordered(S) ==
  /\ \A w \in S : w.ts \in Nat /\ w.id \in Nat
  /\ \A v, w \in S : v.id = w.id => v = w

(* What a page of rows of S is: the newest there are, all of them when the  *)
(* query's one row more than the limit is missing.                          *)
PageOK(S, n) ==
  LET out   == Newest(S, n + 1)
      items == Newest(out, n)
  IN  /\ items \in SUBSET S
      /\ \A v \in items, w \in S : Older(v, w) => w \in items
      /\ Size(out) > n \/ items = S

LEMMA OlderIsOrder ==
  ASSUME NEW S, Ordered(S), NEW v \in S, NEW w \in S
  PROVE  /\ ~Older(w, w)
         /\ v # w => Older(v, w) \/ Older(w, v)
         /\ ~(Older(v, w) /\ Older(w, v))
         /\ \A x \in S : Older(v, w) /\ Older(w, x) => Older(v, x)
BY DEF Ordered, Older

(* What a walk has returned so far lies before its cursor, and what it has  *)
(* to return and has not lies behind.                                       *)
WalkInv ==
  /\ cursor \in [ts : Nat, id : Nat, zero : BOOLEAN]
  /\ twice = {}
  /\ \A i \in listed : \E w \in rows :
       w.id = i /\ w.owner = Reader /\ (walk = "paging" => ~cursor.zero /\ ~Older(w, cursor))
  /\ walk = "idle" => listed = {} /\ present = {} /\ cursor.zero
  /\ \A i \in present : i \in listed \/ (walk # "done" /\ \E w \in After(cursor) : w.id = i)

LEMMA RowsOrdered ==
  ASSUME CreateInv
  PROVE  Ordered(rows)
<1>1. \A w \in rows : w.ts \in Nat /\ w.id \in Nat
  BY DEF CreateInv, CreateType, Row
<1>2. \A v, w \in rows : v.id = w.id => v = w
  BY Zenon DEF CreateInv, RowsInv, Written, Apart
<1> QED
  BY Zenon, <1>1, <1>2 DEF Ordered

(* Rows are not deleted. *)
LEMMA RowsGrow ==
  ASSUME [Next]_vars
  PROVE  rows \subseteq rows'
<1>1. ASSUME NEW r \in Requests, Step(r) PROVE rows \subseteq rows'
  BY Zenon, <1>1 DEF Step, GetTemplate, Claim, Get, Insert, Commit, Stored, Finalize, Release, Exit, dbVars
<1>2. ASSUME \/ \E r \in Requests, o \in Owners, k \in Headers, a \in Asks, n \in 0..MaxBatch : Arrive(r, o, k, a, n)
             \/ \E r \in Requests : Cancel(r) \/ Crash(r)
             \/ \E o \in Owners, k \in IdemKeys : Expire(o, k)
             \/ BumpTemplateVersion
             \/ DeprecateTemplate
             \/ UNCHANGED vars
      PROVE  rows' = rows
  BY ZenonT(30), <1>2 DEF Arrive, Cancel, Crash, Expire, BumpTemplateVersion, DeprecateTemplate, vars, dbVars
<1> QED
  BY Zenon, <1>1, <1>2 DEF Next

(* While others create notifications a walk stays what it is. *)
LEMMA WalkStays ==
  ASSUME WalkInv, rows \subseteq rows', UNCHANGED <<walk, cursor, listed, twice, present>>
  PROVE  WalkInv'
<1>1. After(cursor) \subseteq After(cursor)'
  BY DEF After
<1> QED
  BY Zenon, <1>1 DEF WalkInv

LEMMA WalkBegins ==
  ASSUME WalkInv, BeginWalk, rows' = rows
  PROVE  WalkInv'
<1>1. cursor' = cursor /\ cursor.zero /\ listed = {} /\ listed' = {} /\ walk' = "paging" /\ twice' = twice
  BY Zenon DEF WalkInv, BeginWalk
<1>2. ASSUME NEW i \in present' PROVE \E w \in After(cursor)' : w.id = i
  BY Zenon, <1>1, <1>2 DEF BeginWalk, After
<1> QED
  BY Zenon, <1>1, <1>2 DEF WalkInv

LEMMA ListPageIs ==
  ASSUME ListPage
  PROVE  LET out   == Newest(After(cursor), PageSize + 1)
             items == Newest(out, PageSize)
             ids   == {w.id : w \in items}
         IN  /\ walk = "paging" /\ listed' = listed \cup ids /\ twice' = twice \cup (listed \cap ids)
             /\ present' = present
             /\ \/ /\ Size(out) > PageSize
                   /\ \E last \in items :
                        /\ \A w \in items : w = last \/ Older(last, w)
                        /\ cursor' = [ts |-> last.ts, id |-> last.id, zero |-> FALSE]
                   /\ walk' = walk
                \/ ~(Size(out) > PageSize) /\ walk' = "done" /\ cursor' = cursor
BY Zenon DEF ListPage, Size

(* A page brings rows that no page before has brought, and leaves behind   *)
(* the cursor those that are still to come.                                *)
LEMMA WalkGoesOn ==
  ASSUME CreateInv, WalkInv, ListPage, rows' = rows, PageOK(After(cursor), PageSize)
  PROVE  WalkInv'
<1> DEFINE S     == After(cursor)
           out   == Newest(S, PageSize + 1)
           items == Newest(out, PageSize)
           ids   == {w.id : w \in items}
<1>1. Ordered(rows) /\ S \in SUBSET rows
  BY Zenon, RowsOrdered DEF After
<1>2. Ordered(S)
  BY Zenon, <1>1 DEF Ordered
<1>3. /\ items \in SUBSET S
      /\ \A v \in items, w \in S : Older(v, w) => w \in items
      /\ Size(out) > PageSize \/ items = S
  BY Zenon DEF PageOK
<1>4. \A w \in S : w \in rows /\ w.owner = Reader /\ (cursor.zero \/ Older(w, cursor))
  BY Zenon DEF After
<1>5. /\ walk = "paging" /\ listed' = listed \cup ids /\ twice' = twice \cup (listed \cap ids) /\ present' = present
      /\ \/ /\ \E last \in items :
                  /\ \A w \in items : w = last \/ Older(last, w)
                  /\ cursor' = [ts |-> last.ts, id |-> last.id, zero |-> FALSE]
            /\ walk' = walk
         \/ items = S /\ walk' = "done" /\ cursor' = cursor
  BY Zenon, <1>3, ListPageIs
<1> HIDE DEF S, out, items
<1>6. twice' = {}
  <2>1. listed \cap ids = {}
    <3> SUFFICES ASSUME NEW v \in items, v.id \in listed PROVE FALSE
      BY Zenon
    <3>1. PICK w \in rows : w.id = v.id /\ ~cursor.zero /\ ~Older(w, cursor)
      BY Zenon, <1>5 DEF WalkInv
    <3>2. v \in rows /\ Older(v, cursor)
      BY Zenon, <1>3, <1>4, <3>1
    <3> QED
      BY Zenon, <1>1, <3>1, <3>2 DEF Ordered
  <2> QED
    BY Zenon, <1>5, <2>1 DEF WalkInv
<1>7. ASSUME NEW last \in items, \A w \in items : w = last \/ Older(last, w),
             cursor' = [ts |-> last.ts, id |-> last.id, zero |-> FALSE], walk' = walk
      PROVE  WalkInv'
  <2>1. last \in S /\ last \in rows /\ last.ts \in Nat /\ last.id \in Nat
    BY Zenon, <1>1, <1>3 DEF Ordered
  <2>2. /\ cursor'.zero = FALSE /\ cursor' \in [ts : Nat, id : Nat, zero : BOOLEAN]
        /\ cursor'.ts = last.ts /\ cursor'.id = last.id
    BY <1>7, <2>1
  <2>3. \A w : Older(w, cursor') <=> Older(w, last)
    BY Zenon, <2>2 DEF Older
  <2>4. ASSUME NEW i \in listed
        PROVE  \E w \in rows : w.id = i /\ w.owner = Reader /\ ~Older(w, last)
    <3>1. PICK w \in rows : w.id = i /\ w.owner = Reader /\ ~cursor.zero /\ ~Older(w, cursor)
      BY Zenon, <1>5 DEF WalkInv
    <3>2. Older(last, cursor)
      BY Zenon, <1>4, <2>1, <3>1
    <3>3. /\ w.ts \in Nat /\ w.id \in Nat /\ cursor.ts \in Nat /\ cursor.id \in Nat
      BY <1>1 DEF Ordered, WalkInv
    <3>4. ~Older(w, last)
      BY <2>1, <3>1, <3>2, <3>3 DEF Older
    <3> QED
      BY Zenon, <3>1, <3>4
  <2>5. ASSUME NEW v \in items
        PROVE  v \in rows /\ v.owner = Reader /\ ~Older(v, last)
    <3>1. v \in S
      BY Zenon, <1>3
    <3> QED
      BY Zenon, <1>2, <1>4, <1>7, <2>1, <3>1, OlderIsOrder
  <2>6. \A i \in listed' : \E w \in rows' : w.id = i /\ w.owner = Reader /\ ~Older(w, cursor')
    BY Zenon, <1>5, <2>3, <2>4, <2>5
  <2>7. ASSUME NEW i \in present', i \notin listed'
        PROVE  \E w \in After(cursor)' : w.id = i
    <3>1. PICK w \in S : w.id = i
      BY Zenon, <1>5, <2>7 DEF WalkInv, S
    <3>2. w \notin items
      BY Zenon, <1>5, <2>7, <3>1
    <3>3. Older(w, last)
      BY Zenon, <1>2, <1>3, <2>1, <3>1, <3>2, OlderIsOrder
    <3> QED
      BY Zenon, <1>4, <2>3, <3>1, <3>3 DEF After
  <2> QED
    BY Zenon, <1>5, <1>6, <1>7, <2>2, <2>6, <2>7 DEF WalkInv
<1>8. ASSUME items = S, walk' = "done", cursor' = cursor
      PROVE  WalkInv'
  <2>1. \A i \in listed' : \E w \in rows' : w.id = i /\ w.owner = Reader
    BY Zenon, <1>4, <1>5, <1>8 DEF WalkInv
  <2>2. \A i \in present' : i \in listed'
    BY Zenon, <1>5, <1>8 DEF WalkInv, S
  <2> QED
    BY Zenon, <1>6, <1>8, <2>1, <2>2 DEF WalkInv
<1> QED
  BY Zenon, <1>5, <1>7, <1>8

(* The steps of Listing are steps of Creation or leave it alone. *)
LEMMA CreationUnderneath == ListingSpec => Spec
<1>1. ListingInit => Init
  BY Zenon DEF ListingInit
<1>2. [ListingNext]_<<vars, listVars>> => [Next]_vars
  BY Zenon DEF ListingNext
<1> QED
  BY <1>1, <1>2, PTL DEF ListingSpec, Spec

-----------------------------------------------------------------------------
(* Listing: batches *)

(* Past its transaction. *)
Past(r) == pc[r] \notin {"idle", "template", "claim", "get", "insert", "commit"}

BatchRows(r) == {w \in rows : w.batch = r}

(* The ids of a batch are consecutive: so there are as many as items. *)
Block(S, n) == \E m \in Nat : {w.id : w \in S} = (m + 1)..(m + n)

(* The rows of a batch are inserted in one transaction, with the batch. *)
BatchInv ==
  /\ \A r \in Requests :
       /\ pc[r] = "commit" /\ req[r].ask = "batch" => Block(tx[r], req[r].items)
       /\ \A w \in tx[r] : w.batch \in {0, r} /\ (w.batch = r <=> req[r].ask = "batch")
       /\ ~Past(r) => BatchRows(r) = {}
  /\ \A b \in batches :
       /\ b.id \in Requests /\ Past(b.id) /\ b.accepted \in Nat
       /\ Block(BatchRows(b.id), b.accepted)
       /\ \A w \in BatchRows(b.id) : w.owner = req[b.id].owner

(* What getByBatch has read. *)
DetailInv ==
  \/ detail = NoDetail
  \/ \E b \in batches :
       \/ detail = [batch |-> b.id, accepted |-> b.accepted]
       \/ \E I \in SUBSET Nat :
            /\ detail = [batch |-> b.id, accepted |-> b.accepted, items |-> I]
            /\ Size(I) = IF req[b.id].owner = Reader THEN b.accepted ELSE 0

(* What a step does to the transactions and to the tables of batches. *)
Idles(r) == UNCHANGED <<rows, batches>> /\ tx'[r] = {} /\ pc'[r] # "commit"

Inserts(r) ==
  /\ UNCHANGED <<rows, batches>> /\ pc[r] = "insert" /\ pc'[r] = "commit"
  /\ \E t \in Nat : tx'[r] = NewRows(r, t)

Stores(r) == Stored(r) /\ pc[r] = "commit" /\ tx'[r] = {}

LEMMA TransactionStep ==
  ASSUME CreateInv, NEW r \in Requests,
         \/ Step(r)
         \/ \E o \in Owners, k \in Headers, a \in Asks, n \in 0..MaxBatch : Arrive(r, o, k, a, n)
         \/ Crash(r)
  PROVE  /\ Idles(r) \/ Inserts(r) \/ Stores(r)
         /\ pc[r] # "idle" => (req'[r].owner = req[r].owner /\ req'[r].items = req[r].items /\ req'[r].ask = req[r].ask)
         /\ Past(r) => Past(r)'
         /\ Stores(r) => Past(r)'
<1>1. /\ pc \in [Requests -> Labels] /\ req \in [Requests -> Request] /\ tx \in [Requests -> SUBSET Row]
      /\ clock \in Nat
  BY Zenon DEF CreateInv, CreateType
<1>2. tx[r] # {} => pc[r] = "commit"
  BY Zenon DEF CreateInv, RowsInv, TxOK
<1>3. CASE \E o \in Owners, k \in Headers, a \in Asks, n \in 0..MaxBatch : Arrive(r, o, k, a, n)
  <2>1. PICK o \in Owners, k \in Headers, a \in Asks, n \in 0..MaxBatch : Arrive(r, o, k, a, n)
    BY Zenon, <1>3
  <2>2. pc[r] = "idle" /\ UNCHANGED <<rows, batches, tx>>
    BY Zenon, <2>1 DEF Arrive, dbVars
  <2>3. pc'[r] \in {"done", "template", "claim", "insert"}
    <3> DEFINE l == CASE a = "templated" -> "template"
                      [] a \notin {"templated", "batch"} /\ k # NoKey -> "claim"
                      [] OTHER -> "insert"
    <3>1. pc' = [pc EXCEPT ![r] = l] \/ pc' = [pc EXCEPT ![r] = "done"]
      BY Zenon, <2>1 DEF Arrive, Finish, Goto
    <3>2. l \in {"template", "claim", "insert"}
      <4>1. CASE a = "templated"
        BY <4>1
      <4>2. CASE a # "templated"
        BY <4>2
      <4> QED
        BY <4>1, <4>2
    <3> HIDE DEF l
    <3> QED
      BY Zenon, <1>1, <3>1, <3>2
  <2> QED
    BY Zenon, <1>2, <2>2, <2>3 DEF Idles, Stores, Past
<1>4. CASE GetTemplate(r)
  <2>1. pc[r] = "template" /\ UNCHANGED <<rows, batches, tx>>
    BY Zenon, <1>4 DEF GetTemplate, dbVars
  <2>2. pc'[r] \in {"done", "claim", "insert"}
    BY Zenon, <1>1, <1>4 DEF GetTemplate, Finish, Goto
  <2>3. req'[r].owner = req[r].owner /\ req'[r].items = req[r].items /\ req'[r].ask = req[r].ask
    <3>1. req' = req \/ req' = [req EXCEPT ![r].version = version]
      BY Zenon, <1>4 DEF GetTemplate
    <3> QED
      BY <1>1, <3>1 DEF Request
  <2> QED
    BY Zenon, <1>2, <2>1, <2>2, <2>3 DEF Idles, Stores, Past
<1>5. CASE Claim(r) \/ Get(r)
  <2>1. pc[r] \in {"claim", "get"} /\ UNCHANGED <<rows, batches, tx, req>>
    BY Zenon, <1>5 DEF Claim, Get, dbVars
  <2>2. pc'[r] \in {"done", "get", "insert"}
    BY Zenon, <1>1, <1>5 DEF Claim, Get, Finish, Goto
  <2> QED
    BY Zenon, <1>2, <2>1, <2>2 DEF Idles, Stores, Past
<1>6. CASE Finalize(r) \/ Release(r) \/ Exit(r)
  <2>1. pc[r] \in {"finalize", "release", "exit"} /\ UNCHANGED <<rows, batches, tx, req>>
    BY Zenon, <1>6 DEF Finalize, Release, Exit, dbVars
  <2>2. pc'[r] \in {"exit", "done"}
    BY Zenon, <1>1, <1>6 DEF Finalize, Release, Exit, Goto
  <2> QED
    BY Zenon, <1>2, <2>1, <2>2 DEF Idles, Stores, Past
<1>7. CASE Insert(r)
  <2>1. pc[r] = "insert" /\ UNCHANGED <<rows, batches, req>> /\ ~Past(r)
    BY Zenon, <1>7 DEF Insert, Past
  <2>2. \/ pc'[r] \in {"release", "exit"} /\ tx' = tx
        \/ pc'[r] = "commit" /\ \E t \in Nat : tx'[r] = NewRows(r, t)
    <3>1. CASE Failed(r) /\ tx' = tx
      BY Zenon, <1>1, <3>1 DEF Failed, Goto
    <3>2. ASSUME NEW t \in {clock + p : p \in Passing}, tx' = [tx EXCEPT ![r] = NewRows(r, t)], Goto(r, "commit")
          PROVE  pc'[r] = "commit" /\ t \in Nat /\ tx'[r] = NewRows(r, t)
      <4>1. t \in Nat
        BY <1>1, CreationAssumption
      <4> QED
        BY Zenon, <1>1, <3>2, <4>1 DEF Goto
    <3> QED
      BY Zenon, <1>7, <3>1, <3>2 DEF Insert
  <2> QED
    BY Zenon, <1>2, <2>1, <2>2 DEF Idles, Inserts, Stores
<1>8. CASE Commit(r)
  <2>1. pc[r] = "commit" /\ UNCHANGED req /\ tx'[r] = {} /\ ~Past(r)
    BY Zenon, <1>1, <1>8 DEF Commit, Rollback, Past
  <2>2. pc'[r] \in {"finalize", "release", "exit"}
    BY Zenon, <1>1, <1>8 DEF Commit, Failed, Goto
  <2>3. Stored(r) \/ UNCHANGED <<rows, batches>>
    BY Zenon, <1>8 DEF Commit
  <2> QED
    BY Zenon, <2>1, <2>2, <2>3 DEF Idles, Stores, Past
<1>9. CASE Crash(r)
  <2>1. UNCHANGED <<rows, batches, req>> /\ tx'[r] = {} /\ pc'[r] = "done"
    BY Zenon, <1>1, <1>9 DEF Crash, Finish, Goto, dbVars
  <2> QED
    BY Zenon, <2>1 DEF Idles, Past
<1> QED
  BY Zenon, <1>3, <1>4, <1>5, <1>6, <1>7, <1>8, <1>9 DEF Step

(* The ids of the rows a request inserts are consecutive. *)
LEMMA NewRowsBlock ==
  ASSUME CreateInv, NEW r \in Requests, NEW t \in Nat
  PROVE  /\ Block(NewRows(r, t), req[r].items)
         /\ \A w \in NewRows(r, t) : w.batch = IF req[r].ask = "batch" THEN r ELSE 0
<1> DEFINE b == IF req[r].ask = "batch" THEN r ELSE 0
           W(i) == [id |-> nextId + i, ts |-> t, owner |-> req[r].owner, key |-> RowKey(r), ask |-> req[r].ask,
                    batch |-> b, version |-> req[r].version]
           k == req[r].items
<1>1. nextId \in Nat /\ nextId >= 1 /\ k \in Nat
  <2>1. k \in 0..(MaxBatch + 1)
    BY Zenon, RequestFacts DEF CreateInv
  <2> QED
    BY <2>1, CreationAssumption DEF CreateInv, CreateType
<1>2. NewRows(r, t) = {W(i) : i \in 0..(k - 1)}
  BY Zenon DEF NewRows
<1>3. \A i : W(i).id = nextId + i /\ W(i).batch = b
  BY Zenon
<1> HIDE DEF W, b
<1>4. {w.id : w \in NewRows(r, t)} = {nextId + i : i \in 0..(k - 1)}
  BY Zenon, <1>2, <1>3
<1> HIDE DEF k
<1>5. nextId - 1 \in Nat /\ {nextId + i : i \in 0..(k - 1)} = ((nextId - 1) + 1)..((nextId - 1) + k)
  <2>1. \A j \in ((nextId - 1) + 1)..((nextId - 1) + k) : j - nextId \in 0..(k - 1) /\ j = nextId + (j - nextId)
    BY <1>1
  <2>2. \A i \in 0..(k - 1) : nextId + i \in ((nextId - 1) + 1)..((nextId - 1) + k)
    BY <1>1
  <2>3. nextId - 1 \in Nat
    BY <1>1
  <2> QED
    BY Zenon, <2>1, <2>2, <2>3
<1>6. Block(NewRows(r, t), k)
  BY Zenon, <1>4, <1>5 DEF Block
<1>7. \A w \in NewRows(r, t) : w.batch = b
  BY Zenon, <1>2, <1>3
<1> QED
  BY Zenon, <1>6, <1>7 DEF k, b

LEMMA BatchStep ==
  ASSUME CreateInv, BatchInv, [Next]_vars
  PROVE  BatchInv'
<1>1. ASSUME NEW r \in Requests,
             \/ Step(r)
             \/ \E o \in Owners, k \in Headers, a \in Asks, n \in 0..MaxBatch : Arrive(r, o, k, a, n)
             \/ Crash(r)
      PROVE  BatchInv'
  <2>1. Others(r)
    BY Zenon, <1>1, OneActor
  <2>2. /\ Idles(r) \/ Inserts(r) \/ Stores(r)
        /\ pc[r] # "idle" => (req'[r].owner = req[r].owner /\ req'[r].items = req[r].items /\ req'[r].ask = req[r].ask)
        /\ Past(r) => Past(r)'
        /\ Stores(r) => Past(r)'
    BY Zenon, <1>1, TransactionStep
  <2>3. \A q \in Requests : Past(q) => Past(q)' /\ req'[q].owner = req[q].owner
    BY Zenon, <2>1, <2>2 DEF Others, Past
  <2>4. ASSUME NEW q \in Requests \ {r}
        PROVE  /\ pc'[q] = "commit" /\ req'[q].ask = "batch" => Block(tx'[q], req'[q].items)
               /\ \A w \in tx'[q] : w.batch \in {0, q} /\ (w.batch = q <=> req'[q].ask = "batch")
    <3>1. UNCHANGED <<pc[q], req[q], tx[q]>>
      BY Zenon, <2>1 DEF Others
    <3> QED
      BY Zenon, <3>1 DEF BatchInv
  <2>5. CASE Idles(r) \/ Inserts(r)
    <3>1. \A q : BatchRows(q)' = BatchRows(q)
      BY Zenon, <2>5 DEF Idles, Inserts, BatchRows
    <3>2. batches' = batches
      BY Zenon, <2>5 DEF Idles, Inserts
    <3>3. /\ pc'[r] = "commit" /\ req'[r].ask = "batch" => Block(tx'[r], req'[r].items)
          /\ \A w \in tx'[r] : w.batch \in {0, r} /\ (w.batch = r <=> req'[r].ask = "batch")
      <4>1. CASE Idles(r)
        BY Zenon, <4>1 DEF Idles
      <4>2. CASE Inserts(r)
        <5>1. r # 0 /\ req'[r].items = req[r].items /\ req'[r].ask = req[r].ask
          <6>1. r # 0
            BY DEF Requests
          <6> QED
            BY Zenon, <2>2, <4>2, <6>1 DEF Inserts
        <5>2. PICK t \in Nat : tx'[r] = NewRows(r, t)
          BY Zenon, <4>2 DEF Inserts
        <5> QED
          BY Zenon, <5>1, <5>2, NewRowsBlock
      <4> QED
        BY Zenon, <2>5, <4>1, <4>2
    <3>4. \A q \in Requests : ~Past(q)' => BatchRows(q)' = {}
      BY Zenon, <2>3, <3>1 DEF BatchInv
    <3>5. \A c \in batches' : /\ c.id \in Requests /\ Past(c.id)' /\ c.accepted \in Nat
                              /\ Block(BatchRows(c.id)', c.accepted)
                              /\ \A w \in BatchRows(c.id)' : w.owner = req'[c.id].owner
      <4> SUFFICES ASSUME NEW c \in batches
                   PROVE  /\ c.id \in Requests /\ Past(c.id)' /\ c.accepted \in Nat
                          /\ Block(BatchRows(c.id)', c.accepted)
                          /\ \A w \in BatchRows(c.id)' : w.owner = req'[c.id].owner
        BY Zenon, <3>2
      <4>1. /\ c.id \in Requests /\ Past(c.id) /\ c.accepted \in Nat
            /\ Block(BatchRows(c.id), c.accepted)
            /\ \A w \in BatchRows(c.id) : w.owner = req[c.id].owner
        BY Zenon DEF BatchInv
      <4> QED
        BY Zenon, <2>3, <3>1, <4>1
    <3> QED
      BY Zenon, <2>4, <3>3, <3>4, <3>5 DEF BatchInv
  <2>6. CASE Stores(r)
    <3>1. /\ pc[r] = "commit" /\ ~Past(r) /\ tx'[r] = {} /\ rows' = rows \cup tx[r]
          /\ batches' = batches \cup {[id |-> r, accepted |-> req[r].items] : w \in {v \in tx[r] : v.batch = r}}
      BY Zenon, <2>6 DEF Stores, Stored, Past
    <3>2. Past(r)' /\ req'[r].owner = req[r].owner
      BY Zenon, <2>2, <2>6, <3>1
    <3>3. BatchRows(r) = {} /\ \A w \in tx[r] : w.batch \in {0, r} /\ (w.batch = r <=> req[r].ask = "batch")
      BY Zenon, <3>1 DEF BatchInv
    <3>4. ASSUME NEW q \in Requests, q # r PROVE BatchRows(q)' = BatchRows(q)
      <4>1. q # 0
        BY DEF Requests
      <4>2. \A w \in tx[r] : w.batch # q
        BY Zenon, <3>3, <3>4, <4>1
      <4> QED
        BY Zenon, <3>1, <4>2 DEF BatchRows
    <3>5. req[r].ask = "batch" => BatchRows(r)' = tx[r]
      BY Zenon, <3>1, <3>3 DEF BatchRows
    <3>6. ASSUME NEW c \in batches
          PROVE  /\ c.id \in Requests /\ Past(c.id)' /\ c.accepted \in Nat
                 /\ Block(BatchRows(c.id)', c.accepted)
                 /\ \A w \in BatchRows(c.id)' : w.owner = req'[c.id].owner
      <4>1. /\ c.id \in Requests /\ Past(c.id) /\ c.accepted \in Nat
            /\ Block(BatchRows(c.id), c.accepted)
            /\ \A w \in BatchRows(c.id) : w.owner = req[c.id].owner
        BY Zenon DEF BatchInv
      <4>2. c.id # r
        BY Zenon, <3>1, <4>1
      <4>3. BatchRows(c.id)' = BatchRows(c.id)
        BY Zenon, <3>4, <4>1, <4>2
      <4> QED
        BY Zenon, <2>3, <4>1, <4>3
    <3>7. ASSUME NEW v \in tx[r], v.batch = r, NEW c, c = [id |-> r, accepted |-> req[r].items]
          PROVE  /\ c.id \in Requests /\ Past(c.id)' /\ c.accepted \in Nat
                 /\ Block(BatchRows(c.id)', c.accepted)
                 /\ \A w \in BatchRows(c.id)' : w.owner = req'[c.id].owner
      <4>1. c.id = r /\ c.accepted = req[r].items
        BY Zenon, <3>7
      <4>2. req[r].ask = "batch" /\ Block(tx[r], req[r].items) /\ BatchRows(r)' = tx[r]
        BY Zenon, <3>1, <3>3, <3>5, <3>7 DEF BatchInv
      <4>3. \A w \in tx[r] : w.owner = req[r].owner
        BY ZenonT(30) DEF CreateInv, RowsInv, TxOK, Fits
      <4>4. req[r].items \in Nat
        <5>1. req[r].items \in 0..(MaxBatch + 1)
          BY Zenon, RequestFacts DEF CreateInv
        <5> QED
          BY Zenon, <5>1, NaturalOrZero
      <4> QED
        BY Zenon, <3>2, <4>1, <4>2, <4>3, <4>4
    <3>8. \A c \in batches' : /\ c.id \in Requests /\ Past(c.id)' /\ c.accepted \in Nat
                              /\ Block(BatchRows(c.id)', c.accepted)
                              /\ \A w \in BatchRows(c.id)' : w.owner = req'[c.id].owner
      BY Zenon, <3>1, <3>6, <3>7
    <3>9. \A q \in Requests : ~Past(q)' => BatchRows(q)' = {}
      BY Zenon, <2>3, <3>2, <3>4 DEF BatchInv
    <3>10. /\ pc'[r] # "commit"
           /\ \A w \in tx'[r] : w.batch \in {0, r} /\ (w.batch = r <=> req'[r].ask = "batch")
      BY Zenon, <3>1, <3>2 DEF Past
    <3> QED
      BY Zenon, <2>4, <3>8, <3>9, <3>10 DEF BatchInv
  <2> QED
    BY Zenon, <2>2, <2>5, <2>6
<1>2. ASSUME \/ \E o \in Owners, k \in IdemKeys : Expire(o, k)
             \/ \E p \in Requests : Cancel(p)
             \/ BumpTemplateVersion
             \/ DeprecateTemplate
             \/ UNCHANGED vars
      PROVE  BatchInv'
  <2>1. UNCHANGED <<rows, batches, tx, pc, req>>
    BY Zenon, <1>2 DEF Expire, Cancel, BumpTemplateVersion, DeprecateTemplate, vars, dbVars
  <2>2. \A q : BatchRows(q)' = BatchRows(q) /\ (Past(q)' <=> Past(q))
    BY Zenon, <2>1 DEF BatchRows, Past
  <2> QED
    BY Zenon, <2>1, <2>2 DEF BatchInv
<1> QED
  BY Zenon, <1>1, <1>2 DEF Next

(* Batches stay, and so do the requests that made them. *)
LEMMA BatchesStay ==
  ASSUME CreateInv, BatchInv, [Next]_vars, NEW b \in batches
  PROVE  b \in batches' /\ req'[b.id].owner = req[b.id].owner
<1>1. b.id \in Requests /\ Past(b.id)
  BY Zenon DEF BatchInv
<1>2. ASSUME NEW r \in Requests,
             \/ Step(r)
             \/ \E o \in Owners, k \in Headers, a \in Asks, n \in 0..MaxBatch : Arrive(r, o, k, a, n)
             \/ Crash(r)
      PROVE  b \in batches' /\ req'[b.id].owner = req[b.id].owner
  <2>1. batches \subseteq batches'
    BY Zenon, <1>2, TransactionStep DEF Idles, Inserts, Stores, Stored
  <2>2. CASE b.id = r
    BY Zenon, <1>1, <1>2, <2>1, <2>2, TransactionStep DEF Past
  <2>3. CASE b.id # r
    BY Zenon, <1>1, <1>2, <2>1, <2>3, OneActor DEF Others
  <2> QED
    BY Zenon, <2>2, <2>3
<1>3. ASSUME \/ \E o \in Owners, k \in IdemKeys : Expire(o, k)
             \/ \E p \in Requests : Cancel(p)
             \/ BumpTemplateVersion
             \/ DeprecateTemplate
             \/ UNCHANGED vars
      PROVE  b \in batches' /\ req'[b.id].owner = req[b.id].owner
  BY Zenon, <1>3 DEF Expire, Cancel, BumpTemplateVersion, DeprecateTemplate, vars, dbVars
<1> QED
  BY Zenon, <1>2, <1>3 DEF Next

-----------------------------------------------------------------------------
(* The ids that are handed out *)

(* Products of naturals grow with their factors. *)
LEMMA Budgets ==
  ASSUME NEW m \in Nat, NEW i \in Nat, NEW c \in Nat, NEW k \in Nat, NEW j \in Nat, NEW b \in Nat,
         m + c * k <= b, i <= c, j + 1 <= k
  PROVE  (m + i) + c * j <= b
<1>1. c * (k - j) >= c /\ c * k = c * j + c * (k - j) /\ c * j \in Nat /\ c * k \in Nat
  <2>1. k - j \in Nat /\ k - j >= 1
    OBVIOUS
  <2>2. \A e \in Nat : e >= 1 => c * e >= c
    BY SMTT(30)
  <2>3. c * k = c * j + c * (k - j)
    BY SMTT(30)
  <2> QED
    BY <2>1, <2>2, <2>3
<1> QED
  BY <1>1

LEMMA BudgetLeft ==
  ASSUME NEW n \in Nat, NEW d \in Nat, NEW b \in Nat, (n - 1) + d <= b
  PROVE  1..(n - 1) \subseteq 1..b
OBVIOUS

LEMMA BudgetKept ==
  ASSUME NEW m \in Nat, NEW c \in Nat, NEW k \in Nat, NEW j \in Nat, NEW b \in Nat, m + c * k <= b, j <= k
  PROVE  m + c * j <= b
<1>1. CASE j = k
  BY Zenon, <1>1
<1>2. CASE j + 1 <= k
  BY <1>2, Budgets
<1> QED
  BY <1>1, <1>2

LEMMA UnspentStep ==
  ASSUME CreateInv, [Next]_vars
  PROVE  /\ Unspent' \subseteq Unspent
         /\ \/ nextId' = nextId
            \/ \E r \in Unspent : r \notin Unspent' /\ nextId' = nextId + req[r].items
<1>1. pc \in [Requests -> Labels]
  BY Zenon DEF CreateInv, CreateType
<1>2. ASSUME NEW r \in Requests, Step(r) \/ Crash(r)
                 \/ \E o \in Owners, k \in Headers, a \in Asks, n \in 0..MaxBatch : Arrive(r, o, k, a, n)
      PROVE  /\ Unspent' \subseteq Unspent
             /\ nextId' = nextId \/ (r \in Unspent /\ r \notin Unspent' /\ nextId' = nextId + req[r].items)
  <2>1. Others(r) /\ pc[r] # "done"
    BY Zenon, <1>2, OneActor
  <2>2. (r \in Unspent)' => r \in Unspent
    <3>1. CASE Crash(r) \/ \E o \in Owners, k \in Headers, a \in Asks, n \in 0..MaxBatch : Arrive(r, o, k, a, n)
      BY Zenon, <1>1, <3>1 DEF Unspent, Crash, Arrive, Finish, Goto
    <3>2. CASE Step(r)
      BY Zenon, <1>1, <3>2 DEF Unspent, Step, GetTemplate, Claim, Get, Insert, Commit, Finalize, Release, Exit, Failed,
         Finish, Goto
    <3> QED
      BY Zenon, <1>2, <3>1, <3>2
  <2>3. Unspent' \subseteq Unspent
    BY <2>1, <2>2 DEF Unspent, Others
  <2>4. CASE Insert(r)
    BY Zenon, <1>1, <2>3, <2>4 DEF Insert, Unspent, Goto
  <2>5. CASE ~Insert(r)
    BY Zenon, <1>2, <2>3, <2>5 DEF Step, GetTemplate, Claim, Get, Commit, Finalize, Release, Exit, Crash, Arrive, dbVars
  <2> QED
    BY Zenon, <2>4, <2>5
<1>3. ASSUME \/ \E o \in Owners, k \in IdemKeys : Expire(o, k)
             \/ \E p \in Requests : Cancel(p)
             \/ BumpTemplateVersion
             \/ DeprecateTemplate
             \/ UNCHANGED vars
      PROVE  Unspent' = Unspent /\ nextId' = nextId
  BY Zenon, <1>3 DEF Expire, Cancel, BumpTemplateVersion, DeprecateTemplate, vars, dbVars, Unspent
<1> QED
  BY Zenon, <1>2, <1>3 DEF Next

-----------------------------------------------------------------------------
(* Sizes of sets.  The library's theorems come in here, which keeps them    *)
(* out of the obligations above.                                            *)

LEMMA SizeIs ==
  ASSUME NEW S
  PROVE  Size(S) = LET CS[T \in SUBSET S] == IF T = {} THEN 0 ELSE 1 + CS[T \ {CHOOSE x : x \in T}]
                   IN  CS[S]
BY Zenon DEF Size, Cardinality

(* The rows of a page have less than a page's rows before them. *)
LEMMA NewestIs ==
  ASSUME NEW S, NEW n, NEW w
  PROVE  w \in Newest(S, n) <=> w \in S /\ Size(Newer(S, w)) < n
BY Zenon DEF Newest, Newer, Size

LEMMA BatchIsWholeIs ==
  ASSUME "items" \in DOMAIN detail =>
           Size(detail.items) = IF req[detail.batch].owner = Reader THEN detail.accepted ELSE 0
  PROVE  BatchIsWhole
BY Zenon DEF BatchIsWhole, Size

LOCAL INSTANCE FiniteSetTheorems

LEMMA SizeIsCardinality ==
  ASSUME NEW S
  PROVE  Size(S) = Cardinality(S)
BY Zenon, SizeIs DEF Cardinality

(* Sizes of a finite set and a part of it. *)
LEMMA Sizes ==
  ASSUME NEW S, IsFiniteSet(S), NEW T \in SUBSET S
  PROVE  /\ IsFiniteSet(T) /\ Size(T) \in Nat /\ Size(S) \in Nat
         /\ Size(T) <= Size(S)
         /\ \A x \in S \ T : Size(T) + 1 <= Size(S)
<1>1. IsFiniteSet(T) /\ Size(T) <= Size(S)
  BY Zenon, FS_Subset, SizeIsCardinality
<1>2. Size(T) \in Nat /\ Size(S) \in Nat
  BY Zenon, <1>1, FS_CardinalityType, SizeIsCardinality
<1>3. ASSUME NEW x \in S \ T PROVE Size(T) + 1 <= Size(S)
  <2>1. IsFiniteSet(S \ {x}) /\ Size(S \ {x}) = Size(S) - 1
    BY Zenon, FS_RemoveElement, SizeIsCardinality
  <2>2. T \subseteq S \ {x}
    BY Zenon
  <2>3. Size(T) <= Size(S \ {x})
    BY Zenon, <2>1, <2>2, FS_Subset, SizeIsCardinality
  <2> QED
    BY <1>2, <2>1, <2>3
<1> QED
  BY <1>1, <1>2, <1>3

-----------------------------------------------------------------------------
(* Types *)

(* Ids are handed out to requests that have not inserted their rows yet. *)
IdsInv == (nextId - 1) + (MaxBatch + 1) * Size(Unspent) <= NumRequests * (MaxBatch + 1)

LEMMA UnspentFinite == IsFiniteSet(Unspent) /\ Size(Unspent) \in Nat /\ Size(Unspent) <= NumRequests
<1>1. IsFiniteSet(Requests) /\ Size(Requests) = NumRequests
  <2>1. IsFiniteSet(Requests) /\ Cardinality(Requests) = NumRequests
    BY CreationAssumption, FS_Interval DEF Requests
  <2> QED
    BY Zenon, <2>1, SizeIsCardinality
<1>2. Unspent \in SUBSET Requests
  BY Zenon DEF Unspent
<1> QED
  BY Zenon, <1>1, <1>2, Sizes

LEMMA IdsStep ==
  ASSUME CreateInv, IdsInv, [Next]_vars
  PROVE  IdsInv'
<1> DEFINE c == MaxBatch + 1
           b == NumRequests * c
           k == Size(Unspent)
           j == Size(Unspent')
<1>1. Unspent' \in SUBSET Unspent
  BY Zenon, UnspentStep
<1>2. k \in Nat /\ j \in Nat /\ j <= k /\ \A x \in Unspent \ Unspent' : j + 1 <= k
  BY ZenonT(30), <1>1, UnspentFinite, Sizes
<1>3. nextId \in Nat /\ nextId - 1 \in Nat /\ c \in Nat /\ b \in Nat /\ (nextId - 1) + c * k <= b
  BY CreationAssumption DEF CreateInv, CreateType, IdsInv
<1>4. CASE nextId' = nextId
  <2>1. (nextId - 1) + c * j <= b
    <3> HIDE DEF c, b, k, j
    <3> QED
      BY Zenon, <1>2, <1>3, BudgetKept
  <2> QED
    BY Zenon, <1>4, <2>1 DEF IdsInv
<1>5. ASSUME NEW r \in Unspent, r \notin Unspent', nextId' = nextId + req[r].items PROVE IdsInv'
  <2> DEFINE i == req[r].items
  <2>1. i \in Nat /\ i <= c
    <3>1. r \in Requests
      BY DEF Unspent
    <3>2. i \in 0..(MaxBatch + 1)
      BY Zenon, <3>1, RequestFacts DEF CreateInv
    <3> QED
      BY <3>2
  <2>2. j + 1 <= k
    BY Zenon, <1>2, <1>5
  <2>3. ((nextId - 1) + i) + c * j <= b
    <3> HIDE DEF c, b, k, j, i
    <3> QED
      BY ZenonT(30), <1>2, <1>3, <2>1, <2>2, Budgets
  <2>4. nextId' - 1 = (nextId - 1) + i
    BY <1>3, <1>5, <2>1
  <2> QED
    BY Zenon, <2>3, <2>4 DEF IdsInv
<1> QED
  BY Zenon, <1>4, <1>5, UnspentStep

(* Every id is handed out once and within the bound, the records are of    *)
(* one of three kinds, and rows are in transactions only until the commit. *)
THEOREM CreationTypes == Spec => []TypeOK
<1> DEFINE I == CreateInv /\ IdsInv
<1>1. Init => I
  <2> SUFFICES ASSUME Init PROVE IdsInv
    BY Zenon, CreateInit
  <2> DEFINE c == MaxBatch + 1
             k == Size(Unspent)
  <2>1. k \in Nat /\ k <= NumRequests /\ nextId = 1 /\ c \in Nat
    BY CreationAssumption, UnspentFinite DEF Init
  <2>2. 0 + c * NumRequests <= NumRequests * c /\ NumRequests * c \in Nat
    BY CreationAssumption, SMTT(30)
  <2>3. 0 + c * k <= NumRequests * c
    <3> HIDE DEF c, k
    <3> QED
      BY Zenon, CreationAssumption, <2>1, <2>2, BudgetKept
  <2> QED
    BY <2>1, <2>3 DEF IdsInv
<1>2. I /\ [Next]_vars => I'
  BY Zenon, CreateStep, IdsStep
<1>3. I => TypeOK
  <2> SUFFICES ASSUME CreateInv, IdsInv PROVE TypeOK
    OBVIOUS
  <2>1. 1..(nextId - 1) \subseteq Ids
    <3> DEFINE c == MaxBatch + 1
               k == Size(Unspent)
    <3>1. k \in Nat /\ c \in Nat /\ nextId \in Nat /\ NumRequests * c \in Nat
      BY CreationAssumption, UnspentFinite DEF CreateInv, CreateType
    <3>2. (nextId - 1) + c * k <= NumRequests * c
      BY DEF IdsInv
    <3>3. c * k \in Nat
      BY <3>1
    <3> HIDE DEF k, c
    <3>4. 1..(nextId - 1) \subseteq 1..(NumRequests * c)
      BY Zenon, <3>1, <3>2, <3>3, BudgetLeft
    <3> QED
      BY Zenon, <3>4 DEF Ids, c
  <2>2. \A w \in rows : w.id \in 1..(nextId - 1) /\ w.ts <= clock /\ w.owner \in Owners /\ w.key \in IdemKeys \cup {NoKey}
    BY ZenonT(30) DEF CreateInv, CreateType, Row, RowsInv, Written, Dated
  <2>3. \A v, w \in rows : v.id = w.id => v = w
    BY DEF CreateInv, RowsInv, Written, Apart
  <2>4. \A o \in Owners, k \in IdemKeys : slot[<<o, k>>].state \in {"free", "in flight", "final"}
    BY Zenon, RecordStates DEF CreateInv, CreateType
  <2>5. \A r \in Requests : answer[r].status \in Statuses /\ answer[r].ids \subseteq 1..(nextId - 1)
    <3> SUFFICES ASSUME NEW r \in Requests
                 PROVE  answer[r].status \in Statuses /\ answer[r].ids \subseteq 1..(nextId - 1)
      OBVIOUS
    <3>1. answer[r].status \in Statuses /\ RequestOK(r) /\ AnswerOK(r)
      BY Zenon, RequestFacts DEF CreateInv, RequestInv, AnswerInv
    <3>2. CASE Succeeded(r)
      BY Zenon, <2>2, <3>1, <3>2 DEF AnswerOK
    <3>3. CASE ~Succeeded(r)
      BY Zenon, <3>1, <3>3 DEF RequestOK
    <3> QED
      BY Zenon, <3>1, <3>2, <3>3
  <2>6. \A r \in Requests : tx[r] # {} => pc[r] = "commit"
    BY Zenon DEF CreateInv, RowsInv, TxOK
  <2> HIDE DEF CreateInv
  <2>7. /\ outbox \subseteq 1..(nextId - 1) /\ scheduled \subseteq 1..(nextId - 1)
        /\ version \in 1..MaxVersion /\ deprecated \in BOOLEAN /\ pc \in [Requests -> Labels]
        /\ before \in [Requests -> SUBSET Requests] /\ cancelled \subseteq Requests
        /\ lapsed \in BOOLEAN /\ FaultsTypeOK
    BY DEF CreateInv, CreateType
  <2> QED
    BY Zenon, <2>1, <2>2, <2>3, <2>4, <2>5, <2>6, <2>7 DEF TypeOK
<1> QED
  BY <1>1, <1>2, <1>3, PTL DEF Spec

-----------------------------------------------------------------------------
(* Pages *)

Ranked(S) == IsFiniteSet(S) /\ Ordered(S)

LEMMA RankedPart ==
  ASSUME NEW S, Ranked(S), NEW T \in SUBSET S
  PROVE  Ranked(T)
<1>1. IsFiniteSet(T)
  BY Zenon, FS_Subset DEF Ranked
<1> QED
  BY Zenon, <1>1 DEF Ranked, Ordered

(* Fewer rows are newer than a newer row. *)
LEMMA NewerCounts ==
  ASSUME NEW S, Ranked(S), NEW w \in S
  PROVE  /\ IsFiniteSet(Newer(S, w)) /\ Size(Newer(S, w)) \in Nat
         /\ Size(S) \in Nat /\ Size(Newer(S, w)) + 1 <= Size(S)
         /\ \A v \in Newer(S, w) : Size(Newer(S, v)) + 1 <= Size(Newer(S, w))
<1>1. Newer(S, w) \in SUBSET S /\ w \notin Newer(S, w)
  BY Zenon, OlderIsOrder DEF Newer, Ranked
<1>2. IsFiniteSet(S)
  BY Zenon DEF Ranked
<1>3. ASSUME NEW v \in Newer(S, w) PROVE Newer(S, v) \in SUBSET Newer(S, w) /\ v \notin Newer(S, v)
  BY Zenon, OlderIsOrder DEF Newer, Ranked
<1>4. IsFiniteSet(Newer(S, w)) /\ Size(Newer(S, w)) \in Nat
      /\ Size(S) \in Nat /\ Size(Newer(S, w)) + 1 <= Size(S)
  BY Zenon, <1>1, <1>2, Sizes
<1> QED
  BY Zenon, <1>3, <1>4, Sizes

(* What is newer than a row of a page is on the page. *)
LEMMA NewestClosed ==
  ASSUME NEW S, Ranked(S), NEW n \in Nat, NEW v \in Newest(S, n), NEW w \in S, Older(v, w)
  PROVE  w \in Newest(S, n)
<1>1. v \in S /\ w \in Newer(S, v) /\ Size(Newer(S, v)) < n
  BY Zenon, NewestIs DEF Newer
<1>2. /\ Size(Newer(S, v)) \in Nat /\ Size(Newer(S, w)) \in Nat
      /\ Size(Newer(S, w)) + 1 <= Size(Newer(S, v))
  BY Zenon, <1>1, NewerCounts
<1>3. Size(Newer(S, w)) < n
  BY <1>1, <1>2
<1> QED
  BY Zenon, <1>3, NewestIs

(* A set of rows that is not empty has one with the fewest newer ones. *)
LEMMA FewestNewer ==
  ASSUME NEW S, Ranked(S), NEW T \in SUBSET S, T # {}
  PROVE  \E w \in T : Newer(S, w) \cap T = {}
<1> DEFINE R == OpToRel(<, Nat)
           D == {Size(Newer(S, w)) : w \in T}
<1>1. IsWellFoundedOn(R, Nat)
  BY Zenon, NatLessThanWellFounded
<1>2. D \subseteq Nat /\ D # {}
  BY Zenon, NewerCounts
<1>3. \A x, y \in Nat : y < x => <<y, x>> \in R
  BY DEF OpToRel
<1> HIDE DEF R
<1>4. PICK x \in D : \A y \in D : ~(<<y, x>> \in R)
  <2> HIDE DEF D
  <2> QED
    BY Zenon, <1>1, <1>2, WFMin
<1>5. PICK w \in T : x = Size(Newer(S, w))
  BY Zenon, <1>4
<1>6. ASSUME NEW v \in Newer(S, w), v \in T PROVE FALSE
  <2>1. Size(Newer(S, v)) + 1 <= x /\ Size(Newer(S, v)) \in D
    BY Zenon, <1>5, <1>6, NewerCounts
  <2>2. Size(Newer(S, v)) \in Nat /\ x \in Nat
    BY ZenonT(30), <1>2, <1>4, <2>1
  <2>3. Size(Newer(S, v)) < x
    BY <2>1, <2>2
  <2> QED
    BY Zenon, <1>3, <1>4, <2>1, <2>2, <2>3
<1> QED
  BY Zenon, <1>6

(* A page that is not full is the last. *)
LEMMA NewestAll ==
  ASSUME NEW S, Ranked(S), NEW n \in Nat, Size(Newest(S, n + 1)) <= n
  PROVE  Newest(S, n + 1) = S /\ Newest(S, n) = S
<1> DEFINE out == Newest(S, n + 1)
<1>0. out \in SUBSET S /\ IsFiniteSet(S) /\ n + 1 \in Nat
  BY DEF Newest, Ranked
<1>1. IsFiniteSet(out) /\ Size(out) \in Nat
  BY Zenon, <1>0, Sizes
<1>2. S \ out = {}
  <2> SUFFICES ASSUME S \ out # {} PROVE FALSE
    OBVIOUS
  <2>1. PICK w \in S \ out : Newer(S, w) \cap (S \ out) = {}
    <3> DEFINE T == S \ out
    <3>1. T \in SUBSET S /\ T # {}
      BY Zenon
    <3> HIDE DEF T
    <3>2. \E w \in T : Newer(S, w) \cap T = {}
      BY Zenon, <3>1, FewestNewer
    <3> QED
      BY Zenon, <3>2 DEF T
  <2>2. Newer(S, w) \in SUBSET out
    BY Zenon, <2>1 DEF Newer
  <2>3. Size(Newer(S, w)) <= Size(out) /\ Size(Newer(S, w)) \in Nat
    BY Zenon, <1>1, <2>1, <2>2, Sizes
  <2>4. ~(Size(Newer(S, w)) < n + 1)
    BY Zenon, <2>1, NewestIs
  <2> HIDE DEF out
  <2>5. Size(out) <= n
    BY Zenon DEF out
  <2> QED
    BY <1>1, <2>3, <2>4, <2>5
<1>3. out = S
  BY Zenon, <1>0, <1>2
<1>4. ASSUME NEW w \in S PROVE w \in Newest(S, n)
  <2>1. /\ Size(Newer(S, w)) \in Nat /\ Size(S) \in Nat
        /\ Size(Newer(S, w)) + 1 <= Size(S) /\ Size(S) <= n
    BY Zenon, <1>3, NewerCounts
  <2>2. Size(Newer(S, w)) < n
    BY <2>1
  <2> QED
    BY Zenon, <2>2, NewestIs
<1> QED
  BY Zenon, <1>3, <1>4 DEF Newest

LEMMA PageItems ==
  ASSUME NEW S, Ranked(S), NEW n \in Nat
  PROVE  PageOK(S, n)
<1> DEFINE out == Newest(S, n + 1)
           items == Newest(out, n)
<1>0. n + 1 \in Nat
  OBVIOUS
<1>1. out \in SUBSET S /\ items \in SUBSET out
  BY Zenon DEF Newest
<1>2. Ranked(out)
  BY Zenon, <1>1, RankedPart
<1>3. ASSUME NEW v \in items, NEW w \in S, Older(v, w) PROVE w \in items
  <2>1. v \in out
    BY Zenon, <1>1
  <2>2. w \in out
    BY Zenon, <1>0, <1>3, <2>1, NewestClosed
  <2> HIDE DEF out
  <2> QED
    BY Zenon, <1>2, <1>3, <2>2, NewestClosed
<1>4. ASSUME ~(Size(out) > n) PROVE items = S
  <2>1. Size(out) \in Nat
    BY Zenon, <1>2, Sizes DEF Ranked
  <2>2. Size(out) <= n
    <3> HIDE DEF out
    <3> QED
      BY <1>4, <2>1
  <2>3. out = S /\ Newest(S, n) = S
    BY Zenon, <2>2, NewestAll
  <2> QED
    BY Zenon, <2>3
<1> QED
  BY Zenon, <1>1, <1>3, <1>4 DEF PageOK

-----------------------------------------------------------------------------
(* Walks *)

(* The rows of the table are finite in number and differ in their ids. *)
LEMMA RowsAreRanked ==
  ASSUME CreateInv
  PROVE  Ranked(rows)
<1>2. \A w \in rows : w.id \in 1..(nextId - 1)
  BY Zenon DEF CreateInv, RowsInv, Written, Dated
<1>3. \A v, w \in rows : v.id = w.id => v = w
  BY Zenon DEF CreateInv, RowsInv, Written, Apart
<1>4. IsFiniteSet(rows)
  <2> DEFINE f == [w \in rows |-> w.id]
  <2>1. f \in Injection(rows, 1..(nextId - 1))
    BY Zenon, <1>2, <1>3 DEF Injection, IsInjective
  <2>2. nextId - 1 \in Int /\ 1 \in Int
    BY DEF CreateInv, CreateType
  <2>3. IsFiniteSet(1..(nextId - 1))
    BY Zenon, <2>2, FS_Interval
  <2> HIDE DEF f
  <2> QED
    BY Zenon, <2>1, <2>3, FS_Injection
<1> QED
  BY Zenon, <1>4, RowsOrdered DEF Ranked

(* A walk through the pages, with any page size and whatever is created    *)
(* meanwhile, returns every row that was there when it began, each once,   *)
(* and only the reader's (Listing's WalkIsExact).                          *)
THEOREM WalksAreExact == ListingSpec => []WalkIsExact
<1>1. ListingInit => WalkInv
  <2> SUFFICES ASSUME ListingInit PROVE WalkInv
    OBVIOUS
  <2>1. walk = "idle" /\ cursor = Start /\ listed = {} /\ twice = {} /\ present = {}
    BY Zenon DEF ListingInit, LInit
  <2>2. Start \in [ts : Nat, id : Nat, zero : BOOLEAN] /\ Start.zero
    BY DEF Start
  <2> QED
    BY Zenon, <2>1, <2>2 DEF WalkInv
<1>2. CreateInv /\ WalkInv /\ [ListingNext]_<<vars, listVars>> => WalkInv'
  <2> SUFFICES ASSUME CreateInv, WalkInv, [ListingNext]_<<vars, listVars>> PROVE WalkInv'
    OBVIOUS
  <2>1. CASE [Next]_vars /\ UNCHANGED listVars
    BY Zenon, <2>1, RowsGrow, WalkStays DEF listVars
  <2>2. CASE BeginWalk /\ UNCHANGED vars
    BY Zenon, <2>2, WalkBegins DEF vars, dbVars
  <2>3. CASE ListPage /\ UNCHANGED vars
    <3>1. After(cursor) \in SUBSET rows /\ PageSize \in Nat
      BY Zenon, ListingAssumption DEF After
    <3>2. PageOK(After(cursor), PageSize)
      BY Zenon, <3>1, RowsAreRanked, RankedPart, PageItems
    <3> QED
      BY Zenon, <2>3, <3>2, WalkGoesOn DEF vars, dbVars
  <2>4. CASE (GetBatchItems \/ \E b \in batches : GetBatch(b)) /\ UNCHANGED vars
    <3>1. rows \subseteq rows' /\ UNCHANGED <<walk, cursor, listed, twice, present>>
      BY Zenon, <2>4 DEF GetBatchItems, GetBatch, vars, dbVars
    <3> QED
      BY Zenon, <3>1, WalkStays
  <2> QED
    BY Zenon, <2>1, <2>2, <2>3, <2>4 DEF ListingNext
<1>3. WalkInv => WalkIsExact
  BY Zenon DEF WalkInv, WalkIsExact
<1> QED
  BY <1>1, <1>2, <1>3, CreationUnderneath, CreationInvariant, PTL DEF ListingSpec

-----------------------------------------------------------------------------
(* Batches *)

(* The batch that getByBatch has read has all its rows, whichever request  *)
(* is at work.                                                              *)
LEMMA BatchCount ==
  ASSUME CreateInv, BatchInv, NEW b \in batches
  PROVE  LET I == {w.id : w \in {v \in rows : v.batch = b.id /\ v.owner = Reader}}
         IN  I \in SUBSET Nat /\ Size(I) = IF req[b.id].owner = Reader THEN b.accepted ELSE 0
<1> DEFINE I == {w.id : w \in {v \in rows : v.batch = b.id /\ v.owner = Reader}}
<1>1. /\ b.accepted \in Nat /\ Block(BatchRows(b.id), b.accepted)
      /\ \A w \in BatchRows(b.id) : w.owner = req[b.id].owner
  BY Zenon DEF BatchInv
<1>2. CASE req[b.id].owner = Reader
  <2>1. I = {w.id : w \in BatchRows(b.id)}
    BY Zenon, <1>1, <1>2 DEF BatchRows
  <2>2. PICK m \in Nat : {w.id : w \in BatchRows(b.id)} = (m + 1)..(m + b.accepted)
    BY Zenon, <1>1 DEF Block
  <2>3. /\ (m + 1)..(m + b.accepted) \in SUBSET Nat /\ m + 1 \in Int /\ m + b.accepted \in Int
        /\ (m + 1 > m + b.accepted => b.accepted = 0) /\ (m + b.accepted) - (m + 1) + 1 = b.accepted
    BY <1>1
  <2>4. Size((m + 1)..(m + b.accepted)) = b.accepted
    <3>1. Size((m + 1)..(m + b.accepted))
            = IF m + 1 > m + b.accepted THEN 0 ELSE (m + b.accepted) - (m + 1) + 1
      BY Zenon, <2>3, FS_Interval, SizeIsCardinality
    <3> QED
      BY Zenon, <2>3, <3>1
  <2> HIDE DEF I
  <2> QED
    BY Zenon, <1>2, <2>1, <2>2, <2>3, <2>4 DEF I
<1>3. CASE req[b.id].owner # Reader
  <2>1. I = {}
    BY Zenon, <1>1, <1>3 DEF BatchRows
  <2> QED
    BY Zenon, <1>3, <2>1, FS_EmptySet, SizeIsCardinality
<1> QED
  BY Zenon, <1>2, <1>3

LEMMA DetailStep ==
  ASSUME CreateInv, BatchInv, DetailInv, [ListingNext]_<<vars, listVars>>
  PROVE  DetailInv'
<1>1. CASE [Next]_vars /\ detail' = detail
  BY Zenon, <1>1, BatchesStay DEF DetailInv
<1>2. ASSUME NEW b \in batches, GetBatch(b), UNCHANGED vars PROVE DetailInv'
  BY Zenon, <1>2 DEF GetBatch, DetailInv, vars, dbVars
<1>3. CASE GetBatchItems /\ UNCHANGED vars
  <2>1. PICK b \in batches : detail.batch = b.id /\ detail.accepted = b.accepted
    <3>1. DOMAIN detail = {"batch", "accepted"}
      BY Zenon, <1>3 DEF GetBatchItems
    <3>2. detail # NoDetail
      BY <3>1 DEF NoDetail
    <3>3. PICK b \in batches :
            \/ detail = [batch |-> b.id, accepted |-> b.accepted]
            \/ \E J \in SUBSET Nat : detail = [batch |-> b.id, accepted |-> b.accepted, items |-> J]
      BY ZenonT(30), <3>2 DEF DetailInv
    <3>4. detail.batch = b.id /\ detail.accepted = b.accepted
      BY <3>3
    <3> QED
      BY Zenon, <3>4
  <2> DEFINE I == {w.id : w \in {v \in rows : v.batch = b.id /\ v.owner = Reader}}
  <2>2. I \in SUBSET Nat /\ Size(I) = IF req[b.id].owner = Reader THEN b.accepted ELSE 0
    BY Zenon, BatchCount
  <2>3. detail' = [batch |-> b.id, accepted |-> b.accepted, items |-> I] /\ UNCHANGED <<batches, req>>
    BY Zenon, <1>3, <2>1 DEF GetBatchItems, vars, dbVars
  <2> HIDE DEF I
  <2> QED
    BY Zenon, <2>2, <2>3 DEF DetailInv
<1>4. CASE (BeginWalk \/ ListPage) /\ UNCHANGED vars
  <2>1. detail' = detail
    BY Zenon, <1>4 DEF BeginWalk, ListPage
  <2> QED
    BY Zenon, <1>1, <1>4, <2>1
<1> QED
  BY Zenon, <1>1, <1>2, <1>3, <1>4 DEF ListingNext, listVars

(* The two queries of getByBatch agree although requests commit between    *)
(* them: the owner of the batch gets as many items as the batch has, any   *)
(* other key none (Listing's BatchIsWhole).                                *)
THEOREM BatchesAreWhole == ListingSpec => []BatchIsWhole
<1> DEFINE I == BatchInv /\ DetailInv
<1>1. ListingInit => I
  <2> SUFFICES ASSUME ListingInit PROVE I
    OBVIOUS
  <2>1. rows = {} /\ batches = {} /\ detail = NoDetail
    BY Zenon DEF ListingInit, LInit, Init
  <2>2. \A r \in Requests : pc[r] = "idle" /\ tx[r] = {} /\ BatchRows(r) = {}
    BY Zenon, <2>1 DEF ListingInit, Init, BatchRows
  <2>3. BatchInv
    BY Zenon, <2>1, <2>2 DEF BatchInv
  <2> QED
    BY Zenon, <2>1, <2>3 DEF DetailInv
<1>2. CreateInv /\ I /\ [ListingNext]_<<vars, listVars>> => I'
  <2>1. [ListingNext]_<<vars, listVars>> => [Next]_vars
    BY Zenon DEF ListingNext
  <2> QED
    BY Zenon, <2>1, BatchStep, DetailStep
<1>3. I => BatchIsWhole
  <2> SUFFICES ASSUME DetailInv, "items" \in DOMAIN detail
               PROVE  Size(detail.items) = IF req[detail.batch].owner = Reader THEN detail.accepted ELSE 0
    BY Zenon, BatchIsWholeIs
  <2>1. detail # NoDetail
    BY DEF NoDetail
  <2>2. PICK b \in batches :
          \/ detail = [batch |-> b.id, accepted |-> b.accepted]
          \/ \E J \in SUBSET Nat :
               /\ detail = [batch |-> b.id, accepted |-> b.accepted, items |-> J]
               /\ Size(J) = IF req[b.id].owner = Reader THEN b.accepted ELSE 0
    BY Zenon, <2>1 DEF DetailInv
  <2>3. detail # [batch |-> b.id, accepted |-> b.accepted]
    OBVIOUS
  <2>4. PICK J \in SUBSET Nat :
          /\ detail = [batch |-> b.id, accepted |-> b.accepted, items |-> J]
          /\ Size(J) = IF req[b.id].owner = Reader THEN b.accepted ELSE 0
    BY Zenon, <2>2, <2>3
  <2>5. detail.items = J /\ detail.batch = b.id /\ detail.accepted = b.accepted
    BY Zenon, <2>4
  <2> QED
    BY Zenon, <2>4, <2>5
<1> QED
  BY <1>1, <1>2, <1>3, CreationUnderneath, CreationInvariant, PTL DEF ListingSpec
=============================================================================

------------------------------ MODULE Creation ------------------------------
(***************************************************************************)
(* POST /v1/notifications and POST /v1/notifications/batch: the template   *)
(* is rendered, the Idempotency-Key is claimed in Redis, the rows are      *)
(* inserted in one Postgres transaction, the response is stored under the  *)
(* key (internal/api/notifications.go, notifications_batch.go,             *)
(* internal/idempotency).                                                  *)
(*                                                                         *)
(* A request makes one Redis or Postgres call per step.  Between two steps *)
(* its claim may expire, its client may go away, its process may die and   *)
(* the template may be edited.  The content of a request is what it asks   *)
(* for, and the version of the template it was rendered from (0 if none).  *)
(***************************************************************************)
EXTENDS Naturals, FiniteSets, Faults

CONSTANTS
  NumRequests,       \* requests in a behaviour
  Owners,            \* API keys, whose requests these are
  IdemKeys, NoKey,   \* Idempotency-Keys; the absence of one
  Headers,           \* those of them that requests have
  Asks,              \* what requests ask for
  Passing,           \* by how much now() may have advanced when a transaction begins
  Author,            \* the owner of the template
  Admins,            \* API keys with the admin scope
  SchedulerEnabled,
  MaxBatch,          \* largest number of items of a batch
  MaxVersion,        \* bound on the template's versions
  MaxCancels         \* bound on the number of clients that go away

ASSUME CreationAssumption ==
  /\ NumRequests \in Nat /\ MaxBatch \in Nat /\ MaxVersion \in Nat \ {0} /\ MaxCancels \in Nat
  /\ Headers \subseteq IdemKeys \cup {NoKey} /\ Asks \subseteq {"plain", "later", "templated", "batch"}
  /\ Passing \subseteq Nat
  /\ NoKey \notin IdemKeys /\ Author \in Owners /\ Admins \subseteq Owners /\ SchedulerEnabled \in BOOLEAN

Requests == 1..NumRequests

VARIABLES
  rows,        \* Postgres: notifications
  batches,     \* Postgres: batches, by the request that made them
  outbox,      \* Postgres: ids with an outbox row
  scheduled,   \* Postgres: ids with a scheduled_notifications row
  clock,       \* Postgres: now()
  nextId,      \* the next UUIDv7
  version,     \* Postgres: the template's version
  deprecated,  \* Postgres: the template's deprecated_at is set
  slot,        \* Redis: idem:<owner>:<key>
  pc,          \* where request r is in create or createBatch
  req,         \* r's owner, key, ask, number of valid items, and template version
  tx,          \* r's open transaction: the rows it has inserted
  cancelled,   \* requests whose client has gone away
  answer,      \* the response to r
  before,      \* history: requests answered 201 when r arrived
  lapsed       \* history: a slot has expired or been deleted for a client that went away

dbVars == <<rows, batches, outbox, scheduled, clock, nextId, version, deprecated>>
vars == <<dbVars, slot, pc, req, tx, cancelled, answer, before, lapsed, faults>>

Free == [state |-> "free"]
NoAnswer == [status |-> "none", ids |-> {}]

Answer(status, ids) == [status |-> status, ids |-> ids]

Labels == {"idle", "template", "claim", "get", "insert", "commit", "finalize", "release", "exit", "done"}

Statuses == {"none", "201", "replayed", "conflict", "in flight", "invalid", "error"}

Succeeded(r) == answer[r].status \in {"201", "replayed"}

Ids == 1..(NumRequests * (MaxBatch + 1))

(* The variables have their types; ids are used once. *)
TypeOK ==
  /\ \A w \in rows : w.id \in Ids /\ w.ts <= clock /\ w.owner \in Owners /\ w.key \in IdemKeys \cup {NoKey}
  /\ \A v, w \in rows : v.id = w.id => v = w
  /\ outbox \subseteq Ids /\ scheduled \subseteq Ids
  /\ version \in 1..MaxVersion /\ deprecated \in BOOLEAN
  /\ \A o \in Owners, k \in IdemKeys : slot[<<o, k>>].state \in {"free", "in flight", "final"}
  /\ pc \in [Requests -> Labels]
  /\ \A r \in Requests : answer[r].status \in Statuses /\ answer[r].ids \subseteq Ids
  /\ \A r \in Requests : tx[r] # {} => pc[r] = "commit"
  /\ before \in [Requests -> SUBSET Requests] /\ cancelled \subseteq Requests
  /\ lapsed \in BOOLEAN /\ FaultsTypeOK

Init ==
  /\ rows = {} /\ batches = {} /\ outbox = {} /\ scheduled = {} /\ clock = 0 /\ nextId = 1
  /\ version = 1 /\ deprecated = FALSE
  /\ slot = [s \in Owners \X IdemKeys |-> Free]
  /\ pc = [r \in Requests |-> "idle"]
  /\ req = [r \in Requests |-> [owner |-> Author, key |-> NoKey, ask |-> "plain", items |-> 1, version |-> 0]]
  /\ tx = [r \in Requests |-> {}]
  /\ cancelled = {} /\ lapsed = FALSE
  /\ answer = [r \in Requests |-> NoAnswer]
  /\ before = [r \in Requests |-> {}]
  /\ FaultsInit

Goto(r, l) == pc' = [pc EXCEPT ![r] = l]

(* The handler ends with this response. *)
Finish(r, a) == Goto(r, "done") /\ answer' = [answer EXCEPT ![r] = a]

(* A call under the request's context works, or fails: because of a fault  *)
(* of this kind, or because the client has gone away.                      *)
Works(r) == r \notin cancelled /\ NoFault
Fails(r, kind) == (r \in cancelled /\ NoFault) \/ Fault(kind)

Keyed(r) == req[r].key # NoKey /\ req[r].ask # "batch"
Slot(r) == slot[<<req[r].owner, req[r].key>>]
SetSlot(r, s) == slot' = [slot EXCEPT ![<<req[r].owner, req[r].key>>] = s]

-----------------------------------------------------------------------------
(* Arrival, validation and template. *)

(* A valid request arrives, or a batch with some valid items.  Requests    *)
(* are alike: they arrive in the order of their numbers.                   *)
Arrive(r, o, k, a, n) ==
  /\ pc[r] = "idle" /\ \A q \in 1..(r - 1) : pc[q] # "idle"
  /\ n = 1 \/ a = "batch"
  /\ req' = [req EXCEPT ![r] = [owner |-> o, key |-> k, ask |-> a, items |-> n, version |-> 0]]
  /\ before' = [before EXCEPT ![r] = {q \in Requests : pc[q] = "done" /\ answer[q].status = "201"}]
  /\ IF n = 0 \/ (a = "later" /\ ~SchedulerEnabled)
     THEN Finish(r, Answer("invalid", {}))
     ELSE /\ Goto(r, CASE a = "templated" -> "template"
                       [] a \notin {"templated", "batch"} /\ k # NoKey -> "claim"
                       [] OTHER -> "insert")
          /\ UNCHANGED answer
  /\ NoFault /\ UNCHANGED <<dbVars, slot, tx, cancelled, lapsed>>

MayRender(o) == o = Author \/ o \in Admins

(* The template is read and rendered.  One that is someone else's is not   *)
(* found, but by an admin; one that is deprecated is not accepted.         *)
GetTemplate(r) ==
  /\ pc[r] = "template"
  /\ \/ /\ Works(r)
        /\ IF ~MayRender(req[r].owner) \/ deprecated
           THEN Finish(r, Answer("invalid", {})) /\ UNCHANGED req
           ELSE /\ req' = [req EXCEPT ![r].version = version]
                /\ Goto(r, IF Keyed(r) THEN "claim" ELSE "insert") /\ UNCHANGED answer
     \/ Fails(r, "db") /\ Finish(r, Answer("error", {})) /\ UNCHANGED req
  /\ UNCHANGED <<dbVars, slot, tx, cancelled, before, lapsed>>

-----------------------------------------------------------------------------
(* The Idempotency-Key. *)

(* CanonicalHash of the request, with the rendered content in it. *)
CanonicalHash(r) == <<req[r].ask, req[r].version>>

(* BeginOrReplay: SETNX. *)
Claim(r) ==
  /\ pc[r] = "claim"
  /\ \/ /\ Works(r) /\ UNCHANGED answer
        /\ IF Slot(r).state = "free"
           THEN SetSlot(r, [state |-> "in flight", hash |-> CanonicalHash(r)]) /\ Goto(r, "insert")
           ELSE Goto(r, "get") /\ UNCHANGED slot
     \/ Fails(r, "redis") /\ Finish(r, Answer("error", {})) /\ UNCHANGED slot
  /\ UNCHANGED <<dbVars, req, tx, cancelled, before, lapsed>>

(* What the record found decides. *)
Decided(r, s) ==
  IF s.state = "free" THEN Answer("in flight", {})   \* deleted in between
  ELSE IF s.hash # CanonicalHash(r) THEN Answer("conflict", {})
  ELSE IF s.state = "in flight" THEN Answer("in flight", {})
  ELSE Answer("replayed", s.ids)

(* BeginOrReplay: GET, when there is a record. *)
Get(r) ==
  /\ pc[r] = "get"
  /\ \/ Works(r) /\ Finish(r, Decided(r, Slot(r)))
     \/ Fails(r, "redis") /\ Finish(r, Answer("error", {}))
  /\ UNCHANGED <<dbVars, slot, req, tx, cancelled, before, lapsed>>

(* Mutation of Finalize: the record is written only when there is none. *)
FinalizeNX(r) ==
  /\ pc[r] = "finalize"
  /\ \/ /\ Works(r) /\ Slot(r).state = "free"
        /\ SetSlot(r, [state |-> "final", hash |-> CanonicalHash(r), ids |-> answer[r].ids])
     \/ Works(r) /\ Slot(r).state # "free" /\ UNCHANGED slot
     \/ Fails(r, "redis") /\ UNCHANGED slot
  /\ Goto(r, "exit")
  /\ UNCHANGED <<dbVars, req, tx, cancelled, answer, before, lapsed>>

(* Finalize: SET, whatever the slot holds by now; its failure is ignored. *)
Finalize(r) ==
  /\ pc[r] = "finalize"
  /\ \/ /\ Works(r)
        /\ SetSlot(r, [state |-> "final", hash |-> CanonicalHash(r), ids |-> answer[r].ids])
     \/ Fails(r, "redis") /\ UNCHANGED slot
  /\ Goto(r, "exit")
  /\ UNCHANGED <<dbVars, req, tx, cancelled, answer, before, lapsed>>

(* Release: DEL, whoever's record the slot holds; its failure is ignored. *)
Release(r) ==
  /\ pc[r] = "release"
  /\ \/ Works(r) /\ SetSlot(r, Free)
     \/ Fails(r, "redis") /\ UNCHANGED slot
  /\ Goto(r, "exit")
  /\ UNCHANGED <<dbVars, req, tx, cancelled, answer, before, lapsed>>

(* Mutation of Exit: the deferred function's DEL is sent with the           *)
(* request's own context, which has ended.                                 *)
ExitWithOwnContext(r) ==
  /\ pc[r] = "exit"
  /\ Goto(r, "done")
  /\ NoFault /\ UNCHANGED <<dbVars, slot, req, tx, cancelled, answer, before, lapsed>>

(* The handler returns.  When its client is gone the deferred function     *)
(* deletes the record of the key it had claimed, also a final one.         *)
Exit(r) ==
  /\ pc[r] = "exit"
  /\ \/ /\ r \in cancelled /\ Keyed(r) /\ NoFault
        /\ SetSlot(r, Free) /\ lapsed' = TRUE
     \/ (r \in cancelled /\ Keyed(r)) /\ Fault("redis") /\ UNCHANGED <<slot, lapsed>>
     \/ ~(r \in cancelled /\ Keyed(r)) /\ NoFault /\ UNCHANGED <<slot, lapsed>>
  /\ Goto(r, "done")
  /\ UNCHANGED <<dbVars, req, tx, cancelled, answer, before>>

-----------------------------------------------------------------------------
(* The transaction. *)

(* Mutation of RowKey: the rows are inserted without the key. *)
RowKeyDropped(r) == NoKey

(* The idempotency_key of a row; a batch keeps it in its own table, where *)
(* it is not unique.                                                      *)
RowKey(r) == IF req[r].ask = "batch" THEN NoKey ELSE req[r].key

(* The unique index covers the key alone, not its owner. *)
Taken(r) == RowKey(r) # NoKey /\ \E w \in rows : w.key = RowKey(r)

(* Another transaction has inserted the key and not ended. *)
Waiting(r) == RowKey(r) # NoKey /\ \E q \in Requests : \E w \in tx[q] : w.key = RowKey(r)

(* The rows request r inserts: created_at is the transaction's now(). *)
NewRows(r, t) ==
  {[id |-> nextId + i, ts |-> t, owner |-> req[r].owner, key |-> RowKey(r), ask |-> req[r].ask,
    batch |-> IF req[r].ask = "batch" THEN r ELSE 0, version |-> req[r].version] : i \in 0..(req[r].items - 1)}

(* On an error a keyed request goes on to release its claim. *)
Failed(r) ==
  /\ answer' = [answer EXCEPT ![r] = Answer("error", {})]
  /\ Goto(r, IF Keyed(r) THEN "release" ELSE "exit")

(* Begin, and the inserts, which wait for another holder of the key. *)
Insert(r) ==
  /\ pc[r] = "insert" /\ (~Waiting(r) \/ r \in cancelled)
  /\ \/ /\ Works(r) /\ Taken(r)
        /\ Failed(r) /\ UNCHANGED <<tx, clock, nextId>>
     \/ /\ Works(r) /\ ~Taken(r)
        /\ \E t \in {clock + p : p \in Passing} : clock' = t /\ tx' = [tx EXCEPT ![r] = NewRows(r, t)]
        /\ nextId' = nextId + req[r].items
        /\ Goto(r, "commit") /\ UNCHANGED answer
     \/ /\ Fails(r, "db")
        /\ Failed(r) /\ UNCHANGED <<tx, clock, nextId>>
  /\ UNCHANGED <<rows, batches, outbox, scheduled, version, deprecated, slot, req, cancelled, before, lapsed>>

(* Mutation of Stored: a scheduled notification gets neither row. *)
StoredNoTimer(r) ==
  /\ rows' = rows \cup tx[r]
  /\ batches' = batches \cup {[id |-> r, accepted |-> req[r].items] : w \in {v \in tx[r] : v.batch = r}}
  /\ outbox' = outbox \cup {w.id : w \in {v \in tx[r] : v.ask # "later"}}
  /\ UNCHANGED scheduled

(* The transaction's rows become visible, each with its outbox row or its *)
(* timer.                                                                 *)
Stored(r) ==
  /\ rows' = rows \cup tx[r]
  /\ batches' = batches \cup {[id |-> r, accepted |-> req[r].items] : w \in {v \in tx[r] : v.batch = r}}
  /\ outbox' = outbox \cup {w.id : w \in {v \in tx[r] : v.ask # "later"}}
  /\ scheduled' = scheduled \cup {w.id : w \in {v \in tx[r] : v.ask = "later"}}

(* Mutation of Rollback: none on the way out of an error. *)
RollbackMissing(r) == UNCHANGED tx

(* The deferred Rollback. *)
Rollback(r) == tx' = [tx EXCEPT ![r] = {}]

(* Commit.  One that fails may have taken effect. *)
Commit(r) ==
  /\ pc[r] = "commit"
  /\ \/ /\ Works(r) /\ Stored(r) /\ tx' = [tx EXCEPT ![r] = {}]
        /\ answer' = [answer EXCEPT ![r] = Answer("201", {w.id : w \in tx[r]})]
        /\ Goto(r, IF Keyed(r) THEN "finalize" ELSE "exit")
     \/ /\ Fails(r, "db") /\ Failed(r) /\ Rollback(r)
        /\ Stored(r) \/ UNCHANGED <<rows, batches, outbox, scheduled>>
  /\ UNCHANGED <<clock, nextId, version, deprecated, slot, req, cancelled, before, lapsed>>

-----------------------------------------------------------------------------
(* Around the requests. *)

(* A claim lives 10 s, a final record 24 h. *)
MayExpire(s) == s.state \in {"in flight", "final"}

Expire(o, k) ==
  /\ MayExpire(slot[<<o, k>>])
  /\ slot' = [slot EXCEPT ![<<o, k>>] = Free]
  /\ lapsed' = TRUE
  /\ NoFault /\ UNCHANGED <<dbVars, pc, req, tx, cancelled, answer, before>>

(* The client of a request in progress goes away. *)
Cancel(r) ==
  /\ pc[r] \notin {"idle", "done"} /\ r \notin cancelled
  /\ Cardinality(cancelled) < MaxCancels
  /\ cancelled' = cancelled \cup {r}
  /\ NoFault /\ UNCHANGED <<dbVars, slot, pc, req, tx, answer, before, lapsed>>

(* The process of a request dies; Postgres rolls its transaction back. *)
Crash(r) ==
  /\ pc[r] \notin {"idle", "done"}
  /\ Fault("crash")
  /\ Finish(r, Answer("error", {}))
  /\ tx' = [tx EXCEPT ![r] = {}]
  /\ UNCHANGED <<dbVars, slot, req, cancelled, before, lapsed>>

(* PUT /v1/templates/{id}: a new body and the next version, unless the     *)
(* template is deprecated.                                                 *)
BumpTemplateVersion ==
  /\ ~deprecated /\ version < MaxVersion
  /\ version' = version + 1
  /\ NoFault
  /\ UNCHANGED <<rows, batches, outbox, scheduled, clock, nextId, deprecated, slot, pc, req, tx, cancelled, answer, before, lapsed>>

(* DELETE /v1/templates/{id}. *)
DeprecateTemplate ==
  /\ ~deprecated
  /\ deprecated' = TRUE
  /\ NoFault
  /\ UNCHANGED <<rows, batches, outbox, scheduled, clock, nextId, version, slot, pc, req, tx, cancelled, answer, before, lapsed>>

Step(r) ==
  \/ GetTemplate(r)
  \/ Claim(r)
  \/ Get(r)
  \/ Insert(r)
  \/ Commit(r)
  \/ Finalize(r)
  \/ Release(r)
  \/ Exit(r)

Next ==
  \/ \E r \in Requests, o \in Owners, k \in Headers, a \in Asks, n \in 0..MaxBatch :
       Arrive(r, o, k, a, n)
  \/ \E r \in Requests : Step(r) \/ Cancel(r) \/ Crash(r)
  \/ \E o \in Owners, k \in IdemKeys : Expire(o, k)
  \/ BumpTemplateVersion
  \/ DeprecateTemplate

Spec == Init /\ [][Next]_vars

-----------------------------------------------------------------------------
(* The same request: owner, key and body, as the client sent it. *)
Same(q, r) ==
  /\ req[q].owner = req[r].owner /\ req[q].key = req[r].key /\ req[q].key # NoKey
  /\ req[q].ask = req[r].ask /\ req[q].items = req[r].items

(* Single creates under one key of an owner never lead to two             *)
(* notifications, nor to success answers for two, whatever expires,        *)
(* crashes, is cancelled or fails in between; and what is answered is what *)
(* was asked for.                                                          *)
AnswersAgree ==
  /\ \A v, w \in rows : v.owner = w.owner /\ v.key = w.key /\ v.key # NoKey => v = w
  /\ \A q, r \in Requests :
       (/\ Succeeded(q) /\ Succeeded(r) /\ Keyed(q) /\ Keyed(r)
        /\ req[q].owner = req[r].owner /\ req[q].key = req[r].key)
         => /\ answer[q].ids = answer[r].ids
            /\ req[q].ask = req[r].ask /\ req[q].version = req[r].version

(* Success means that the notifications are stored, each with the row that *)
(* makes the outbox dispatcher or the scheduler pick it up.                *)
AnsweredIsStored ==
  \A r \in Requests : Succeeded(r) =>
    \A i \in answer[r].ids : /\ \E w \in rows : w.id = i /\ w.owner = req[r].owner
                             /\ i \in outbox \cup scheduled

(* A retry of a create that was answered 201 is answered with the same     *)
(* notification, unless a record expired or was deleted for a client that  *)
(* went away, a call failed, or the template has changed since.            *)
RetryReplays ==
  \A r \in Requests : \A q \in before[r] :
    (/\ Same(q, r) /\ Keyed(r) /\ pc[r] = "done"
     /\ ~lapsed /\ faults = 0 /\ cancelled = {}
     /\ req[r].ask = "templated" => version = 1 /\ ~deprecated)
      => answer[r] = Answer("replayed", answer[q].ids)

(* The retry contract of ADR-0006: same key and same body, same response,  *)
(* within the 24 h and without any failure.                                *)
RetryContract ==
  \A r \in Requests : \A q \in before[r] :
    (/\ Same(q, r) /\ pc[r] = "done"
     /\ ~lapsed /\ faults = 0 /\ cancelled = {})
      => answer[r].ids = answer[q].ids

(* Past the claim and not yet returned. *)
HoldsClaim(r) == Keyed(r) /\ pc[r] \in {"insert", "commit", "finalize", "release", "exit"}

(* No claim outlives its request while calls work and processes live: a    *)
(* create that failed, or whose client went away at any point, can be      *)
(* tried again at once instead of after the claim's 10 s.                  *)
ClaimHasHolder ==
  faults = 0 =>
    \A o \in Owners, k \in IdemKeys : slot[<<o, k>>].state = "in flight" =>
      \E r \in Requests : HoldsClaim(r) /\ req[r].owner = o /\ req[r].key = k
=============================================================================

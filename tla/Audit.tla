------------------------------- MODULE Audit --------------------------------
(***************************************************************************)
(* The tamper-evident audit log: admin_audit, its BEFORE INSERT trigger    *)
(* (migrations 0009, 0011, 0012, 0014) and VerifyAuditChain.               *)
(*                                                                         *)
(* A writer is a transaction that inserts one entry.  Postgres evaluates   *)
(* the bigserial default of id before it fires the trigger, so a writer    *)
(* has its id before it waits for the advisory lock; the lock is held to   *)
(* the end of the transaction.  A hash is modelled by the sequence of the  *)
(* ids it covers: two hashes are equal exactly when the contents are.      *)
(***************************************************************************)
EXTENDS Naturals, Sequences, FiniteSets

CONSTANTS Admins,     \* concurrent writers (requests of the admin API)
          MaxAudit    \* bound on the number of ids the sequence hands out

ASSUME AuditAssumption == MaxAudit \in Nat

VARIABLES
  auditSeq,    \* last id handed out by admin_audit_id_seq
  audit,       \* committed rows: id -> [prev_hash, row_hash]
  auditId,     \* the id writer a holds, 0 if none
  auditRow,    \* the row writer a has inserted and not committed yet
  lockedBy,    \* holders of pg_advisory_xact_lock('admin_audit')
  commitOrder  \* history: ids in the order their rows were committed

auditVars == <<auditSeq, audit, auditId, auditRow, lockedBy, commitOrder>>

Hash    == Seq(1..MaxAudit)
Genesis == <<>>
NoRow   == [prev_hash |-> Genesis, row_hash |-> Genesis]

AuditTypeOK ==
  /\ auditSeq \in 0..MaxAudit
  /\ DOMAIN audit \subseteq 1..MaxAudit
  /\ \A i \in DOMAIN audit : audit[i] \in [prev_hash : Hash, row_hash : Hash]
  /\ auditId \in [Admins -> 0..MaxAudit]
  /\ \A a \in Admins : auditRow[a] \in [prev_hash : Hash, row_hash : Hash]
  /\ lockedBy \subseteq Admins
  /\ commitOrder \in Seq(1..MaxAudit)

AuditInit ==
  /\ auditSeq = 0
  /\ audit = [i \in {} |-> NoRow]
  /\ auditId = [a \in Admins |-> 0]
  /\ auditRow = [a \in Admins |-> NoRow]
  /\ lockedBy = {}
  /\ commitOrder = <<>>

(* nextval for the id column of writer a's INSERT. *)
AuditNextId(a) ==
  /\ auditSeq < MaxAudit
  /\ auditSeq' = auditSeq + 1
  /\ auditId' = [auditId EXCEPT ![a] = auditSeq + 1]
  /\ UNCHANGED <<audit, auditRow, lockedBy, commitOrder>>

(* SELECT row_hash ... WHERE id < NEW.id ORDER BY id DESC LIMIT 1, over the *)
(* rows committed by now; none gives the genesis hash.                      *)
LastHash(id) ==
  LET below == {i \in DOMAIN audit : i < id}
  IN  IF below = {} THEN Genesis
      ELSE audit[CHOOSE i \in below : \A j \in below : j <= i].row_hash

(* Mutation of AdvisoryLock: the trigger of migration 0009. *)
NoAdvisoryLock(a) == UNCHANGED lockedBy

(* pg_advisory_xact_lock: waits until no other transaction holds it. *)
AdvisoryLock(a) == lockedBy = {} /\ lockedBy' = {a}

(* The trigger and the INSERT, once the lock is granted. *)
AuditInsert(a) ==
  /\ auditId[a] # 0
  /\ AdvisoryLock(a)
  /\ LET last == LastHash(auditId[a])
     IN  auditRow' = [auditRow EXCEPT ![a] = [prev_hash |-> last,
                                              row_hash |-> Append(last, auditId[a])]]
  /\ UNCHANGED <<auditSeq, audit, auditId, commitOrder>>

EndAuditTx(a) ==
  /\ auditId' = [auditId EXCEPT ![a] = 0]
  /\ auditRow' = [auditRow EXCEPT ![a] = NoRow]
  /\ lockedBy' = lockedBy \ {a}

AuditCommit(a) ==
  /\ audit' = [i \in DOMAIN audit \cup {auditId[a]} |->
                 IF i = auditId[a] THEN auditRow[a] ELSE audit[i]]
  /\ commitOrder' = Append(commitOrder, auditId[a])
  /\ EndAuditTx(a)
  /\ UNCHANGED auditSeq

(* The id is not given back. *)
AuditRollback(a) == EndAuditTx(a) /\ UNCHANGED <<auditSeq, audit, commitOrder>>

(* VerifyAuditChain: rows whose prev_hash is not the row_hash of the row    *)
(* before them (LAG ... ORDER BY id), the first row excepted, or whose      *)
(* row_hash is not the digest of prev_hash and contents.                    *)
VerifyAuditChain ==
  {i \in DOMAIN audit :
     \/ (\E j \in DOMAIN audit : j < i) /\ audit[i].prev_hash # LastHash(i)
     \/ audit[i].row_hash # Append(audit[i].prev_hash, i)}
=============================================================================

------------------------------- MODULE Outbox -------------------------------
(***************************************************************************)
(* The outbox dispatcher (internal/outbox), one per replica: each tick     *)
(* claims a batch of unpublished rows and runs publishRow for each of them *)
(* in turn.  Publish, MarkOutboxPublished, MarkQueued and the calls of     *)
(* markFailure are separate steps.                                         *)
(*                                                                         *)
(* A claim is a timestamp that lapses after ClaimTTL (60 s) even if its    *)
(* dispatcher is alive: a batch of 50 publishes with 5 s confirm timeouts  *)
(* has no such bound.  So a claim may lapse at any time.  claimed_by is    *)
(* written and never tested.                                               *)
(***************************************************************************)
EXTENDS Store, Broker, Faults

CONSTANTS Dispatchers,
          BatchSize,           \* Config.BatchSize
          OutboxMaxAttempts    \* Config.MaxAttempts

ASSUME OutboxAssumption == /\ BatchSize \in Nat \ {0}
                           /\ OutboxMaxAttempts \in Nat \ {0}

VARIABLES
  dpc,     \* the call dispatcher d makes next
  batch,   \* claimed rows not processed yet: <<id, attempt_count as claimed>>
  cur,     \* the row being processed, <<0, 0>> if none
  forgotten \* history: notifications waiting for pickup whose outbox row was
            \* given up with neither dead-letter write done

outboxVars == <<dpc, batch, cur, forgotten>>

DispatcherLabels == {"ready", "mark", "markQueued", "markFailed",
                     "giveUp", "giveUpInsert", "giveUpMark"}

Claim == (0..MaxOutbox) \X Nat

OutboxTypeOK ==
  /\ dpc \in [Dispatchers -> DispatcherLabels]
  /\ batch \in [Dispatchers -> SUBSET (OutboxIds \X Nat)]
  /\ cur \in [Dispatchers -> Claim]
  /\ forgotten \subseteq Notifs

OutboxInit ==
  /\ dpc = [d \in Dispatchers |-> "ready"]
  /\ batch = [d \in Dispatchers |-> {}]
  /\ cur = [d \in Dispatchers |-> <<0, 0>>]
  /\ forgotten = {}

DGoto(d, from, to) ==
  /\ dpc[d] = from
  /\ dpc' = [dpc EXCEPT ![d] = to]

(* publishRow is done with its row. *)
DDone(d, from) ==
  /\ DGoto(d, from, "ready")
  /\ cur' = [cur EXCEPT ![d] = <<0, 0>>]

CurNotif(d) == outbox[cur[d][1]].notif

-----------------------------------------------------------------------------
(* ClaimOutboxBatch: the oldest BatchSize rows nobody holds a claim on. *)
Claimable == {i \in Unpublished : ~outbox[i].claimed}

Oldest(S, k) == {i \in S : Cardinality({j \in S : j < i}) < k}

(* tick: the claim itself can fail after it took effect; the rows then wait *)
(* for the claim to lapse.                                                  *)
ClaimOutboxBatch(d) ==
  LET S == Oldest(Claimable, BatchSize) IN
  /\ dpc[d] = "ready" /\ batch[d] = {}
  /\ S # {}
  /\ outbox' = [i \in OutboxIds |-> IF i \in S THEN [outbox[i] EXCEPT !.claimed = TRUE]
                                               ELSE outbox[i]]
  /\ \/ NoFault /\ batch' = [batch EXCEPT ![d] = {<<i, outbox[i].attempts>> : i \in S}]
     \/ Fault("db") /\ UNCHANGED batch
  /\ UNCHANGED <<dpc, cur, forgotten, rowVars, deliveryAttempts, deadLetters, brokerVars>>

(* publishRow: Publish with confirm.  A confirm that does not arrive leaves *)
(* it open whether the message was enqueued.                                *)
PublishRow(d) ==
  \E c \in batch[d] :
    /\ batch' = [batch EXCEPT ![d] = @ \ {c}]
    /\ cur' = [cur EXCEPT ![d] = c]
    /\ \/ /\ DGoto(d, "ready", "mark")
          /\ NoFault
          /\ Enqueue(<<outbox[c[1]].notif, 0>>)
       \/ /\ DGoto(d, "ready", IF c[2] + 1 >= OutboxMaxAttempts THEN "giveUp" ELSE "markFailed")
          /\ Fault("publish")
          /\ Enqueue(<<outbox[c[1]].notif, 0>>) \/ UNCHANGED mainQ
    /\ UNCHANGED <<storeVars, waitQ, dlq, forgotten>>

(* On error return before MarkQueued: the row is claimed again later.       *)
MarkPublished(d) ==
  /\ \/ /\ DGoto(d, "mark", "markQueued")
        /\ NoFault
        /\ MarkOutboxPublished(cur[d][1])
        /\ UNCHANGED cur
     \/ /\ DDone(d, "mark")
        /\ Fault("db")
        /\ MarkOutboxPublished(cur[d][1]) \/ UNCHANGED outbox
  /\ UNCHANGED <<batch, forgotten, rowVars, deliveryAttempts, deadLetters, brokerVars>>

MarkRowQueued(d) ==
  /\ DDone(d, "markQueued")
  /\ \/ NoFault /\ MarkQueued(CurNotif(d))
     \/ Fault("db") /\ UNCHANGED rowVars
  /\ UNCHANGED <<batch, forgotten, deliveryAttempts, deadLetters, outbox, brokerVars>>

(* markFailure with attempts left: attempt_count + 1, claim cleared. *)
MarkRowFailed(d) ==
  /\ DDone(d, "markFailed")
  /\ \/ NoFault /\ MarkOutboxFailed(cur[d][1])
     \/ Fault("db") /\ UNCHANGED outbox
  /\ UNCHANGED <<batch, forgotten, rowVars, deliveryAttempts, deadLetters, brokerVars>>

(* markFailure at MaxAttempts: MarkDeadLetter, InsertDeadLetter and         *)
(* MarkOutboxPublished, each best effort.                                   *)
GiveUp(d) ==
  /\ DGoto(d, "giveUp", "giveUpInsert")
  /\ \/ NoFault /\ MarkDeadLetter(CurNotif(d))
     \/ Fault("db") /\ UNCHANGED rowVars
  /\ UNCHANGED <<batch, cur, forgotten, deliveryAttempts, deadLetters, outbox, brokerVars>>

GiveUpInsert(d) ==
  /\ DGoto(d, "giveUpInsert", "giveUpMark")
  /\ \/ NoFault /\ InsertDeadLetter(CurNotif(d))
     \/ Fault("db") /\ UNCHANGED deadLetters
  /\ UNCHANGED <<batch, cur, forgotten, rowVars, deliveryAttempts, outbox, brokerVars>>

GiveUpMark(d) ==
  /\ DDone(d, "giveUpMark")
  /\ \/ NoFault /\ MarkOutboxPublished(cur[d][1])
        /\ forgotten' = IF Pickable(CurNotif(d)) /\ CurNotif(d) \notin deadLetters
                        THEN forgotten \cup {CurNotif(d)} ELSE forgotten
     \/ Fault("db") /\ UNCHANGED <<outbox, forgotten>>
  /\ UNCHANGED <<batch, rowVars, deliveryAttempts, deadLetters, brokerVars>>

(* claimed_at + ClaimTTL passes. *)
ClaimLapse(i) ==
  /\ i \in Unpublished
  /\ outbox[i].claimed
  /\ outbox' = [outbox EXCEPT ![i].claimed = FALSE]
  /\ NoFault
  /\ UNCHANGED <<outboxVars, rowVars, deliveryAttempts, deadLetters, brokerVars>>

(* The process dies, or its context is cancelled (main.go runs dispatcher   *)
(* and consumers in one errgroup) so that every call it has still to make   *)
(* fails: its claims stay until they lapse.                                 *)
DispatcherCrash(d) ==
  /\ dpc[d] # "ready" \/ batch[d] # {}
  /\ \E k \in {"crash", "shutdown", "conn"} : Fault(k)
  /\ dpc' = [dpc EXCEPT ![d] = "ready"]
  /\ batch' = [batch EXCEPT ![d] = {}]
  /\ cur' = [cur EXCEPT ![d] = <<0, 0>>]
  /\ UNCHANGED <<forgotten, storeVars, brokerVars>>

DispatcherStep(d) ==
  \/ ClaimOutboxBatch(d) \/ PublishRow(d) \/ MarkPublished(d) \/ MarkRowQueued(d)
  \/ MarkRowFailed(d) \/ GiveUp(d) \/ GiveUpInsert(d) \/ GiveUpMark(d)

OutboxNext ==
  \/ \E d \in Dispatchers : DispatcherStep(d) \/ DispatcherCrash(d)
  \/ \E i \in OutboxIds : ClaimLapse(i)
=============================================================================

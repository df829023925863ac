--------------------------- MODULE OutcomeProofs ----------------------------
(***************************************************************************)
(* What the delivery path guarantees when some kinds of fault do not       *)
(* happen, and what a fault can cost.  Each theorem names the faults it    *)
(* excludes.                                                               *)
(*                                                                         *)
(* A step is a call of a handler, the death of a worker, or quiet: owners  *)
(* stay where they are, and rows change only as dispatchers, sweeper and   *)
(* API change them.                                                        *)
(***************************************************************************)
EXTENDS DeliveryProofs

USE DEF rowVars, storeVars, brokerVars, deliveryVars, workerVars, observedVars, outboxVars

-----------------------------------------------------------------------------
(* Workers between two steps *)

(* A busy worker has just been handed a message, or has the delivery it had *)
(* and either stands still, with or without its connection, or makes a      *)
(* call.                                                                    *)
LEMMA WorkerGoesOn ==
  ASSUME TypeInv, [Next]_vars, NEW v \in Workers, Busy(v)'
  PROVE  \/ /\ pc[v] = "idle" /\ unacked'[v]
            /\ \E m \in Message :
                 /\ mainQ[m] > 0 /\ job'[v] = m[1] /\ redel'[v] = m[2]
                 /\ \/ pc'[v] = "cas" /\ ret'[v] = "nil"
                    \/ pc'[v] = "settle" /\ ret'[v] = "terminal" /\ CapReached(m)
         \/ /\ Busy(v) /\ job'[v] = job[v] /\ redel'[v] = redel[v]
            /\ \/ unacked'[v] = unacked[v]
               \/ "conn" \in FaultKinds /\ ~unacked'[v] /\ faults' = faults + 1
            /\ (pc'[v] = pc[v] /\ ret'[v] = ret[v]) \/ (HandlerStep(v) /\ ~Settle(v))
<1> DEFINE Kept == Busy(v) /\ job'[v] = job[v] /\ redel'[v] = redel[v] /\ unacked'[v] = unacked[v]
           Still == pc'[v] = pc[v] /\ ret'[v] = ret[v]
<1>t. ControlOK
  BY TypeParts
<1>0. ASSUME UNCHANGED <<pc, job, redel, unacked, ret>>
      PROVE  Kept /\ Still
  BY Zenon, <1>0 DEF Busy
<1>1. ASSUME NEW w \in Workers, HandlerStep(w), ~Settle(w)
      PROVE  Kept /\ (Still \/ v = w)
  BY Zenon, <1>t, <1>1, HandlerControl DEF Control, ControlOK, Busy
<1>2. ASSUME NEW w \in Workers, Settle(w) \/ WorkerCrash(w)
      PROVE  Kept /\ Still
  BY Zenon, <1>t, <1>2 DEF Settle, WorkerCrash, Reset, ControlOK, Busy
<1>3. ASSUME NEW w \in Workers, Deliver(w), v # w
      PROVE  Kept /\ Still
  <2>1. PICK m \in Message : Deliver(w)!(m)
    BY Zenon, <1>3 DEF Deliver
  <2> QED
    BY <1>t, <1>3, <2>1 DEF ControlOK, Goto, Returns, Busy
<1>4. ASSUME Deliver(v)
      PROVE  /\ pc[v] = "idle" /\ unacked'[v]
             /\ \E m \in Message :
                  /\ mainQ[m] > 0 /\ job'[v] = m[1] /\ redel'[v] = m[2]
                  /\ \/ pc'[v] = "cas" /\ ret'[v] = "nil"
                     \/ pc'[v] = "settle" /\ ret'[v] = "terminal" /\ CapReached(m)
  <2>1. PICK m \in Message : Deliver(v)!(m)
    BY Zenon, <1>4 DEF Deliver
  <2>2. /\ mainQ[m] > 0 /\ job'[v] = m[1] /\ redel'[v] = m[2] /\ pc[v] = "idle" /\ unacked'[v]
        /\ \/ pc'[v] = "cas" /\ ret'[v] = "nil"
           \/ pc'[v] = "settle" /\ ret'[v] = "terminal" /\ CapReached(m)
    BY Zenon, <1>t, <2>1 DEF ControlOK, Goto, Returns, Dequeue
  <2> QED
    BY Zenon, <2>2
<1>5. ASSUME NEW w \in Workers, ConnectionLost(w)
      PROVE  /\ Busy(v) /\ job'[v] = job[v] /\ redel'[v] = redel[v] /\ Still
             /\ \/ unacked'[v] = unacked[v]
                \/ "conn" \in FaultKinds /\ ~unacked'[v] /\ faults' = faults + 1
  BY <1>t, <1>5 DEF ConnectionLost, Fault, ControlOK, Busy
<1>6. CASE Tick \/ \E w \in Workers : Shutdown(w)
  BY Zenon, <1>0, <1>6 DEF Tick, Shutdown
<1>7. CASE \/ OutboxNext /\ UNCHANGED <<workerVars, lockTTL, observedVars>>
           \/ \E n \in Notifs : Create(n) \/ Cancel(n)
           \/ Sweep
           \/ \E m \in Message : WaitTierExpires(m)
           \/ UNCHANGED vars
  BY Zenon, <1>0, <1>7 DEF Create, Cancel, Sweep, WaitTierExpires, nonStoreVars, vars
<1>8. CASE WorkerNext
  BY Zenon, <1>1, <1>2, <1>3, <1>4, <1>5, <1>6, <1>8 DEF WorkerNext
<1> QED
  BY Zenon, <1>7, <1>8 DEF Next

-----------------------------------------------------------------------------
(* Deadlines and connections *)

(* The context of a worker that has its connection is done only after a     *)
(* slow call or a shutdown.                                                 *)
LEMMA TimelyStep ==
  ASSUME TypeInv, Timely, [Next]_vars, FaultKinds \cap {"slow", "shutdown"} = {}
  PROVE  Timely'
<1>t. ControlOK
  BY TypeParts
<1> USE DEF Timely, Busy
<1>0. ASSUME UNCHANGED <<pc, left, unacked>>
      PROVE  Timely'
  BY <1>0
<1>1. ASSUME NEW w \in Workers, HandlerStep(w) /\ ~Settle(w)
      PROVE  Timely'
  BY <1>t, <1>1, HandlerControl DEF Control, ControlOK
<1>2. ASSUME NEW w \in Workers, Settle(w) \/ WorkerCrash(w)
      PROVE  Timely'
  BY <1>t, <1>2 DEF Settle, WorkerCrash, Reset, ControlOK
<1>3. ASSUME NEW w \in Workers, Deliver(w)
      PROVE  Timely'
  <2>1. PICK m \in Message : Deliver(w)!(m)
    BY Zenon, <1>3 DEF Deliver
  <2> QED
    BY <1>t, <2>1, WorkerAssumption DEF ControlOK, Goto
<1>4. ASSUME NEW w \in Workers, ConnectionLost(w) \/ Shutdown(w)
      PROVE  Timely'
  BY <1>t, <1>4 DEF ConnectionLost, Shutdown, Fault, ControlOK
<1>5. CASE Tick
  <2>1. \A w \in Workers : pc[w] # "idle" => left[w] # 1
    BY Zenon, <1>5 DEF Tick, Fault
  <2> QED
    BY <1>t, <1>5, <2>1 DEF Tick, ControlOK
<1>6. CASE \/ OutboxNext /\ UNCHANGED <<workerVars, lockTTL, observedVars>>
           \/ \E n \in Notifs : Create(n) \/ Cancel(n)
           \/ Sweep
           \/ \E m \in Message : WaitTierExpires(m)
           \/ UNCHANGED vars
  BY <1>0, <1>6 DEF Create, Cancel, Sweep, WaitTierExpires, nonStoreVars, vars
<1> QED
  BY <1>1, <1>2, <1>3, <1>4, <1>5, <1>6 DEF Next, WorkerNext

LEMMA TimelyInvariant ==
  ASSUME FaultKinds \cap {"slow", "shutdown"} = {}
  PROVE  Spec => []Timely
<1>1. Init => Timely
  BY DEF Init, WorkerInit, Timely, Busy
<1> QED
  BY <1>1, TimelyStep, TypeCorrect, PTL DEF Spec

(* A busy worker has its connection until that is lost. *)
LEMMA ConnectedStep ==
  ASSUME TypeInv, Connected, [Next]_vars, "conn" \notin FaultKinds
  PROVE  Connected'
<1> SUFFICES ASSUME NEW v \in Workers, Busy(v)'
             PROVE  unacked'[v]
  BY Zenon DEF Connected
<1> QED
  BY WorkerGoesOn DEF Connected, Control

LEMMA ConnectedInvariant ==
  ASSUME "conn" \notin FaultKinds
  PROVE  Spec => []Connected
<1>1. Init => Connected
  BY DEF Init, WorkerInit, Connected, Busy
<1> QED
  BY <1>1, ConnectedStep, TypeCorrect, PTL DEF Spec

(* Then no handler's context is done. *)
LEMMA LiveContext ==
  ASSUME TypeInv, Timely, Connected, NEW w \in Workers, Busy(w)
  PROVE  ~CtxDone(w)
BY TypeParts DEF Timely, Connected, CtxDone, ControlOK

-----------------------------------------------------------------------------
(* Handlers whose statements succeed *)

(* The calls that leave the row alone. *)
CallEdges ==
  {<<"cas", "settle">>, <<"setnx", "take">>, <<"setnx", "defer">>, <<"setnx", "bounce">>,
   <<"take", "send">>, <<"take", "revertNA">>, <<"take", "unlock">>,
   <<"send", "inCall">>, <<"send", "revertNA">>,
   <<"inCall", "recordOk">>, <<"inCall", "recordRetry">>, <<"inCall", "recordDead">>,
   <<"recordOk", "markSent">>, <<"recordRetry", "revert">>, <<"recordDead", "markDead">>,
   <<"route", "unlock">>, <<"insertDead", "unlock">>,
   <<"unlock", "bounce">>, <<"unlock", "settle">>, <<"bounce", "settle">>}

(* What a handler's call does to its row when no statement fails. *)
CleanCall(w, n) ==
  \/ <<pc[w], pc'[w]>> \in CallEdges /\ status' = status
  \/ pc[w] = "cas" /\ pc'[w] = "setnx" /\ Pickable(n) /\ status'[n] = "sending"
  \/ /\ <<pc[w], pc'[w]>> \in {<<"defer", "settle">>, <<"revert", "route">>,
                                <<"revertNA", "route">>, <<"undo", "unlock">>}
     /\ IF status[n] = "sending" THEN status'[n] = "queued" ELSE status'[n] = status[n]
  \/ pc[w] = "markDead" /\ pc'[w] = "insertDead" /\ status'[n] = "dead_letter"
  \/ pc[w] = "markSent" /\ pc'[w] = "unlock" /\ status'[n] = "sent"
  \/ pc[w] = "markSent" /\ pc'[w] = "undo" /\ status[n] = "dead_letter" /\ status' = status

(* That is all a handler does without database faults while its context is  *)
(* live.                                                                    *)
LEMMA CleanHandler ==
  ASSUME TypeInv, OwnInv, "db" \notin FaultKinds,
         NEW w \in Workers, HandlerStep(w), ~Settle(w), ~CtxDone(w)
  PROVE  CleanCall(w, job[w])
<1> DEFINE n == job[w]
<1>t. pc \in [Workers -> Labels] /\ RowTypeOK
  BY TypeParts DEF ControlOK
<1>l. n \in Notifs
  BY HandlerLocal
<1>d. ~CallFails(w, "db") /\ ~CallLost(w, "db")
  BY DEF CallFails, CallLost, Fault
<1>h. Owns(w) => Held(n, w)
  BY DEF OwnInv
<1> HIDE DEF n
<1> SUFFICES CleanCall(w, n)
  BY DEF n
<1>1. CASE CASHit(w)
  <2>1. pc[w] = "cas" /\ pc'[w] = "setnx" /\ MarkSendingCAS(n)
    BY Zenon, <1>t, <1>1 DEF CASHit, Goto, n
  <2>2. status'[n] = "sending" /\ Pickable(n)
    BY <1>t, <1>l, <2>1, RowQueryLocal DEF RowQuery, MarkSendingCAS
  <2> QED
    BY <2>1, <2>2 DEF CleanCall
<1>2. CASE CASMiss(w) \/ AcquireLock(w) \/ LockHeld(w) \/ SetNXError(w)
           \/ TakeAllowed(w) \/ TakeThrottled(w) \/ TakeError(w)
  BY Zenon, <1>t, <1>2 DEF CASMiss, AcquireLock, LockHeld, SetNXError, TakeAllowed, TakeThrottled,
     TakeError, Goto, CleanCall, CallEdges
<1>3. CASE StartCall(w) \/ BreakerOpen(w) \/ CallSucceeds(w) \/ CallFailsRetryable(w)
           \/ CallFailsTerminal(w)
  BY Zenon, <1>t, <1>3 DEF StartCall, BreakerOpen, CallSucceeds, CallFailsRetryable, CallFailsTerminal,
     AfterFailure, Goto, CleanCall, CallEdges
<1>4. CASE RecordAttempt(w) \/ routeToRetryTier(w) \/ TerminalInsert(w) \/ Unlock(w)
           \/ requeueViaWaitTier(w)
  BY Zenon, <1>t, <1>4 DEF RecordAttempt, routeToRetryTier, TerminalInsert, Unlock, requeueViaWaitTier,
     Goto, CleanCall, CallEdges
<1>5. CASE DeferToHolder(w) \/ RevertForRetry(w) \/ UndoAfterMarkSent(w)
  <2>1. /\ RevertToQueuedNoAttempt(n) \/ RevertToQueued(n)
        /\ <<pc[w], pc'[w]>> \in {<<"defer", "settle">>, <<"revert", "route">>,
                                 <<"revertNA", "route">>, <<"undo", "unlock">>}
    BY <1>t, <1>d, <1>5 DEF DeferToHolder, RevertForRetry, UndoAfterMarkSent, Goto, n
  <2>2. IF status[n] = "sending" THEN status'[n] = "queued" ELSE status'[n] = status[n]
    BY <1>t, <1>l, <2>1 DEF RevertToQueuedNoAttempt, RevertToQueued, IsSending, SetStatus, RowTypeOK
  <2> QED
    BY <2>1, <2>2 DEF CleanCall
<1>6. CASE TerminalMark(w)
  <2>1. pc[w] = "markDead" /\ pc'[w] = "insertDead" /\ MarkDeadLetter(n)
    BY Zenon, <1>t, <1>d, <1>6 DEF TerminalMark, Goto, n
  <2>2. status[n] # "sent"
    BY <1>h, <2>1 DEF Owns, OwningLabels, Held
  <2>3. status'[n] = "dead_letter"
    BY <1>t, <1>l, <2>1, <2>2 DEF MarkDeadLetter, SetStatus, RowTypeOK
  <2> QED
    BY <2>1, <2>3 DEF CleanCall
<1>7. CASE MarkSentOk(w)
  <2>1. pc[w] = "markSent" /\ pc'[w] = "unlock" /\ MarkSent(n)
    BY Zenon, <1>t, <1>7 DEF MarkSentOk, Goto, n
  <2>2. status'[n] = "sent"
    BY Zenon, <1>t, <1>l, <2>1, RowQueryLocal DEF RowQuery
  <2> QED
    BY <2>1, <2>2 DEF CleanCall
<1>8. CASE MarkSentError(w)
  <2>1. pc[w] = "markSent" /\ pc'[w] = "undo" /\ ~IsSending(n) /\ UNCHANGED rowVars
    BY Zenon, <1>t, <1>d, <1>8 DEF MarkSentError, Goto, n
  <2>2. status[n] = "dead_letter"
    BY <1>h, <2>1 DEF Owns, OwningLabels, Held, IsSending
  <2> QED
    BY <2>1, <2>2 DEF CleanCall
<1> QED
  BY Zenon, <1>d, <1>1, <1>2, <1>3, <1>4, <1>5, <1>6, <1>7, <1>8
     DEF HandlerStep, CASError, SendCancelled

-----------------------------------------------------------------------------
(* A 'sending' row has its owner *)

(* Every exit of a handler takes its row out of 'sending'. *)
LEMMA OwnedStep ==
  ASSUME TypeInv, OwnInv, Timely, Connected, OwnedInv, [Next]_vars,
         FaultKinds \cap {"crash", "db", "redis"} = {}
  PROVE  OwnedInv'
<1>1. ASSUME NEW w \in Workers, HandlerStep(w), ~Settle(w)
      PROVE  OwnedInv'
  <2>l. /\ job' = job /\ \A v \in Workers \ {w} : pc'[v] = pc[v]
        /\ \A k \in Notifs \ {job[w]} : status'[k] = status[k]
    BY <1>1, HandlerLocal DEF RowStays
  <2>b. ~CtxDone(w)
    BY Zenon, <1>1, HandlerControl, LiveContext DEF Control
  <2>c. CleanCall(w, job[w])
    BY Zenon, <1>1, <2>b, CleanHandler
  <2>r. <<pc[w], pc'[w]>> \notin {<<"setnx", "bounce">>, <<"take", "unlock">>}
    <3>1. ~CallFails(w, "redis") /\ ~CallLost(w, "redis")
      BY <2>b DEF CallFails, CallLost, Fault
    <3>2. pc \in [Workers -> Labels]
      BY TypeParts DEF ControlOK
    <3> QED
      BY Zenon, <1>1, <3>1, <3>2 DEF HandlerStep, CASHit, CASMiss, CASError, AcquireLock, LockHeld,
         SetNXError, DeferToHolder, TakeAllowed, TakeThrottled, TakeError, StartCall, BreakerOpen,
         SendCancelled, CallSucceeds, CallFailsRetryable, CallFailsTerminal, RecordAttempt,
         RevertForRetry, routeToRetryTier, TerminalMark, TerminalInsert, MarkSentOk,
         MarkSentError, UndoAfterMarkSent, Unlock, requeueViaWaitTier, Goto, AfterFailure
  <2>1. ASSUME NEW n \in Notifs, IsSending(n)', n # job[w]
        PROVE  \E v \in Workers : Owns(v)' /\ job'[v] = n
    <3>1. PICK v \in Workers : Owns(v) /\ job[v] = n
      BY Zenon, <2>l, <2>1 DEF OwnedInv, IsSending
    <3> QED
      BY <2>l, <2>1, <3>1 DEF Owns
  <2>2. ASSUME job[w] \in Notifs, IsSending(job[w])', ~Owns(w)'
        PROVE  IsSending(job[w]) /\ ~Owns(w)
    BY Zenon, <2>c, <2>l, <2>r, <2>2 DEF CleanCall, CallEdges, Owns, OwningLabels, IsSending
  <2>3. ASSUME job[w] \in Notifs, IsSending(job[w])'
        PROVE  \E v \in Workers : Owns(v)' /\ job'[v] = job[w]
    <3>1. CASE Owns(w)'
      BY <2>l, <3>1
    <3>2. CASE ~Owns(w)'
      <4>1. PICK v \in Workers : Owns(v) /\ job[v] = job[w]
        BY Zenon, <2>2, <2>3, <2>l, <3>2 DEF OwnedInv, IsSending
      <4>2. v # w
        BY <2>2, <2>3, <2>l, <3>2, <4>1 DEF IsSending
      <4> QED
        BY <2>l, <4>1, <4>2 DEF Owns
    <3> QED
      BY <3>1, <3>2
  <2> QED
    BY Zenon, <2>l, <2>1, <2>3 DEF OwnedInv, IsSending
<1>2. CASE Quiet
  <2>1. ASSUME NEW n \in Notifs, IsSending(n)'
        PROVE  \E v \in Workers : Owns(v)' /\ job'[v] = n
    <3>1. IsSending(n)
      BY <1>2, <2>1 DEF Quiet, QuietRow, IsSending
    <3>2. PICK v \in Workers : Owns(v) /\ job[v] = n
      BY <3>1 DEF OwnedInv
    <3>3. pc'[v] = pc[v] /\ job'[v] = job[v]
      BY <1>2, <3>2 DEF Quiet, QuietWorker, Owns, OwningLabels
    <3> QED
      BY <3>2, <3>3 DEF Owns
  <2> QED
    BY <2>1 DEF OwnedInv
<1>3. ASSUME NEW w \in Workers
      PROVE  ~WorkerCrash(w)
  BY DEF WorkerCrash, Fault
<1> QED
  BY Zenon, <1>1, <1>2, <1>3, StepKinds

(* A row is 'sending' only while a worker works on it, unless a process     *)
(* dies or is shut down, loses its connection, a call outlasts the          *)
(* deadline, or Postgres or Redis return an error: lost publishes, a failed *)
(* DEL and lost provider answers, however many, leave no row for the        *)
(* sweeper.                                                                 *)
THEOREM SendingIsOwned ==
  ASSUME FaultKinds \subseteq {"publish", "unlock", "provider"}
  PROVE  Spec => []NoOrphanedSending
<1>k. /\ FaultKinds \cap {"crash", "db", "redis"} = {} /\ "conn" \notin FaultKinds
      /\ FaultKinds \cap {"slow", "shutdown"} = {}
  OBVIOUS
<1>1. Init => OwnedInv
  BY DEF Init, StoreInit, OwnedInv, IsSending
<1>2. TypeInv /\ OwnInv /\ Timely /\ Connected /\ OwnedInv /\ [Next]_vars => OwnedInv'
  BY <1>k, OwnedStep
<1>3. OwnedInv => NoOrphanedSending
  BY DEF OwnedInv, NoOrphanedSending, Owns, OwningLabels, Busy
<1>4. (Spec => []Timely) /\ (Spec => []Connected)
  BY <1>k, TimelyInvariant, ConnectedInvariant
<1> QED
  BY <1>1, <1>2, <1>3, <1>4, TypeCorrect, OwnInvariant, PTL DEF Spec

-----------------------------------------------------------------------------
(* At most one accepted request *)

(* What a handler's call adds to what the provider accepted. *)
LEMMA HandlerAccepts ==
  ASSUME TypeInv, "provider" \notin FaultKinds, NEW w \in Workers, HandlerStep(w), ~Settle(w)
  PROVE  \/ accepted' = accepted
         \/ /\ pc[w] = "inCall" /\ pc'[w] = "recordOk"
            /\ accepted' = [accepted EXCEPT ![job[w]] = @ + 1]
<1>t. pc \in [Workers -> Labels]
  BY TypeParts DEF ControlOK
<1>1. CASE CallSucceeds(w)
  BY Zenon, <1>t, <1>1 DEF CallSucceeds, Goto
<1>2. CASE CallFailsRetryable(w)
  BY <1>2 DEF CallFailsRetryable, Fault
<1> QED
  BY Zenon, <1>1, <1>2 DEF HandlerStep, CASHit, CASMiss, CASError, AcquireLock, LockHeld, SetNXError,
     DeferToHolder, TakeAllowed, TakeThrottled, TakeError, StartCall, BreakerOpen, SendCancelled,
     CallFailsTerminal, RecordAttempt, RevertForRetry, routeToRetryTier, TerminalMark,
     TerminalInsert, MarkSentOk, MarkSentError, UndoAfterMarkSent, Unlock, requeueViaWaitTier

(* A row whose request was accepted is not picked up again, and a row that  *)
(* is picked up has no accepted request.                                    *)
LEMMA AcceptStep ==
  ASSUME TypeInv, OwnInv, Timely, Connected, AcceptInv, [Next]_vars,
         FaultKinds \cap {"crash", "db", "provider"} = {}
  PROVE  AcceptInv'
<1>t. accepted \in [Notifs -> Nat] /\ pc \in [Workers -> Labels]
  BY TypeParts DEF EffectOK, ControlOK
<1> USE DEF AnsweredLabels
<1> DEFINE Waits(w, n) == pc[w] \in AnsweredLabels /\ job[w] = n
<1>p. ASSUME NEW n \in Notifs, Pickable(n)
      PROVE  accepted[n] = 0
  <2>1. ASSUME NEW v \in Workers, Waits(v, n)
        PROVE  FALSE
    BY Zenon, <1>p, <2>1 DEF OwnInv, Owns, OwningLabels, Held, Pickable
  <2> QED
    BY <1>t, <1>p, <2>1 DEF AcceptInv, Pickable
<1>1. ASSUME NEW w \in Workers, HandlerStep(w), ~Settle(w)
      PROVE  AcceptInv'
  <2> DEFINE n == job[w]
  <2>l. /\ job' = job /\ n \in Notifs /\ n' = n /\ \A v \in Workers \ {w} : pc'[v] = pc[v]
        /\ \A k \in Notifs \ {n} : status'[k] = status[k]
    BY <1>1, HandlerLocal DEF RowStays
  <2>b. ~CtxDone(w)
    BY Zenon, <1>1, HandlerControl, LiveContext DEF Control
  <2>c. CleanCall(w, n)
    BY Zenon, <1>1, <2>b, CleanHandler
  <2>a. \/ accepted' = accepted
        \/ /\ pc[w] = "inCall" /\ pc'[w] = "recordOk"
           /\ accepted' = [accepted EXCEPT ![n] = @ + 1]
    BY Zenon, <1>1, HandlerAccepts
  <2>o. \A v \in Workers : v # w /\ Owns(v) /\ Owns(w) => job[v] # n
    BY DEF OwnInv, SoleOwner
  <2>s. \A v \in Workers : pc[v] \in UnacceptedLabels \cup {"recordOk", "markSent", "undo"} => Owns(v)
    BY Zenon DEF UnacceptedLabels, Owns, OwningLabels
  <2>f. /\ pc[w] \in UnacceptedLabels => accepted[n] = 0
        /\ pc[w] = "undo" => status[n] # "sending"
        /\ accepted[n] \in Nat
        /\ accepted[n] > 0 => status[n] \in {"sent", "dead_letter"} \/ \E v \in Workers : Waits(v, n)
    BY Zenon, <1>t, <2>l DEF AcceptInv, IsSending
  <2> HIDE DEF n
  <2>1. accepted'[n] <= 1 /\ \A k \in Notifs \ {n} : accepted'[k] = accepted[k]
    BY <1>t, <2>l, <2>a, <2>f DEF AcceptInv, AcceptedOnce, UnacceptedLabels
  <2>2. accepted'[n] > 0 => \/ status'[n] \in {"sent", "dead_letter"}
                           \/ \E v \in Workers : Waits(v, n)'
    <3>1. CASE pc'[w] \in {"recordOk", "markSent"}
      BY <2>l, <3>1 DEF n
    <3>2. CASE pc'[w] \notin {"recordOk", "markSent"} /\ accepted[n] > 0
      <4>1. accepted' = accepted /\ pc[w] \notin UnacceptedLabels
        BY <2>a, <2>f, <3>2
      <4>2. CASE status[n] \in {"sent", "dead_letter"}
        BY Zenon, <2>c, <4>1, <4>2 DEF CleanCall, Pickable, UnacceptedLabels
      <4>3. ASSUME NEW v \in Workers, Waits(v, n), v # w
            PROVE  Waits(v, n)'
        BY Zenon, <2>l, <4>3
      <4>4. CASE Waits(w, n)
        BY Zenon, <2>c, <3>2, <4>4 DEF CleanCall, CallEdges
      <4> QED
        BY Zenon, <2>f, <3>2, <4>2, <4>3, <4>4
    <3>3. CASE pc'[w] \notin {"recordOk", "markSent"} /\ accepted[n] = 0
      BY <1>t, <2>a, <3>3
    <3> QED
      BY <2>f, <3>1, <3>2, <3>3
  <2>3. \A k \in Notifs \ {n} : accepted'[k] > 0 =>
          status'[k] \in {"sent", "dead_letter"} \/ \E v \in Workers : Waits(v, k)'
    <3>1. \A k \in Notifs \ {n} : \A v \in Workers : Waits(v, k) => Waits(v, k)'
      BY <2>l DEF n
    <3> QED
      BY <2>l, <2>1, <3>1 DEF AcceptInv
  <2>4. /\ pc'[w] \in UnacceptedLabels => accepted'[n] = 0
        /\ pc'[w] = "undo" => status'[n] # "sending"
    <3>1. CASE pc[w] = "cas"
      BY Zenon, <1>p, <2>a, <2>c, <2>l, <3>1 DEF CleanCall, CallEdges, UnacceptedLabels
    <3>2. CASE pc[w] # "cas"
      <4>1. pc'[w] \in UnacceptedLabels => pc[w] \in UnacceptedLabels /\ pc'[w] # "recordOk"
        BY Zenon, <2>c, <3>2 DEF CleanCall, CallEdges, UnacceptedLabels
      <4>2. pc'[w] = "undo" => status'[n] # "sending"
        BY Zenon, <2>c, <3>2 DEF CleanCall, CallEdges
      <4> QED
        BY Zenon, <2>a, <2>f, <4>1, <4>2
    <3> QED
      BY Zenon, <3>1, <3>2
  <2>5. ASSUME NEW v \in Workers, v # w
        PROVE  /\ pc'[v] \in UnacceptedLabels => accepted'[job[v]] = 0
               /\ pc'[v] = "undo" => status'[job[v]] # "sending"
    <3>1. Owns(v) => job[v] \in Notifs
      BY Zenon DEF TypeInv, HasJob, Busy, Owns, OwningLabels
    <3>2. CASE job[v] # n
      BY Zenon, <2>l, <2>s, <2>1, <2>5, <3>1, <3>2 DEF AcceptInv, IsSending
    <3>3. CASE job[v] = n /\ Owns(v)
      <4>1. ~Owns(w)
        BY <2>o, <2>5, <3>3
      <4>2. Held(n, v)
        BY Zenon, <3>3 DEF OwnInv
      <4>3. accepted' = accepted /\ status'[n] = status[n]
        BY Zenon, <2>a, <2>c, <4>1, <4>2 DEF CleanCall, Owns, OwningLabels, Held, Pickable
      <4> QED
        BY <2>l, <2>5, <3>3, <4>3 DEF AcceptInv, IsSending
    <3> QED
      BY Zenon, <2>l, <2>s, <2>5, <3>2, <3>3
  <2> QED
    <3>1. AcceptedOnce'
      BY Zenon, <2>l, <2>1 DEF AcceptInv, AcceptedOnce
    <3>2. \A v \in Workers : /\ pc'[v] \in UnacceptedLabels => accepted'[job'[v]] = 0
                             /\ pc'[v] = "undo" => status'[job'[v]] # "sending"
      BY Zenon, <2>l, <2>4, <2>5 DEF n
    <3> QED
      BY Zenon, <2>l, <2>2, <2>3, <3>1, <3>2 DEF AcceptInv, IsSending
<1>2. CASE Quiet
  <2>1. \A v \in Workers : pc'[v] \notin {"idle", "cas", "settle"} => pc'[v] = pc[v] /\ job'[v] = job[v]
    BY <1>2 DEF Quiet, QuietWorker
  <2>2. ASSUME NEW n \in Notifs, accepted[n] > 0
        PROVE  status'[n] \in {"sent", "dead_letter"} \/ \E v \in Workers : Waits(v, n)'
    <3>1. CASE status[n] \in {"sent", "dead_letter"}
      BY <1>2, <3>1 DEF Quiet, QuietRow, StuckSending, SendingRows, IsSending
    <3>2. ASSUME NEW v \in Workers, Waits(v, n)
          PROVE  Waits(v, n)'
      BY <1>2, <3>2 DEF Quiet, QuietWorker
    <3> QED
      BY Zenon, <2>2, <3>1, <3>2 DEF AcceptInv
  <2>3. \A n \in Notifs : status'[n] = "sending" => status[n] = "sending"
    BY Zenon, <1>2 DEF Quiet, QuietRow
  <2>4. ASSUME NEW v \in Workers
        PROVE  /\ pc'[v] \in UnacceptedLabels => accepted'[job'[v]] = 0
               /\ pc'[v] = "undo" => status'[job'[v]] # "sending"
    <3>1. pc[v] = "undo" => job[v] \in Notifs
      BY DEF TypeInv, HasJob, Busy
    <3> QED
      BY <1>2, <2>1, <2>3, <3>1 DEF AcceptInv, UnacceptedLabels, IsSending, Quiet
  <2> QED
    BY <1>2, <2>2, <2>4 DEF AcceptInv, AcceptedOnce, IsSending, Quiet
<1>3. ASSUME NEW w \in Workers
      PROVE  ~WorkerCrash(w)
  BY Zenon DEF WorkerCrash, Fault
<1> QED
  BY <1>1, <1>2, <1>3, StepKinds

(* The provider accepts a notification at most once however often the       *)
(* broker redelivers it and whatever publishes and Redis calls fail: unless *)
(* a process dies, is shut down or loses its connection, a deadline passes, *)
(* a statement fails, or the provider's own answer is lost.                 *)
THEOREM AcceptedAtMostOnce ==
  ASSUME FaultKinds \subseteq {"publish", "redis", "unlock"}
  PROVE  Spec => []AcceptedOnce
<1>k. /\ FaultKinds \cap {"crash", "db", "provider"} = {} /\ "conn" \notin FaultKinds
      /\ FaultKinds \cap {"slow", "shutdown"} = {}
  OBVIOUS
<1>1. Init => AcceptInv
  BY DEF Init, StoreInit, WorkerInit, AcceptInv, AcceptedOnce, UnacceptedLabels
<1>2. TypeInv /\ OwnInv /\ Timely /\ Connected /\ AcceptInv /\ [Next]_vars => AcceptInv'
  BY <1>k, AcceptStep
<1>3. AcceptInv => AcceptedOnce
  BY DEF AcceptInv
<1>4. (Spec => []Timely) /\ (Spec => []Connected)
  BY <1>k, TimelyInvariant, ConnectedInvariant
<1> QED
  BY <1>1, <1>2, <1>3, <1>4, TypeCorrect, OwnInvariant, PTL DEF Spec

-----------------------------------------------------------------------------
(* The DLQ *)

(* Fewer faults than the cap stay below a count that has reached it. *)
LEMMA BelowCap ==
  ASSUME NEW c \in Nat, NEW f \in Nat, NEW g \in Nat, NEW max \in Nat, NEW cap \in Nat,
         f <= g, g <= max, max < cap, c >= cap
  PROVE  ~(c <= f)
OBVIOUS

(* A message that appears is new, or some worker's delivery once more, with *)
(* its count raised if it is bounced.                                       *)
LEMMA NewMessage ==
  ASSUME TypeInv, BounceInv, [Next]_vars, NEW m \in Message,
         mainQ[m] + waitQ[m] = 0, mainQ'[m] + waitQ'[m] > 0
  PROVE  \/ m[2] = 0
         \/ \E w \in Workers :
              /\ Busy(w) /\ job[w] = m[1]
              /\ m[2] = redel[w] \/ (m[2] = redel[w] + 1 /\ ret[w] = "err")
<1> DEFINE Goal == \/ m[2] = 0
                   \/ \E w \in Workers :
                        /\ Busy(w) /\ job[w] = m[1]
                        /\ m[2] = redel[w] \/ (m[2] = redel[w] + 1 /\ ret[w] = "err")
<1>t. BrokerTypeOK /\ mainQ[m] = 0 /\ waitQ[m] = 0
  <2>1. mainQ \in [Message -> Nat] /\ waitQ \in [Message -> Nat] /\ BrokerTypeOK
    BY TypeParts DEF BrokerTypeOK
  <2>2. mainQ[m] \in Nat /\ waitQ[m] \in Nat
    BY <2>1
  <2> QED
    BY <2>1, <2>2
<1>e. ASSUME NEW x, Enqueue(x) \/ UNCHANGED mainQ, NEW y, PublishToWait(y) \/ UNCHANGED waitQ
      PROVE  (Enqueue(x) /\ m = x) \/ (PublishToWait(y) /\ m = y)
  BY <1>t, <1>e DEF BrokerTypeOK, Enqueue, PublishToWait
<1>0. ASSUME UNCHANGED <<mainQ, waitQ>>
      PROVE  FALSE
  BY <1>0
<1>1. ASSUME NEW w \in Workers, HandlerStep(w)
      PROVE  Goal
  <2>b. Busy(w)
    BY Zenon, <1>1, HandlerControl DEF Control, Settle, Busy
  <2>1. CASE routeToRetryTier(w)
    <3>1. m = <<job[w], 0>>
      BY Zenon, <1>e, <1>0, <2>1 DEF routeToRetryTier
    <3> QED
      BY <3>1
  <2>2. CASE requeueViaWaitTier(w)
    <3>1. m = <<job[w], redel[w] + 1>> /\ pc[w] = "bounce"
      BY Zenon, <1>e, <1>0, <2>2 DEF requeueViaWaitTier, Goto
    <3> QED
      BY <2>b, <3>1 DEF BounceInv, CanBounce
  <2>3. CASE Settle(w)
    <3>1. m = <<job[w], redel[w]>>
      BY Zenon, <1>e, <1>0, <2>3 DEF Settle
    <3> QED
      BY <2>b, <3>1
  <2> QED
    BY Zenon, <1>0, <1>1, <2>1, <2>2, <2>3 DEF HandlerStep, CASHit, CASMiss, CASError, AcquireLock,
       LockHeld, SetNXError, DeferToHolder, TakeAllowed, TakeThrottled, TakeError, StartCall,
       BreakerOpen, SendCancelled, CallSucceeds, CallFailsRetryable, CallFailsTerminal,
       RecordAttempt, RevertForRetry, TerminalMark, TerminalInsert, MarkSentOk, MarkSentError,
       UndoAfterMarkSent, Unlock
<1>2. ASSUME NEW w \in Workers, WorkerCrash(w) \/ ConnectionLost(w)
      PROVE  Goal
  <2>1. m = <<job[w], redel[w]>> /\ Busy(w)
    BY Zenon, <1>e, <1>0, <1>2 DEF WorkerCrash, ConnectionLost
  <2> QED
    BY <2>1
<1>3. ASSUME NEW w \in Workers, Deliver(w)
      PROVE  FALSE
  <2>1. PICK x \in Message : Dequeue(x) /\ UNCHANGED waitQ
    BY Zenon, <1>3 DEF Deliver
  <2> QED
    BY <1>t, <2>1 DEF Dequeue, BrokerTypeOK
<1>4. ASSUME NEW d \in Dispatchers, PublishRow(d)
      PROVE  m[2] = 0
  <2>1. PICK c \in batch[d] : PublishRow(d)!(c)
    BY Zenon, <1>4 DEF PublishRow
  <2>2. m = <<outbox[c[1]].notif, 0>>
    BY Zenon, <1>e, <1>0, <2>1
  <2>3. \A x, y : <<x, y>>[2] = y
    OBVIOUS
  <2> QED
    BY Zenon, <2>2, <2>3
<1>5. ASSUME NEW x \in Message, WaitTierExpires(x)
      PROVE  FALSE
  <2>1. waitQ[x] > 0 /\ Enqueue(x) /\ waitQ' = [waitQ EXCEPT ![x] = @ - 1]
    BY Zenon, <1>5 DEF WaitTierExpires, WaitExpire
  <2>2. x # m
    <3>1. ~(0 > 0)
      OBVIOUS
    <3> QED
      BY Zenon, <1>t, <2>1, <3>1
  <2> QED
    BY <1>t, <2>1, <2>2 DEF Enqueue, BrokerTypeOK
<1>6. CASE OutboxNext
  BY Zenon, <1>0, <1>4, <1>6 DEF OutboxNext, DispatcherStep, ClaimOutboxBatch, MarkPublished,
     MarkRowQueued, MarkRowFailed, GiveUp, GiveUpInsert, GiveUpMark, DispatcherCrash, ClaimLapse
<1>7. CASE WorkerNext
  BY Zenon, <1>0, <1>1, <1>2, <1>3, <1>7 DEF WorkerNext, Shutdown, Tick
<1> QED
  BY Zenon, <1>0, <1>5, <1>6, <1>7 DEF Next, Create, Cancel, Sweep, nonStoreVars, vars

(* Without database faults an error of a live handler is a fault, or the    *)
(* failed MarkSent of a row that is a dead letter; ErrTerminal is the       *)
(* result of InsertDeadLetter.                                              *)
LEMMA ErrorsCost ==
  ASSUME TypeInv, "db" \notin FaultKinds, NEW w \in Workers, HandlerStep(w), ~Settle(w)
  PROVE  /\ ret'[w] = "err" =>
              ret[w] = "err" \/ pc[w] = "undo" \/ CtxDone(w) \/ faults' = faults + 1
         /\ ret'[w] = "terminal" => ret[w] = "terminal" \/ pc[w] = "insertDead"
<1>t. ret \in [Workers -> {"nil", "err", "terminal"}]
  BY TypeParts DEF ControlOK
<1>1. CASE CASError(w)
  BY Zenon, <1>t, <1>1 DEF CASError, Returns, CallFails, CallLost, Fault
<1>2. CASE SetNXError(w) \/ TakeError(w)
  BY Zenon, <1>t, <1>2 DEF SetNXError, TakeError, Returns, CallFails, CallLost, Fault
<1>3. CASE routeToRetryTier(w)
  BY Zenon, <1>t, <1>3 DEF routeToRetryTier, Returns, CallFails, CallLost, Fault
<1>4. CASE TerminalInsert(w) \/ UndoAfterMarkSent(w)
  BY Zenon, <1>t, <1>4 DEF TerminalInsert, UndoAfterMarkSent, Goto, Returns
<1>5. CASE requeueViaWaitTier(w)
  BY <1>t, <1>5 DEF requeueViaWaitTier, Returns
<1> QED
  BY Zenon, <1>1, <1>2, <1>3, <1>4, <1>5 DEF HandlerStep, CASHit, CASMiss, AcquireLock, LockHeld,
     DeferToHolder, TakeAllowed, TakeThrottled, StartCall, BreakerOpen, SendCancelled,
     CallSucceeds, CallFailsRetryable, CallFailsTerminal, RecordAttempt, RevertForRetry,
     TerminalMark, MarkSentOk, MarkSentError, Unlock

(* A dead letter stays one. *)
LEMMA DeadLetterStays ==
  ASSUME TypeInv, OwnInv, [Next]_vars, NEW n \in Notifs, status[n] = "dead_letter"
  PROVE  status'[n] = "dead_letter"
<1>t. RowTypeOK /\ ControlOK
  BY Zenon, TypeParts
<1>1. ASSUME NEW w \in Workers, HandlerStep(w), ~Settle(w)
      PROVE  status'[n] = "dead_letter"
  <2>1. CASE job[w] # n
    BY Zenon, <1>1, <2>1, HandlerLocal DEF RowStays
  <2>2. CASE job[w] = n
    <3>1. RowQuery(n)
      BY Zenon, <1>1, <2>2, HandlerTables
    <3>2. ~MarkSendingCAS(n) /\ ~MarkSent(n) /\ ~CancelPendingOrQueued(n)
      BY DEF MarkSendingCAS, MarkSent, CancelPendingOrQueued, Pickable, IsSending, Cancellable
    <3> QED
      BY Zenon, <1>t, <3>1, <3>2, RowQueryLocal DEF RowQuery, RowStays
  <2> QED
    BY Zenon, <2>1, <2>2
<1>2. ASSUME NEW w \in Workers, WorkerCrash(w)
      PROVE  status'[n] = "dead_letter"
  BY Zenon, <1>2 DEF WorkerCrash
<1>3. CASE Quiet
  BY <1>3 DEF Quiet, QuietRow, StuckSending, SendingRows, IsSending
<1> QED
  BY Zenon, <1>1, <1>2, <1>3, StepKinds

(* Only an unacked delivery that returned ErrTerminal goes to the DLQ. *)
LEMMA DLQGrows ==
  ASSUME [Next]_vars, NEW n, n \in dlq', n \notin dlq
  PROVE  \E w \in Workers : Busy(w) /\ unacked[w] /\ ret[w] = "terminal" /\ job[w] = n
<1>1. ASSUME NEW w \in Workers, Settle(w)
      PROVE  \E v \in Workers : Busy(v) /\ unacked[v] /\ ret[v] = "terminal" /\ job[v] = n
  BY Zenon, <1>1 DEF Settle, Busy
<1>2. CASE WorkerNext
  <2>1. ASSUME NEW w \in Workers, HandlerStep(w), ~Settle(w)
        PROVE  UNCHANGED dlq
    BY ZenonT(30), <2>1 DEF HandlerStep, CASHit, CASMiss, CASError, AcquireLock, LockHeld, SetNXError,
       DeferToHolder, TakeAllowed, TakeThrottled, TakeError, StartCall, BreakerOpen,
       SendCancelled, CallSucceeds, CallFailsRetryable, CallFailsTerminal, RecordAttempt,
       RevertForRetry, routeToRetryTier, TerminalMark, TerminalInsert, MarkSentOk,
       MarkSentError, UndoAfterMarkSent, Unlock, requeueViaWaitTier
  <2>2. ASSUME NEW w \in Workers, Deliver(w) \/ WorkerCrash(w) \/ ConnectionLost(w) \/ Shutdown(w)
        PROVE  UNCHANGED dlq
    BY <2>2 DEF Deliver, WorkerCrash, ConnectionLost, Shutdown
  <2> QED
    BY Zenon, <1>1, <1>2, <2>1, <2>2 DEF WorkerNext, Tick
<1>3. CASE OutboxNext
  BY Zenon, <1>3 DEF OutboxNext, DispatcherStep, ClaimOutboxBatch, PublishRow, MarkPublished,
     MarkRowQueued, MarkRowFailed, GiveUp, GiveUpInsert, GiveUpMark, DispatcherCrash, ClaimLapse
<1> QED
  BY Zenon, <1>2, <1>3 DEF Next, Create, Cancel, Sweep, WaitTierExpires, WaitExpire, nonStoreVars, vars

(* Every bounce is paid for with a fault, and fewer faults than bounces to  *)
(* the cap keep a delivery below it.                                        *)
LEMMA DLQStep ==
  ASSUME TypeInv, OwnInv, BounceInv, Timely, DLQInv, [Next]_vars,
         FaultKinds \cap {"db", "slow", "shutdown"} = {}, MaxFaults < MaxRedeliveries
  PROVE  DLQInv'
<1>f. faults \in Nat /\ faults' \in Nat /\ faults <= faults' /\ faults' <= MaxFaults
  BY FaultsGrow
<1>d. \A n \in Notifs : status[n] = "dead_letter" => status'[n] = "dead_letter"
  BY Zenon, DeadLetterStays
<1>t. /\ BrokerTypeOK /\ BrokerTypeOK' /\ dlq' \subseteq Notifs
      /\ \A w \in Workers : redel[w] \in Nat /\ (Busy(w) => job[w] \in Notifs)
      /\ \A w \in Workers : Busy(w)' => job'[w] \in Notifs
  <2>1. BrokerTypeOK /\ BrokerTypeOK' /\ ControlOK /\ ControlOK'
    BY TypeStep, TypeParts, TypePartsNext
  <2> QED
    BY <2>1 DEF BrokerTypeOK, ControlOK, HasJob
<1>1. ASSUME NEW n \in dlq'
      PROVE  status'[n] = "dead_letter"
  <2>0. n \in Notifs
    BY <1>1, <1>t
  <2>1. n \in dlq => status[n] = "dead_letter"
    BY Zenon DEF DLQInv
  <2>2. n \notin dlq => status[n] = "dead_letter"
    <3>1. n \notin dlq => \E w \in Workers : Busy(w) /\ unacked[w] /\ ret[w] = "terminal" /\ job[w] = n
      BY Zenon, <1>1, DLQGrows
    <3>2. \A w \in Workers : Busy(w) /\ unacked[w] /\ ret[w] = "terminal" =>
            status[job[w]] = "dead_letter"
      BY Zenon DEF DLQInv
    <3> QED
      BY Zenon, <3>1, <3>2
  <2> QED
    BY Zenon, <1>1, <1>d, <2>0, <2>1, <2>2
<1>2. ASSUME NEW n \in Notifs, status'[n] # "dead_letter"
      PROVE  Paid(n)'
  <2>p. status[n] # "dead_letter" /\ Paid(n)
    BY <1>d, <1>2 DEF DLQInv
  <2>1. ASSUME NEW m \in Message, m[1] = n, mainQ'[m] + waitQ'[m] > 0
        PROVE  m[2] <= faults'
    <3>1. m[2] \in Nat /\ mainQ[m] \in Nat /\ waitQ[m] \in Nat
      BY <1>t DEF Message, BrokerTypeOK
    <3>2. CASE mainQ[m] + waitQ[m] > 0
      BY <1>f, <2>p, <2>1, <3>1, <3>2 DEF Paid
    <3>3. CASE mainQ[m] + waitQ[m] = 0
      <4>1. CASE m[2] = 0
        BY <1>f, <4>1
      <4>2. ASSUME NEW w \in Workers, Busy(w), job[w] = m[1],
                   m[2] = redel[w] \/ (m[2] = redel[w] + 1 /\ ret[w] = "err")
            PROVE  m[2] <= faults'
        <5>1. redel[w] <= faults /\ (ret[w] = "err" => redel[w] < faults)
          BY Zenon, <2>p, <2>1, <4>2 DEF Paid
        <5> QED
          BY <1>f, <1>t, <4>2, <5>1
      <4> QED
        BY Zenon, <2>1, <3>3, <4>1, <4>2, NewMessage
    <3> QED
      BY <3>1, <3>2, <3>3
  <2>2. ASSUME NEW v \in Workers, Busy(v)', job'[v] = n
        PROVE  redel'[v] <= faults' /\ (ret'[v] = "err" \/ ~unacked'[v] => redel'[v] < faults')
    <3>1. ASSUME NEW m \in Message, mainQ[m] > 0, job'[v] = m[1], redel'[v] = m[2], ret'[v] # "err",
                 unacked'[v]
          PROVE  redel'[v] <= faults' /\ (ret'[v] = "err" \/ ~unacked'[v] => redel'[v] < faults')
      <4>1. m[2] \in Nat /\ mainQ[m] \in Nat /\ waitQ[m] \in Nat
        BY <1>t DEF Message, BrokerTypeOK
      <4>2. m[2] <= faults
        BY <2>p, <2>2, <3>1, <4>1 DEF Paid
      <4> QED
        BY <1>f, <3>1, <4>1, <4>2
    <3>2. ASSUME Busy(v), job'[v] = job[v], redel'[v] = redel[v],
                 unacked'[v] = unacked[v] \/ faults' = faults + 1,
                 (pc'[v] = pc[v] /\ ret'[v] = ret[v]) \/ (HandlerStep(v) /\ ~Settle(v))
          PROVE  redel'[v] <= faults' /\ (ret'[v] = "err" \/ ~unacked'[v] => redel'[v] < faults')
      <4>1. redel[v] <= faults /\ (ret[v] = "err" \/ ~unacked[v] => redel[v] < faults)
        BY Zenon, <2>p, <2>2, <3>2 DEF Paid
      <4>2. unacked[v] => pc[v] # "undo" /\ ~CtxDone(v)
        <5>1. unacked[v] => pc[v] # "undo" /\ left[v] > 0
          BY Zenon, <2>p, <2>2, <3>2 DEF DLQInv, Timely
        <5>2. ~(0 > 0)
          OBVIOUS
        <5> QED
          BY Zenon, <5>1, <5>2 DEF CtxDone
      <4>3. ret'[v] = "err" => ret[v] = "err" \/ ~unacked[v] \/ faults' = faults + 1
        BY Zenon, <3>2, <4>2, ErrorsCost
      <4>4. redel[v] < faults \/ faults' = faults + 1 \/ (ret'[v] # "err" /\ unacked'[v])
        BY Zenon, <3>2, <4>1, <4>3
      <4> QED
        BY <1>f, <1>t, <3>2, <4>1, <4>4
    <3> QED
      BY Zenon, <2>2, <3>1, <3>2, WorkerGoesOn
  <2> QED
    BY Zenon, <2>1, <2>2 DEF Paid
<1>3. ASSUME NEW v \in Workers, unacked'[v],
             pc'[v] \in {"insertDead", "undo"} \/ (Busy(v)' /\ ret'[v] = "terminal")
      PROVE  status'[job'[v]] = "dead_letter"
  <2>b. Busy(v)'
    BY <1>3 DEF Busy
  <2>1. ASSUME pc[v] = "idle", NEW m \in Message, mainQ[m] > 0, job'[v] = m[1],
               \/ pc'[v] = "cas" /\ ret'[v] = "nil"
               \/ pc'[v] = "settle" /\ ret'[v] = "terminal" /\ CapReached(m)
        PROVE  status'[job'[v]] = "dead_letter"
    <3>1. CapReached(m)
      BY Zenon, <1>3, <2>1
    <3>2. m[1] \in Notifs /\ m[2] \in Nat /\ mainQ[m] \in Nat /\ waitQ[m] \in Nat
      BY <1>t DEF Message, BrokerTypeOK
    <3>3. ~(m[2] <= faults)
      BY Zenon, <1>f, <3>1, <3>2, FaultsAssumption, BrokerAssumption, BelowCap DEF CapReached
    <3>4. mainQ[m] + waitQ[m] > 0
      BY <2>1, <3>2
    <3>5. status[m[1]] = "dead_letter"
      BY <3>2, <3>3, <3>4 DEF DLQInv, Paid
    <3> QED
      BY Zenon, <1>d, <2>1, <3>2, <3>5
  <2>2. ASSUME Busy(v), unacked[v], job'[v] = job[v], pc'[v] = pc[v], ret'[v] = ret[v]
        PROVE  status'[job'[v]] = "dead_letter"
    BY Zenon, <1>d, <1>t, <1>3, <2>2 DEF DLQInv, Busy
  <2>3. ASSUME Busy(v), unacked[v], job'[v] = job[v], HandlerStep(v), ~Settle(v)
        PROVE  status'[job'[v]] = "dead_letter"
    <3>0. ~CtxDone(v)
      <4>1. left[v] > 0 /\ ~(0 > 0)
        BY <2>3 DEF Timely
      <4> QED
        BY Zenon, <4>1 DEF CtxDone
    <3>1. CleanCall(v, job[v])
      BY Zenon, <2>3, <3>0, CleanHandler
    <3>2. ASSUME status[job[v]] = "dead_letter"
          PROVE  status'[job'[v]] = "dead_letter"
      BY <1>d, <1>t, <2>3, <3>2
    <3>3. CASE pc'[v] \in {"insertDead", "undo"}
      BY Zenon, <2>3, <3>1, <3>2, <3>3 DEF CleanCall, CallEdges
    <3>4. CASE ret'[v] = "terminal"
      <4>1. ret[v] = "terminal" \/ pc[v] = "insertDead"
        BY Zenon, <2>3, <3>4, ErrorsCost
      <4> QED
        BY Zenon, <2>3, <3>2, <4>1 DEF DLQInv
    <3> QED
      BY <1>3, <3>3, <3>4
  <2> QED
    BY Zenon, <1>3, <2>b, <2>1, <2>2, <2>3, WorkerGoesOn
<1> QED
  BY Zenon, <1>1, <1>2, <1>3 DEF DLQInv

(* A message in the DLQ has its dead-letter row as long as no statement     *)
(* fails, no deadline passes, no replica is stopped, and there are fewer    *)
(* faults than the redeliveries a delivery is allowed: crashes and lost     *)
(* connections, which cancel the handlers, included.                        *)
THEOREM DLQIsRecorded ==
  ASSUME FaultKinds \cap {"db", "slow", "shutdown"} = {}, MaxFaults < MaxRedeliveries
  PROVE  Spec => []DLQHasRecord
<1>1. Init => DLQInv
  BY DEF Init, StoreInit, BrokerInit, WorkerInit, DLQInv, Paid, Busy, FaultsInit
<1>2. TypeInv /\ OwnInv /\ BounceInv /\ Timely /\ DLQInv /\ [Next]_vars => DLQInv'
  BY DLQStep
<1>3. DLQInv => DLQHasRecord
  BY DEF DLQInv, DLQHasRecord
<1>4. Spec => []Timely
  BY TimelyInvariant
<1> QED
  BY <1>1, <1>2, <1>3, <1>4, TypeCorrect, OwnInvariant, BounceInvariant, PTL DEF Spec

-----------------------------------------------------------------------------
(* Publish attempts *)

(* The attempts of the rows in S do not go up. *)
AttemptsFall(S) ==
  \A i \in S : outbox'[i].attempts \in Nat /\ outbox'[i].attempts <= outbox[i].attempts

(* Only MarkOutboxFailed adds one, and only in its row. *)
LEMMA StatementAttempts ==
  ASSUME OutboxTableOK, NEW i \in OutboxIds
  PROVE  /\ MarkOutboxPublished(i) => AttemptsFall(OutboxIds)
         /\ MarkOutboxFailed(i) => /\ AttemptsFall(OutboxIds \ {i})
                                   /\ outbox'[i].attempts \in Nat
                                   /\ outbox'[i].attempts <= outbox[i].attempts + 1
         /\ outbox' = [outbox EXCEPT ![i].claimed = FALSE] => AttemptsFall(OutboxIds)
<1> USE DEF OutboxTableOK, AttemptsFall
<1>0. outbox[i] \in OutboxRow /\ \A j \in OutboxIds : outbox[j].attempts \in Nat
  BY DEF OutboxRow
<1>a. ASSUME NEW r, r.attempts \in Nat, r.attempts <= outbox[i].attempts + 1,
             outbox' = [outbox EXCEPT ![i] = r]
      PROVE  /\ AttemptsFall(OutboxIds \ {i})
             /\ outbox'[i].attempts \in Nat /\ outbox'[i].attempts <= outbox[i].attempts + 1
             /\ r.attempts <= outbox[i].attempts => AttemptsFall(OutboxIds)
  BY <1>0, <1>a
<1>1. ASSUME MarkOutboxPublished(i)
      PROVE  AttemptsFall(OutboxIds)
  <2> DEFINE r == [FreeRow EXCEPT !.notif = outbox[i].notif, !.published = TRUE]
  <2>1. r.attempts = 0
    BY DEF FreeRow
  <2>2. outbox' = [outbox EXCEPT ![i] = r]
    BY Zenon, <1>1 DEF MarkOutboxPublished
  <2> HIDE DEF r
  <2> QED
    BY <1>0, <1>a, <2>1, <2>2
<1>2. ASSUME MarkOutboxFailed(i)
      PROVE  /\ AttemptsFall(OutboxIds \ {i})
             /\ outbox'[i].attempts \in Nat /\ outbox'[i].attempts <= outbox[i].attempts + 1
  <2> DEFINE r == [FreeRow EXCEPT !.notif = outbox[i].notif,
                                  !.attempts = outbox[i].attempts + 1]
  <2>1. r.attempts = outbox[i].attempts + 1
    BY DEF FreeRow
  <2>2. outbox' = [outbox EXCEPT ![i] = r] \/ UNCHANGED outbox
    BY <1>2 DEF MarkOutboxFailed
  <2> HIDE DEF r
  <2> QED
    BY <1>0, <1>a, <2>1, <2>2
<1>3. ASSUME outbox' = [outbox EXCEPT ![i].claimed = FALSE]
      PROVE  AttemptsFall(OutboxIds)
  <2> DEFINE r == [outbox[i] EXCEPT !.claimed = FALSE]
  <2>1. r.attempts = outbox[i].attempts
    BY <1>0 DEF OutboxRow
  <2>2. outbox' = [outbox EXCEPT ![i] = r]
    BY <1>3
  <2> HIDE DEF r
  <2> QED
    BY <1>0, <1>a, <2>1, <2>2
<1> QED
  BY <1>1, <1>2, <1>3

(* So only markFailure adds one. *)
LEMMA AttemptsMove ==
  ASSUME TypeInv, [Next]_vars
  PROVE  \/ AttemptsFall(OutboxIds)
         \/ \E d \in Dispatchers :
              /\ MarkRowFailed(d) /\ AttemptsFall(OutboxIds \ {cur[d][1]})
              /\ outbox'[cur[d][1]].attempts \in Nat
              /\ outbox'[cur[d][1]].attempts <= outbox[cur[d][1]].attempts + 1
<1>t. OutboxTableOK
  BY TypeParts
<1>0. UNCHANGED outbox => AttemptsFall(OutboxIds)
  BY <1>t DEF AttemptsFall, OutboxTableOK, OutboxRow
<1>r. /\ [FreeRow EXCEPT !.claimed = FALSE].attempts = 0
      /\ \A n : [FreeRow EXCEPT !.notif = n].attempts = 0
      /\ \A r \in OutboxRow : r.attempts \in Nat /\ [r EXCEPT !.claimed = TRUE].attempts = r.attempts
  BY DEF FreeRow, OutboxRow
<1>1. CASE WorkerNext
  <2>1. ASSUME NEW w \in Workers, HandlerStep(w)
        PROVE  UNCHANGED outbox
    BY Zenon, <2>1 DEF HandlerStep, CASHit, CASMiss, CASError, AcquireLock, LockHeld, SetNXError,
       DeferToHolder, TakeAllowed, TakeThrottled, TakeError, StartCall, BreakerOpen,
       SendCancelled, CallSucceeds, CallFailsRetryable, CallFailsTerminal, RecordAttempt,
       RevertForRetry, routeToRetryTier, TerminalMark, TerminalInsert, MarkSentOk,
       MarkSentError, UndoAfterMarkSent, Unlock, requeueViaWaitTier, Settle
  <2> QED
    BY Zenon, <1>0, <1>1, <2>1 DEF WorkerNext, Deliver, WorkerCrash, ConnectionLost, Shutdown, Tick
<1>2. ASSUME NEW d \in Dispatchers, dpc[d] # "ready"
      PROVE  cur[d][1] \in OutboxIds
  BY <1>2 DEF TypeInv, HasRow, InsertedRow
<1>3. ASSUME NEW d \in Dispatchers, MarkPublished(d) \/ GiveUpMark(d)
      PROVE  AttemptsFall(OutboxIds)
  BY Zenon, <1>0, <1>t, <1>2, <1>3, StatementAttempts DEF MarkPublished, GiveUpMark, DDone, DGoto
<1>4. ASSUME NEW d \in Dispatchers, MarkRowFailed(d)
      PROVE  \/ AttemptsFall(OutboxIds)
             \/ /\ AttemptsFall(OutboxIds \ {cur[d][1]})
                /\ outbox'[cur[d][1]].attempts \in Nat
                /\ outbox'[cur[d][1]].attempts <= outbox[cur[d][1]].attempts + 1
  BY Zenon, <1>0, <1>t, <1>2, <1>4, StatementAttempts DEF MarkRowFailed, DDone, DGoto
<1>5. ASSUME NEW d \in Dispatchers, ClaimOutboxBatch(d)
      PROVE  AttemptsFall(OutboxIds)
  <2>1. PICK S : outbox' = [i \in OutboxIds |-> IF i \in S
                                                THEN [outbox[i] EXCEPT !.claimed = TRUE]
                                                ELSE outbox[i]]
    BY <1>5 DEF ClaimOutboxBatch
  <2> QED
    BY <1>t, <1>r, <2>1 DEF AttemptsFall, OutboxTableOK
<1>6. ASSUME NEW i \in OutboxIds, ClaimLapse(i)
      PROVE  AttemptsFall(OutboxIds)
  BY Zenon, <1>t, <1>6, StatementAttempts DEF ClaimLapse
<1>7. ASSUME NEW n \in Notifs, Create(n)
      PROVE  AttemptsFall(OutboxIds)
  <2>1. PICK i \in FreeIds : outbox' = [outbox EXCEPT ![i] = [FreeRow EXCEPT !.notif = n]]
    BY Zenon, <1>7 DEF Create, InsertOutbox
  <2> QED
    BY <1>t, <1>r, <2>1 DEF AttemptsFall, OutboxTableOK, FreeIds
<1>8. CASE Sweep
  <2>1. PICK new \in [StuckSending -> FreeIds] :
          outbox' = [i \in OutboxIds |->
                       IF \E k \in StuckSending : new[k] = i
                       THEN [FreeRow EXCEPT !.notif = CHOOSE k \in StuckSending : new[k] = i]
                       ELSE outbox[i]]
    BY <1>8 DEF Sweep, InsertOutboxAll
  <2> QED
    BY <1>t, <1>r, <2>1 DEF AttemptsFall, OutboxTableOK
<1>9. CASE OutboxNext
  BY Zenon, <1>0, <1>3, <1>4, <1>5, <1>6, <1>9 DEF OutboxNext, DispatcherStep, PublishRow, MarkRowQueued,
     GiveUp, GiveUpInsert, DispatcherCrash
<1> QED
  BY Zenon, <1>0, <1>1, <1>7, <1>8, <1>9 DEF Next, Cancel, WaitTierExpires, vars

-----------------------------------------------------------------------------
(* Delivery attempts *)

(* A handler gets to the dead-letter path through a request or with a       *)
(* context that is done, and then it cannot write the row.                  *)
LEMMA HandlerAttempts ==
  ASSUME TypeInv, NEW w \in Workers, HandlerStep(w), ~Settle(w)
  PROVE  /\ \/ calls' = calls
            \/ pc[w] = "send" /\ calls' = [calls EXCEPT ![job[w]] = @ + 1]
         /\ pc'[w] = "inCall" => calls' = [calls EXCEPT ![job[w]] = @ + 1]
         /\ pc'[w] \in {"recordDead", "markDead"} => pc[w] \in {"inCall", "recordDead"} \/ CtxDone(w)
         /\ status'[job[w]] = "dead_letter" =>
              status[job[w]] = "dead_letter" \/ (pc[w] = "markDead" /\ ~CtxDone(w))
<1> DEFINE n == job[w]
<1>t. pc \in [Workers -> Labels] /\ RowTypeOK
  BY Zenon, TypeParts DEF ControlOK
<1>l. n \in Notifs
  BY HandlerLocal
<1>q. /\ MarkSendingCAS(n) => status'[n] = "sending"
      /\ MarkSent(n) => status'[n] = "sent"
      /\ RevertToQueuedNoAttempt(n) \/ RevertToQueued(n) =>
           status'[n] = status[n] \/ status'[n] = "queued"
  BY Zenon, <1>t, <1>l, RowQueryLocal DEF RowQuery, RowStays
<1> HIDE DEF n
<1>1. CASE CASHit(w) \/ CASMiss(w) \/ CASError(w)
  <2>1. /\ pc[w] = "cas" /\ pc'[w] \in {"setnx", "settle", "bounce"} /\ calls' = calls
        /\ MarkSendingCAS(n) \/ UNCHANGED rowVars
    BY Zenon, <1>t, <1>1 DEF CASHit, CASMiss, CASError, Goto, n
  <2> QED
    BY Zenon, <1>q, <2>1 DEF n
<1>2. CASE \/ AcquireLock(w) \/ LockHeld(w) \/ SetNXError(w) \/ TakeAllowed(w)
           \/ TakeThrottled(w) \/ TakeError(w) \/ StartCall(w) \/ BreakerOpen(w)
  BY Zenon, <1>t, <1>2 DEF AcquireLock, LockHeld, SetNXError, TakeAllowed, TakeThrottled, TakeError,
     StartCall, BreakerOpen, Goto
<1>3. CASE CallSucceeds(w) \/ CallFailsRetryable(w) \/ CallFailsTerminal(w) \/ RecordAttempt(w)
  BY Zenon, <1>t, <1>3 DEF CallSucceeds, CallFailsRetryable, CallFailsTerminal, RecordAttempt,
     AfterFailure, Goto
<1>4. CASE DeferToHolder(w) \/ RevertForRetry(w) \/ UndoAfterMarkSent(w)
  <2>1. /\ RevertToQueuedNoAttempt(n) \/ RevertToQueued(n) \/ UNCHANGED rowVars
        /\ pc'[w] \in {"settle", "bounce", "route", "unlock"} /\ calls' = calls
    BY <1>t, <1>4 DEF DeferToHolder, RevertForRetry, UndoAfterMarkSent, Goto, n
  <2> QED
    BY Zenon, <1>q, <2>1 DEF n
<1>5. CASE MarkSentOk(w) \/ MarkSentError(w)
  <2>1. /\ MarkSent(n) \/ UNCHANGED rowVars
        /\ pc'[w] \in {"undo", "unlock"} /\ calls' = calls
    BY <1>t, <1>5 DEF MarkSentOk, MarkSentError, Goto, n
  <2> QED
    BY Zenon, <1>q, <2>1 DEF n
<1>6. CASE \/ routeToRetryTier(w) \/ TerminalMark(w) \/ TerminalInsert(w) \/ Unlock(w)
           \/ requeueViaWaitTier(w)
  BY Zenon, <1>t, <1>6 DEF routeToRetryTier, TerminalMark, TerminalInsert, Unlock, requeueViaWaitTier,
     CallOk, Goto
<1>7. CASE SendCancelled(w)
  BY Zenon, <1>t, <1>7 DEF SendCancelled, AfterFailure, Goto
<1> QED
  BY Zenon, <1>1, <1>2, <1>3, <1>4, <1>5, <1>6, <1>7 DEF HandlerStep

(* What AttemptInv says of a worker. *)
Sent(w) ==
  /\ pc[w] = "inCall" => calls[job[w]] > 0
  /\ pc[w] \in {"recordDead", "markDead"} => calls[job[w]] > 0 \/ CtxDone(w)

(* Neither a worker nor a dispatcher dead-letters what was not sent.        *)
LEMMA AttemptStep ==
  ASSUME TypeInv, TriesInv, AttemptInv, [Next]_vars
  PROVE  AttemptInv'
<1>t. calls \in [Notifs -> Nat] /\ \A w \in Workers : Busy(w) => job[w] \in Notifs
  BY TypeParts DEF EffectOK, ControlOK, HasJob
<1>s. \A w \in Workers : Sent(w)
  BY Zenon DEF AttemptInv, Sent
<1>i. DeadLetterNeedsAttempt' /\ (\A w \in Workers : Sent(w)') => AttemptInv'
  BY Zenon DEF AttemptInv, Sent
<1>1. ASSUME NEW w \in Workers, HandlerStep(w), ~Settle(w)
      PROVE  AttemptInv'
  <2> DEFINE n == job[w]
  <2>h. /\ \/ calls' = calls
           \/ pc[w] = "send" /\ calls' = [calls EXCEPT ![n] = @ + 1]
        /\ pc'[w] = "inCall" => calls' = [calls EXCEPT ![n] = @ + 1]
        /\ pc'[w] \in {"recordDead", "markDead"} => pc[w] \in {"inCall", "recordDead"} \/ CtxDone(w)
        /\ status'[n] = "dead_letter" =>
             status[n] = "dead_letter" \/ (pc[w] = "markDead" /\ ~CtxDone(w))
    BY <1>1, HandlerAttempts
  <2>l. /\ UNCHANGED <<job, left>> /\ n \in Notifs
        /\ \A k \in Notifs \ {n} : status'[k] = status[k]
        /\ \A v \in Workers \ {w} : pc'[v] = pc[v]
    BY Zenon, <1>1, HandlerLocal DEF RowStays
  <2>j. n' = n
    BY Zenon, <2>l
  <2> HIDE DEF n
  <2>g. /\ \A k \in Notifs : calls[k] > 0 => calls'[k] > 0
        /\ pc'[w] = "inCall" => calls'[n] > 0
    BY <1>t, <2>h, <2>l
  <2>1. ASSUME NEW k \in Notifs, status'[k] = "dead_letter"
        PROVE  calls'[k] > 0
    <3>1. status[k] = "dead_letter" \/ (k = n /\ pc[w] = "markDead" /\ ~CtxDone(w))
      BY Zenon, <2>h, <2>l, <2>1
    <3> QED
      BY Zenon, <1>s, <2>g, <3>1 DEF AttemptInv, DeadLetterNeedsAttempt, Sent, n
  <2>2. ASSUME NEW v \in Workers
        PROVE  Sent(v)'
    <3>0. pc[v] # "idle" => job[v] \in Notifs
      BY Zenon, <1>t DEF Busy
    <3>1. CASE v # w
      BY ZenonT(30), <1>s, <2>g, <2>l, <3>0, <3>1 DEF Sent, CtxDone
    <3>2. CASE v = w
      BY ZenonT(30), <1>s, <2>g, <2>h, <2>l, <3>2 DEF Sent, CtxDone, n
    <3> QED
      BY Zenon, <3>1, <3>2
  <2> QED
    BY Zenon, <1>i, <2>1, <2>2 DEF DeadLetterNeedsAttempt
<1>2. ASSUME NEW w \in Workers, WorkerCrash(w)
      PROVE  AttemptInv'
  <2>1. UNCHANGED <<status, calls>> /\ pc'[w] = "idle"
        /\ \A v \in Workers \ {w} : pc'[v] = pc[v] /\ job'[v] = job[v] /\ left'[v] = left[v]
    BY <1>2, TypeParts DEF WorkerCrash, Reset, ControlOK
  <2>2. \A v \in Workers : Sent(v)'
    BY Zenon, <1>s, <2>1 DEF Sent, CtxDone
  <2> QED
    BY Zenon, <1>i, <2>1, <2>2 DEF AttemptInv, DeadLetterNeedsAttempt
<1>3. CASE Quiet
  <2>1. \A n \in Notifs : status'[n] = "dead_letter" => status[n] = "dead_letter"
    BY ZenonT(30), <1>3 DEF Quiet, QuietRow, TriesInv
  <2>2. \A w \in Workers : pc'[w] \in {"inCall", "recordDead", "markDead"} =>
          pc'[w] = pc[w] /\ job'[w] = job[w] /\ (CtxDone(w) => CtxDone(w)')
    BY <1>3 DEF Quiet, QuietWorker
  <2>3. \A w \in Workers : Sent(w)'
    BY Zenon, <1>s, <1>3, <2>2 DEF Quiet, Sent
  <2> QED
    BY Zenon, <1>i, <1>3, <2>1, <2>3 DEF Quiet, AttemptInv, DeadLetterNeedsAttempt
<1> QED
  BY Zenon, <1>1, <1>2, <1>3, StepKinds

-----------------------------------------------------------------------------
(* Counting the publishes that have failed *)

(* A charge for fewer failures, fewer counted ones or more faults. *)
LEMMA ChargedLess ==
  ASSUME NEW S, NEW T, NEW a \in Nat, NEW b \in Nat, NEW k \in Nat, NEW l \in Nat,
         Charged(S, a, k), T \subseteq S, b <= a, k <= l
  PROVE  Charged(T, b, l)
<1>1. PICK f \in [S -> (a + 1)..k] : \A d, e \in S : f[d] = f[e] => d = e
  BY DEF Charged
<1>2. [d \in T |-> f[d]] \in [T -> (b + 1)..l]
  <2>1. \A d \in T : f[d] \in (b + 1)..l
    BY <1>1
  <2> QED
    BY <2>1
<1>3. b <= l
  BY DEF Charged
<1> QED
  BY Zenon, <1>1, <1>2, <1>3 DEF Charged

(* One failure more is charged to the new fault. *)
LEMMA ChargedMore ==
  ASSUME NEW S, NEW T, NEW x, NEW a \in Nat, NEW b \in Nat, NEW k \in Nat, NEW l \in Nat,
         Charged(S, a, k), \A t \in T : t \in S \/ t = x, b <= a, k < l
  PROVE  Charged(T, b, l)
<1>1. PICK f \in [S -> (a + 1)..k] : \A d, e \in S : f[d] = f[e] => d = e
  BY DEF Charged
<1>0. a <= k
  BY DEF Charged
<1> DEFINE g == [d \in T |-> IF d \in S THEN f[d] ELSE l]
<1>2. \A d \in S : f[d] \in (a + 1)..k
  BY <1>1
<1>3. g \in [T -> (b + 1)..l]
  <2>1. \A d \in T : (IF d \in S THEN f[d] ELSE l) \in (b + 1)..l
    BY <1>0, <1>2
  <2> QED
    BY <2>1
<1>4. ASSUME NEW d \in T, NEW e \in T, g[d] = g[e]
      PROVE  d = e
  <2>1. \A c \in S : f[c] # l
    BY <1>2
  <2> QED
    BY <1>1, <1>4, <2>1
<1>5. b <= l
  BY <1>0
<1> QED
  BY Zenon, <1>3, <1>4, <1>5 DEF Charged

(* Counting a failure: the one charged to the fault that is counted now, if *)
(* there is one, takes over the fault of the failure that is gone.          *)
LEMMA ChargedCounted ==
  ASSUME NEW S, NEW T, NEW x \in S, NEW a \in Nat, NEW b \in Nat, NEW k \in Nat, NEW l \in Nat,
         Charged(S, a, k), T \subseteq S, x \notin T, b <= a + 1, k <= l
  PROVE  Charged(T, b, l)
<1>1. PICK f \in [S -> (a + 1)..k] : \A d, e \in S : f[d] = f[e] => d = e
  BY DEF Charged
<1> DEFINE g == [d \in T |-> IF f[d] = a + 1 THEN f[x] ELSE f[d]]
<1>2. \A d \in S : f[d] \in Nat /\ a + 1 <= f[d] /\ f[d] <= k
  BY <1>1
<1>3. \A d \in T : d \in S /\ f[d] # f[x]
  BY <1>1
<1>4. g \in [T -> (b + 1)..l]
  <2>1. \A d \in T : (IF f[d] = a + 1 THEN f[x] ELSE f[d]) \in (b + 1)..l
    BY <1>2, <1>3
  <2> QED
    BY <2>1
<1>5. ASSUME NEW d \in T, NEW e \in T, g[d] = g[e]
      PROVE  d = e
  <2>1. f[d] = f[e]
    BY <1>3, <1>5
  <2> QED
    BY Zenon, <1>1, <1>3, <2>1
<1>6. b <= l
  BY <1>2
<1> QED
  BY Zenon, <1>4, <1>5, <1>6 DEF Charged

(* The bound for one row. *)
Tries(i) == Charged(Failing(i), outbox[i].attempts, faults)

(* Every failed publish of a row has cost a fault, so with fewer faults     *)
(* than publish attempts no dispatcher gives up.                            *)
LEMMA TriesStep ==
  ASSUME TypeInv, TriesInv, [Next]_vars, MaxFaults < OutboxMaxAttempts
  PROVE  TriesInv'
<1>t. DispatchersOK /\ OutboxTableOK /\ OutboxTableOK'
  BY TypeStep, TypeParts, TypePartsNext
<1>f. faults \in Nat /\ faults' \in Nat /\ faults <= faults' /\ faults' <= MaxFaults
  BY FaultsGrow
<1>n. \A i \in OutboxIds : outbox[i].attempts \in Nat /\ outbox'[i].attempts \in Nat
  BY <1>t DEF OutboxTableOK, OutboxRow
<1>c. \A i \in OutboxIds : Tries(i) /\ outbox[i].attempts <= faults
  BY Zenon DEF TriesInv, Tries, Charged
<1>0. ASSUME NEW i \in OutboxIds, outbox'[i].attempts <= outbox[i].attempts,
             Failing(i)' \subseteq Failing(i)
      PROVE  Tries(i)'
  BY Zenon, <1>0, <1>c, <1>f, <1>n, ChargedLess DEF Tries
<1>up. ASSUME NEW i \in OutboxIds, NEW d \in Dispatchers, Failing(i)' \subseteq Failing(i) \cup {d},
              outbox'[i].attempts <= outbox[i].attempts, faults' = faults + 1
       PROVE  Tries(i)'
  <2>1. faults < faults'
    BY <1>f, <1>up
  <2>2. \A t \in Failing(i)' : t \in Failing(i) \/ t = d
    BY Zenon, <1>up
  <2> QED
    <3> DEFINE S == Failing(i)
               T == Failing(i)'
               a == outbox[i].attempts
               b == outbox'[i].attempts
               k == faults
               l == faults'
    <3>1. a \in Nat /\ b \in Nat /\ k \in Nat /\ l \in Nat /\ Charged(S, a, k) /\ b <= a
      BY Zenon, <1>up, <1>c, <1>f, <1>n DEF Tries
    <3>2. k < l /\ \A t \in T : t \in S \/ t = d
      BY Zenon, <2>1, <2>2
    <3>3. Charged(T, b, l) => Tries(i)'
      BY Zenon DEF Tries
    <3> HIDE DEF S, T, a, b, k, l
    <3> QED
      BY Zenon, <3>1, <3>2, <3>3, ChargedMore
<1>dn. ASSUME NEW i \in OutboxIds, NEW d \in Failing(i), Failing(i)' \subseteq Failing(i) \ {d},
              outbox'[i].attempts <= outbox[i].attempts + 1
       PROVE  Tries(i)'
  <2>1. Failing(i)' \subseteq Failing(i) /\ d \notin Failing(i)'
    BY Zenon, <1>dn
  <2> QED
    BY Zenon, <1>dn, <1>c, <1>f, <1>n, <2>1, ChargedCounted DEF Tries
<1>1. CASE UNCHANGED outboxVars
  <2>1. AttemptsFall(OutboxIds)
    BY Zenon, <1>1, <1>t, AttemptsMove DEF MarkRowFailed, DDone, DGoto, DispatchersOK, OutboxTypeOK
  <2>2. \A i \in OutboxIds : Failing(i)' = Failing(i)
    BY <1>1 DEF Failing
  <2>3. \A i \in OutboxIds : Tries(i)'
    BY Zenon, <1>0, <2>1, <2>2 DEF AttemptsFall
  <2>4. \A d \in Dispatchers : /\ \A c \in batch'[d] : c[2] <= faults'
                               /\ dpc'[d] \notin {"giveUp", "giveUpInsert", "giveUpMark"}
    <3>1. \A d \in Dispatchers : \A c \in batch[d] : c[2] \in Nat
      BY <1>t DEF DispatchersOK, OutboxTypeOK
    <3> QED
      BY <1>1, <1>f, <3>1 DEF TriesInv
  <2> QED
    BY Zenon, <2>3, <2>4 DEF TriesInv, Tries
<1>2. ASSUME NEW d \in Dispatchers, DispatcherStep(d) \/ DispatcherCrash(d)
      PROVE  TriesInv'
  <2>b. ASSUME NEW e \in Dispatchers, NEW c \in batch[e]
        PROVE  c[2] \in Nat /\ c[2] <= faults /\ c[1] \in OutboxIds
    <3>1. batch[e] \subseteq OutboxIds \X Nat
      BY Zenon, <1>t DEF DispatchersOK, OutboxTypeOK
    <3>2. c[2] <= faults
      BY Zenon DEF TriesInv
    <3> QED
      BY <2>b, <3>1, <3>2
  <2>1. \A e \in Dispatchers \ {d} : dpc'[e] = dpc[e] /\ cur'[e] = cur[e] /\ batch'[e] = batch[e]
    BY Zenon, <1>t, <1>2 DEF DispatchersOK, OutboxTypeOK, DispatcherStep, ClaimOutboxBatch, PublishRow,
       MarkPublished, MarkRowQueued, MarkRowFailed, GiveUp, GiveUpInsert, GiveUpMark,
       DispatcherCrash, DDone, DGoto
  <2>2. ASSUME \A i \in OutboxIds : Tries(i)', \A c \in batch'[d] : c[2] \in Nat /\ c[2] <= faults',
               dpc'[d] \notin {"giveUp", "giveUpInsert", "giveUpMark"}
        PROVE  TriesInv'
    <3>1. ASSUME NEW e \in Dispatchers
          PROVE  /\ \A c \in batch'[e] : c[2] <= faults'
                 /\ dpc'[e] \notin {"giveUp", "giveUpInsert", "giveUpMark"}
      BY <1>f, <2>b, <2>1, <2>2 DEF TriesInv
    <3> QED
      BY Zenon, <2>2, <3>1 DEF TriesInv, Tries
  <2>3. CASE ClaimOutboxBatch(d)
    <3>1. UNCHANGED <<dpc, cur>> /\ AttemptsFall(OutboxIds)
      BY Zenon, <1>t, <2>3, AttemptsMove
         DEF ClaimOutboxBatch, MarkRowFailed, DDone, DGoto, DispatchersOK, OutboxTypeOK
    <3>2. \A i \in OutboxIds : Tries(i)'
      BY Zenon, <1>0, <3>1 DEF AttemptsFall, Failing
    <3>3. \A c \in batch'[d] : c[2] \in Nat /\ c[2] <= faults'
      <4>1. Oldest(Claimable, BatchSize) \subseteq OutboxIds
        BY DEF Oldest, Claimable, Unpublished
      <4>2. PICK S : /\ S \subseteq OutboxIds
                     /\ \/ batch'[d] = {<<i, outbox[i].attempts>> : i \in S}
                        \/ batch'[d] = batch[d]
        BY Zenon, <1>t, <2>3, <4>1 DEF ClaimOutboxBatch, DispatchersOK, OutboxTypeOK
      <4>3. \A c \in {<<i, outbox[i].attempts>> : i \in S} : c[2] \in Nat /\ c[2] <= faults'
        BY <1>c, <1>f, <1>n, <4>2
      <4> QED
        BY <1>f, <2>b, <4>2, <4>3
    <3> QED
      BY Zenon, <2>2, <3>1, <3>2, <3>3 DEF TriesInv
  <2>4. CASE PublishRow(d)
    <3>1. PICK c \in batch[d] : PublishRow(d)!(c)
      BY Zenon, <2>4 DEF PublishRow
    <3>2. /\ UNCHANGED outbox /\ batch'[d] \subseteq batch[d] /\ cur'[d] = c
          /\ \/ dpc'[d] = "mark"
             \/ /\ dpc'[d] = IF c[2] + 1 >= OutboxMaxAttempts THEN "giveUp" ELSE "markFailed"
                /\ faults' = faults + 1
      BY Zenon, <1>t, <3>1 DEF DGoto, Fault, DispatchersOK, OutboxTypeOK
    <3>3. dpc'[d] = "mark" \/ (dpc'[d] = "markFailed" /\ faults' = faults + 1)
      BY <1>f, <2>b, <3>1, <3>2, OutboxAssumption, FaultsAssumption
    <3>4. ASSUME NEW i \in OutboxIds
          PROVE  Tries(i)'
      <4>1. CASE dpc'[d] = "markFailed" /\ i = c[1]
        <5>1. Failing(i)' \subseteq Failing(i) \cup {d}
          BY Zenon, <2>1 DEF Failing
        <5> QED
          BY <1>n, <1>up, <3>2, <3>3, <4>1, <5>1
      <4>2. CASE ~(dpc'[d] = "markFailed" /\ i = c[1])
        <5>1. Failing(i)' \subseteq Failing(i)
          BY Zenon, <2>1, <3>2, <4>2 DEF Failing
        <5> QED
          BY <1>0, <1>n, <3>2, <5>1
      <4> QED
        BY Zenon, <4>1, <4>2
    <3> QED
      BY <1>f, <2>b, <2>2, <3>2, <3>3, <3>4
  <2>5. CASE MarkRowFailed(d)
    <3>1. dpc[d] = "markFailed" /\ dpc'[d] = "ready" /\ UNCHANGED batch /\ cur[d][1] \in OutboxIds
      BY Zenon, <1>t, <2>5 DEF MarkRowFailed, DDone, DGoto, DispatchersOK, OutboxTypeOK, HasRow, InsertedRow
    <3>2. ASSUME NEW e \in Dispatchers, MarkRowFailed(e)
          PROVE  e = d
      BY <1>t, <2>1, <3>2 DEF MarkRowFailed, DDone, DGoto, DispatchersOK, OutboxTypeOK
    <3>3. /\ AttemptsFall(OutboxIds \ {cur[d][1]})
          /\ outbox'[cur[d][1]].attempts <= outbox[cur[d][1]].attempts + 1
      <4>1. AttemptsFall(OutboxIds) =>
              /\ AttemptsFall(OutboxIds \ {cur[d][1]})
              /\ outbox'[cur[d][1]].attempts <= outbox[cur[d][1]].attempts
        BY Zenon, <3>1 DEF AttemptsFall
      <4>2. \A a, b \in Nat : a <= b => a <= b + 1
        OBVIOUS
      <4> QED
        BY Zenon, <1>n, <3>1, <3>2, <4>1, <4>2, AttemptsMove
    <3>4. ASSUME NEW i \in OutboxIds
          PROVE  Tries(i)'
      <4>0. Failing(i)' \subseteq Failing(i) \ {d}
        BY Zenon, <2>1, <3>1 DEF Failing
      <4>1. CASE i = cur[d][1]
        <5>1. d \in Failing(i)
          BY Zenon, <3>1, <4>1 DEF Failing
        <5> QED
          BY Zenon, <1>dn, <3>3, <4>0, <4>1, <5>1
      <4>2. CASE i # cur[d][1]
        BY Zenon, <1>0, <3>3, <4>0, <4>2 DEF AttemptsFall
      <4> QED
        BY Zenon, <4>1, <4>2
    <3> QED
      BY <1>f, <2>b, <2>2, <3>1, <3>4
  <2>6. CASE \/ MarkPublished(d) \/ MarkRowQueued(d) \/ DispatcherCrash(d)
             \/ GiveUp(d) \/ GiveUpInsert(d) \/ GiveUpMark(d)
    <3>1. dpc'[d] \in {"ready", "markQueued"} /\ batch'[d] \subseteq batch[d]
      BY Zenon, <1>t, <2>6 DEF MarkPublished, MarkRowQueued, DispatcherCrash, GiveUp, GiveUpInsert,
         GiveUpMark, DDone, DGoto, DispatchersOK, OutboxTypeOK, TriesInv
    <3>2. ASSUME NEW e \in Dispatchers, MarkRowFailed(e)
          PROVE  DispatcherCrash(d)
      <4>1. dpc[e] = "markFailed" /\ dpc'[e] = "ready"
        BY <1>t, <3>2 DEF MarkRowFailed, DDone, DGoto, DispatchersOK, OutboxTypeOK
      <4>2. e = d
        BY <2>1, <4>1
      <4> QED
        BY Zenon, <2>6, <4>1, <4>2 DEF MarkPublished, MarkRowQueued, GiveUp, GiveUpInsert, GiveUpMark,
           DDone, DGoto
    <3>3. AttemptsFall(OutboxIds)
      <4>1. DispatcherCrash(d) => AttemptsFall(OutboxIds)
        <5>1. \A a \in Nat : a <= a
          OBVIOUS
        <5>2. DispatcherCrash(d) => outbox' = outbox
          BY Zenon DEF DispatcherCrash
        <5> QED
          BY Zenon, <1>n, <5>1, <5>2 DEF AttemptsFall
      <4> QED
        BY Zenon, <3>2, <4>1, AttemptsMove
    <3>4. \A i \in OutboxIds : Tries(i)'
      BY Zenon, <1>0, <2>1, <3>1, <3>3 DEF AttemptsFall, Failing
    <3> QED
      BY <1>f, <2>b, <2>2, <3>1, <3>4
  <2> QED
    BY Zenon, <1>2, <2>3, <2>4, <2>5, <2>6 DEF DispatcherStep
<1> QED
  BY Zenon, <1>1, <1>2, DispatchersMove

-----------------------------------------------------------------------------
(* A notification is dead-lettered only after a request for it was made:    *)
(* breaker, throttling, crashes, cancelled handlers and failed calls never  *)
(* dead-letter, nor do fewer lost publishes than a dispatcher's attempts.   *)
THEOREM DeadLettersWereTried ==
  ASSUME MaxFaults < OutboxMaxAttempts
  PROVE  Spec => []DeadLetterNeedsAttempt
<1>1. Init => TriesInv /\ AttemptInv
  <2> SUFFICES ASSUME Init PROVE TriesInv /\ AttemptInv
    OBVIOUS
  <2>1. \A i \in OutboxIds : Failing(i) = {} /\ outbox[i].attempts = 0
    BY DEF Init, OutboxInit, StoreInit, FreeRow, Failing
  <2>2. faults = 0 /\ \A d \in Dispatchers : dpc[d] = "ready" /\ batch[d] = {}
    BY Zenon DEF Init, FaultsInit, OutboxInit
  <2>3. Charged({}, 0, 0)
    <3>1. \E f : f \in [{} -> (0 + 1)..0]
      <4>1. [d \in {} |-> 0] \in [{} -> (0 + 1)..0]
        OBVIOUS
      <4> QED
        BY Zenon, <4>1
    <3>2. 0 <= 0
      OBVIOUS
    <3> QED
      BY Zenon, <3>1, <3>2 DEF Charged
  <2>4. TriesInv
    BY Zenon, <2>1, <2>2, <2>3 DEF TriesInv
  <2>5. /\ \A n \in Notifs : status[n] # "dead_letter"
        /\ \A w \in Workers : pc[w] = "idle"
    BY Zenon DEF Init, StoreInit, WorkerInit
  <2>6. AttemptInv
    BY Zenon, <2>5 DEF AttemptInv, DeadLetterNeedsAttempt
  <2> QED
    BY <2>4, <2>6
<1>2. /\ TypeInv /\ TriesInv /\ [Next]_vars => TriesInv'
      /\ TypeInv /\ TriesInv /\ AttemptInv /\ [Next]_vars => AttemptInv'
  BY TriesStep, AttemptStep
<1>3. AttemptInv => DeadLetterNeedsAttempt
  BY DEF AttemptInv
<1> QED
  BY <1>1, <1>2, <1>3, TypeCorrect, PTL DEF Spec

-----------------------------------------------------------------------------
(* Repeated requests *)

(* One more counted is charged to the new fault. *)
LEMMA ChargedPaid ==
  ASSUME NEW S, NEW T, NEW a \in Nat, NEW b \in Nat, NEW k \in Nat, NEW l \in Nat,
         Charged(S, a, k), T \subseteq S, b <= a + 1, k < l
  PROVE  Charged(T, b, l)
<1>1. PICK f \in [S -> (a + 1)..k] : \A d, e \in S : f[d] = f[e] => d = e
  BY DEF Charged
<1>0. a <= k
  BY DEF Charged
<1> DEFINE g == [d \in T |-> f[d] + 1]
<1>2. \A d \in T : d \in S /\ f[d] \in Nat /\ a + 1 <= f[d] /\ f[d] <= k
  BY <1>1
<1>3. g \in [T -> (b + 1)..l]
  <2>1. \A d \in T : f[d] + 1 \in (b + 1)..l
    BY <1>2
  <2> QED
    BY <2>1
<1>4. ASSUME NEW d \in T, NEW e \in T, g[d] = g[e]
      PROVE  d = e
  <2>1. f[d] = f[e]
    BY <1>2, <1>4
  <2> QED
    BY Zenon, <1>1, <1>2, <2>1
<1>5. b <= l
  BY <1>0
<1> QED
  BY Zenon, <1>3, <1>4, <1>5 DEF Charged

(* A settled row stays settled. *)
LEMMA SettledStays ==
  ASSUME RowTypeOK, NEW n \in Notifs, RowQuery(n), Settled(n)
  PROVE  Settled(n)'
<1>1. ~MarkSendingCAS(n) /\ ~MarkSent(n) /\ ~CancelPendingOrQueued(n)
  BY DEF MarkSendingCAS, MarkSent, CancelPendingOrQueued, Pickable, IsSending, Cancellable, Settled
<1>2. MarkDeadLetter(n) => Settled(n)'
  BY DEF MarkDeadLetter, SetStatus, RowTypeOK, Settled
<1>3. status[n] \notin {"pending", "sending"}
  BY DEF Settled
<1> QED
  BY Zenon, <1>1, <1>2, <1>3, RowQueryLocal DEF RowQuery, RowStays, Settled

(* The labels of a worker that may make, or has just made, a request. *)
Engaged(w) == pc[w] \in UnacceptedLabels \cup AnsweredLabels

(* A handler comes to them from the pickup, with a live context. *)
LEMMA HandlerEngages ==
  ASSUME TypeInv, NEW w \in Workers, HandlerStep(w), ~Settle(w)
  PROVE  /\ pc'[w] # "cas"
         /\ Engaged(w)' => Engaged(w) \/ (pc[w] = "cas" /\ ~CtxDone(w) /\ Pickable(job[w]))
<1>t. pc \in [Workers -> Labels]
  BY TypeParts DEF ControlOK
<1> USE DEF Goto, Engaged, UnacceptedLabels, AnsweredLabels
<1>1. CASE CASHit(w) \/ CASMiss(w) \/ CASError(w)
  BY Zenon, <1>t, <1>1 DEF CASHit, CASMiss, CASError, CallOk, MarkSendingCAS
<1>2. CASE AcquireLock(w) \/ LockHeld(w) \/ SetNXError(w) \/ DeferToHolder(w)
  BY Zenon, <1>t, <1>2 DEF AcquireLock, LockHeld, SetNXError, DeferToHolder
<1>3. CASE TakeAllowed(w) \/ TakeThrottled(w) \/ TakeError(w)
  BY Zenon, <1>t, <1>3 DEF TakeAllowed, TakeThrottled, TakeError
<1>4. CASE StartCall(w) \/ BreakerOpen(w) \/ SendCancelled(w)
  BY Zenon, <1>t, <1>4 DEF StartCall, BreakerOpen, SendCancelled, AfterFailure
<1>5. CASE CallSucceeds(w) \/ CallFailsRetryable(w) \/ CallFailsTerminal(w)
  BY Zenon, <1>t, <1>5 DEF CallSucceeds, CallFailsRetryable, CallFailsTerminal, AfterFailure
<1>6. CASE RecordAttempt(w) \/ RevertForRetry(w) \/ routeToRetryTier(w)
  BY Zenon, <1>t, <1>6 DEF RecordAttempt, RevertForRetry, routeToRetryTier
<1>7. CASE TerminalMark(w) \/ TerminalInsert(w) \/ Unlock(w) \/ requeueViaWaitTier(w)
  BY Zenon, <1>t, <1>7 DEF TerminalMark, TerminalInsert, Unlock, requeueViaWaitTier
<1>8. CASE MarkSentOk(w) \/ MarkSentError(w) \/ UndoAfterMarkSent(w)
  BY Zenon, <1>t, <1>8 DEF MarkSentOk, MarkSentError, UndoAfterMarkSent
<1> QED
  BY Zenon, <1>1, <1>2, <1>3, <1>4, <1>5, <1>6, <1>7, <1>8 DEF HandlerStep

(* So no handler's call dooms it. *)
LEMMA HandlerDoomed ==
  ASSUME TypeInv, NEW w \in Workers, HandlerStep(w), ~Settle(w), NEW n
  PROVE  Doomed(n)' \subseteq Doomed(n)
<1>1. UNCHANGED <<job, left, unacked>> /\ \A v \in Workers \ {w} : pc'[v] = pc[v]
  BY Zenon, HandlerControl, HandlerLocal DEF Control
<1>2. /\ pc'[w] # "cas"
      /\ Engaged(w)' => Engaged(w) \/ (pc[w] = "cas" /\ ~CtxDone(w))
  BY Zenon, HandlerEngages
<1>3. ASSUME NEW v \in Workers, v \in Doomed(n)'
      PROVE  v \in Doomed(n)
  <2>1. CASE v # w
    BY <1>1, <1>3, <2>1 DEF Doomed, CtxDone
  <2>2. CASE v = w
    BY <1>1, <1>2, <1>3, <2>2 DEF Doomed, Engaged, CtxDone
  <2> QED
    BY <2>1, <2>2
<1> QED
  BY <1>3 DEF Doomed

(* A worker is doomed by a fault, one worker of a notification at a time.   *)
LEMMA DoomedMoves ==
  ASSUME TypeInv, OwnInv, [Next]_vars, NEW n \in Notifs
  PROVE  \/ Doomed(n)' \subseteq Doomed(n)
         \/ faults' = faults + 1 /\ \E x : \A v \in Doomed(n)' : v \in Doomed(n) \/ v = x
<1>t. ControlOK
  BY TypeParts
<1>0. ASSUME UNCHANGED <<pc, job, left, unacked>>
      PROVE  Doomed(n)' \subseteq Doomed(n)
  BY Zenon, <1>0 DEF Doomed, CtxDone
<1>1. ASSUME NEW w \in Workers, HandlerStep(w), ~Settle(w)
      PROVE  Doomed(n)' \subseteq Doomed(n)
  BY Zenon, <1>1, HandlerDoomed
<1>w. ASSUME NEW w \in Workers,
             \A v \in Workers \ {w} : /\ pc'[v] = pc[v] /\ job'[v] = job[v]
                                      /\ left'[v] = left[v] /\ unacked'[v] = unacked[v]
      PROVE  /\ \A v \in Doomed(n)' : v \in Doomed(n) \/ v = w
             /\ w \notin Doomed(n)' \/ w \in Doomed(n) => Doomed(n)' \subseteq Doomed(n)
  BY <1>w DEF Doomed, CtxDone
<1>2. ASSUME NEW w \in Workers, Settle(w) \/ WorkerCrash(w)
      PROVE  Doomed(n)' \subseteq Doomed(n)
  <2>1. /\ pc'[w] = "idle"
        /\ \A v \in Workers \ {w} : /\ pc'[v] = pc[v] /\ job'[v] = job[v]
                                    /\ left'[v] = left[v] /\ unacked'[v] = unacked[v]
    BY Zenon, <1>t, <1>2 DEF Settle, WorkerCrash, Reset, ControlOK
  <2>2. w \notin Doomed(n)'
    BY <2>1 DEF Doomed, UnacceptedLabels, AnsweredLabels
  <2> QED
    BY Zenon, <1>w, <2>1, <2>2
<1>3. ASSUME NEW w \in Workers, Deliver(w)
      PROVE  Doomed(n)' \subseteq Doomed(n)
  <2>1. PICK m \in Message : Deliver(w)!(m)
    BY Zenon, <1>3 DEF Deliver
  <2>2. /\ pc'[w] \in {"cas", "settle"} /\ unacked'[w]
        /\ \A v \in Workers \ {w} : /\ pc'[v] = pc[v] /\ job'[v] = job[v]
                                    /\ left'[v] = left[v] /\ unacked'[v] = unacked[v]
    BY Zenon, <1>t, <2>1 DEF ControlOK, Goto
  <2>3. w \notin Doomed(n)'
    BY <2>2 DEF Doomed, UnacceptedLabels, AnsweredLabels
  <2> QED
    BY Zenon, <1>w, <2>2, <2>3
<1>4. ASSUME NEW w \in Workers, ConnectionLost(w) \/ Shutdown(w)
      PROVE  \/ Doomed(n)' \subseteq Doomed(n)
             \/ faults' = faults + 1 /\ \A v \in Doomed(n)' : v \in Doomed(n) \/ v = w
  <2>1. /\ UNCHANGED <<pc, job>>
        /\ \A v \in Workers \ {w} : left'[v] = left[v] /\ unacked'[v] = unacked[v]
        /\ faults' = faults + 1 \/ (~unacked[w] /\ UNCHANGED unacked)
    BY Zenon, <1>t, <1>4 DEF ConnectionLost, Shutdown, Fault, NoFault, ControlOK
  <2>2. CASE faults' = faults + 1
    BY Zenon, <1>w, <2>1, <2>2
  <2>3. CASE ~unacked[w] /\ UNCHANGED unacked
    <3>1. w \in Doomed(n)' => w \in Doomed(n)
      BY <2>1, <2>3 DEF Doomed
    <3> QED
      BY Zenon, <1>w, <2>1, <3>1
  <2> QED
    BY Zenon, <2>1, <2>2, <2>3
<1>5. CASE Tick
  <2>1. UNCHANGED <<pc, job, unacked>> /\ \A v \in Workers : Busy(v) => ~CtxDone(v)
    BY Zenon, <1>5 DEF Tick
  <2>2. CASE \E v \in Workers : Busy(v) /\ left[v] = 1
    <3>1. faults' = faults + 1
      BY Zenon, <1>5, <2>2 DEF Tick, Fault
    <3>2. ASSUME NEW v \in Doomed(n)', v \notin Doomed(n)
          PROVE  v \in Workers /\ Owns(v) /\ job[v] = n
      BY <2>1, <3>2 DEF Doomed, UnacceptedLabels, AnsweredLabels, Owns, OwningLabels
    <3>3. \A v, x : v \in Doomed(n)' /\ v \notin Doomed(n) /\ x \in Doomed(n)' /\ x \notin Doomed(n)
                      => v = x
      BY Zenon, <3>2 DEF OwnInv, SoleOwner
    <3> QED
      BY Zenon, <3>1, <3>3
  <2>3. CASE ~ \E v \in Workers : Busy(v) /\ left[v] = 1
    <3>1. \A v \in Workers : Busy(v) => ~CtxDone(v)'
      BY <1>t, <1>5, <2>1, <2>3 DEF Tick, CtxDone, ControlOK
    <3>2. \A v \in Workers : Engaged(v) => Busy(v)
      BY DEF Engaged, UnacceptedLabels, AnsweredLabels, Busy
    <3> QED
      BY Zenon, <2>1, <3>1, <3>2 DEF Doomed, Engaged
  <2> QED
    BY Zenon, <2>2, <2>3
<1>6. CASE \/ OutboxNext /\ UNCHANGED <<workerVars, lockTTL, observedVars>>
           \/ \E k \in Notifs : Create(k) \/ Cancel(k)
           \/ Sweep
           \/ \E m \in Message : WaitTierExpires(m)
           \/ UNCHANGED vars
  BY Zenon, <1>0, <1>6 DEF Create, Cancel, Sweep, WaitTierExpires, nonStoreVars, vars
<1>7. CASE WorkerNext
  BY Zenon, <1>1, <1>2, <1>3, <1>4, <1>5, <1>7 DEF WorkerNext
<1> QED
  BY Zenon, <1>6, <1>7 DEF Next

(* What is secured stays secured when no handler makes a call. *)
LEMMA QuietSecured ==
  ASSUME Quiet, NEW n \in Notifs, Secured(n)
  PROVE  Secured(n)'
<1>1. ASSUME NEW w \in Workers, pc[w] \in AnsweredLabels, job[w] = n
      PROVE  Secured(n)'
  <2>1. pc'[w] = pc[w] /\ job'[w] = job[w]
    BY <1>1 DEF Quiet, QuietWorker, AnsweredLabels
  <2> QED
    BY Zenon, <1>1, <2>1 DEF Secured
<1>2. ASSUME Settled(n), \A w \in Workers : pc[w] \in UnacceptedLabels => job[w] # n
      PROVE  Secured(n)'
  <2>1. Settled(n)'
    BY <1>2 DEF Quiet, QuietRow, StuckSending, SendingRows, IsSending, Settled
  <2>2. ASSUME NEW w \in Workers, pc'[w] \in UnacceptedLabels
        PROVE  job'[w] # n
    <3>1. pc'[w] = pc[w] /\ job'[w] = job[w]
      BY <2>2 DEF Quiet, QuietWorker, UnacceptedLabels
    <3> QED
      BY Zenon, <1>2, <2>2, <3>1
  <2> QED
    BY Zenon, <2>1, <2>2 DEF Secured
<1> QED
  BY Zenon, <1>1, <1>2 DEF Secured

(* What a handler's call does to the acceptances of its notification: it    *)
(* leaves them as they are, secured if they were; it leaves the last one    *)
(* unrecorded, which costs a fault or was paid for when the worker was      *)
(* doomed; or it adds one, secured or at the cost of a fault.               *)
LEMMA HandlerSecured ==
  ASSUME TypeInv, OwnInv, NEW w \in Workers, HandlerStep(w), ~Settle(w)
  PROVE  \/ /\ accepted' = accepted
            /\ \/ Secured(job[w]) => Secured(job[w])'
               \/ faults' = faults + 1
               \/ w \in Doomed(job[w]) /\ w \notin Doomed(job[w])'
         \/ /\ accepted' = [accepted EXCEPT ![job[w]] = @ + 1]
            /\ ~Secured(job[w])
            /\ Secured(job[w])' \/ faults' = faults + 1
<1> DEFINE n == job[w]
<1>t. pc \in [Workers -> Labels] /\ RowTypeOK
  BY TypeParts DEF ControlOK
<1>l. n \in Notifs /\ UNCHANGED <<job, left, unacked>> /\ \A v \in Workers \ {w} : pc'[v] = pc[v]
  BY Zenon, HandlerControl, HandlerLocal DEF Control
<1>j. n' = n
  BY Zenon, <1>l
<1>q. Settled(n) => Settled(n)'
  BY Zenon, <1>t, <1>l, <1>j, HandlerTables, SettledStays DEF Settled
<1>o. \A v \in Workers : v # w /\ Owns(v) /\ Owns(w) => job[v] # n
  BY DEF OwnInv, SoleOwner
<1>s. \A v \in Workers : Engaged(v) => Owns(v)
  BY DEF Engaged, UnacceptedLabels, AnsweredLabels, Owns, OwningLabels
<1>h. Owns(w) => Held(n, w)
  BY DEF OwnInv
<1>e. Engaged(w)' => Engaged(w) \/ Pickable(n)
  BY Zenon, HandlerEngages
<1> HIDE DEF n
<1>u. ASSUME pc[w] \in UnacceptedLabels
      PROVE  ~Secured(n)
  <2>1. w \in Workers /\ job[w] = n /\ Owns(w) /\ pc[w] \notin AnsweredLabels
    BY Zenon, <1>s, <1>u DEF n, Engaged, UnacceptedLabels, AnsweredLabels
  <2> QED
    BY Zenon, <1>o, <1>s, <1>u, <2>1 DEF Secured, Engaged
<1>d. ASSUME Settled(n)', Owns(w), pc'[w] \notin UnacceptedLabels
      PROVE  Secured(n)'
  <2>1. \A v \in Workers : pc'[v] \in UnacceptedLabels => job'[v] # n
    BY Zenon, <1>d, <1>l, <1>o, <1>s DEF Engaged
  <2> QED
    BY Zenon, <1>d, <1>j, <2>1 DEF Secured
<1>a. ASSUME pc[w] \notin UnacceptedLabels \cup AnsweredLabels, Secured(n)
      PROVE  Secured(n)'
  <2>1. ASSUME NEW v \in Workers, pc[v] \in AnsweredLabels, job[v] = n
        PROVE  Secured(n)'
    <3>1. pc'[v] \in AnsweredLabels /\ job'[v] = n
      BY Zenon, <1>a, <1>l, <2>1
    <3> QED
      BY Zenon, <1>j, <3>1 DEF Secured
  <2>2. ASSUME Settled(n), \A v \in Workers : pc[v] \in UnacceptedLabels => job[v] # n
        PROVE  Secured(n)'
    <3>1. ~Pickable(n)
      BY <2>2 DEF Pickable, Settled
    <3>2. pc'[w] \notin UnacceptedLabels
      BY Zenon, <1>a, <1>e, <3>1 DEF Engaged
    <3>3. \A v \in Workers : pc'[v] \in UnacceptedLabels => job'[v] # n
      BY Zenon, <1>l, <2>2, <3>2
    <3> QED
      BY Zenon, <1>j, <1>q, <2>2, <3>3 DEF Secured
  <2> QED
    BY Zenon, <1>a, <2>1, <2>2 DEF Secured
<1>1. CASE CallSucceeds(w)
  <2>1. /\ pc[w] = "inCall" /\ pc'[w] = "recordOk"
        /\ accepted' = [accepted EXCEPT ![n] = @ + 1]
    BY Zenon, <1>t, <1>1 DEF CallSucceeds, Goto, n
  <2>2. Secured(n)'
    BY Zenon, <1>j, <1>l, <2>1 DEF Secured, AnsweredLabels, n
  <2> QED
    BY Zenon, <1>u, <2>1, <2>2 DEF n, UnacceptedLabels
<1>2. CASE CallFailsRetryable(w)
  <2>1. /\ pc[w] = "inCall"
        /\ \/ accepted' = accepted
           \/ accepted' = [accepted EXCEPT ![n] = @ + 1] /\ faults' = faults + 1
    BY Zenon, <1>2 DEF CallFailsRetryable, Goto, Fault, n
  <2> QED
    BY Zenon, <1>u, <2>1 DEF n, UnacceptedLabels
<1>3. CASE MarkSentOk(w)
  <2>1. pc[w] = "markSent" /\ pc'[w] = "unlock" /\ MarkSent(n) /\ accepted' = accepted
    BY Zenon, <1>t, <1>3 DEF MarkSentOk, Goto, n
  <2>2. status'[n] = "sent"
    BY Zenon, <1>t, <1>l, <2>1, RowQueryLocal DEF RowQuery
  <2>3. Secured(n)'
    BY Zenon, <1>d, <1>j, <2>1, <2>2 DEF Settled, Owns, OwningLabels, UnacceptedLabels
  <2> QED
    BY Zenon, <2>1, <2>3 DEF n
<1>4. CASE MarkSentError(w)
  <2>1. /\ pc[w] = "markSent" /\ pc'[w] = "undo" /\ accepted' = accepted
        /\ \/ ~IsSending(n) /\ UNCHANGED rowVars
           \/ CtxDone(w)
           \/ faults' = faults + 1
    BY Zenon, <1>t, <1>4 DEF MarkSentError, CallFails, CallLost, Fault, Goto, n
  <2>2. CASE ~IsSending(n) /\ UNCHANGED rowVars
    <3>1. Settled(n)'
      BY <1>h, <1>j, <2>1, <2>2 DEF Owns, OwningLabels, Held, IsSending, Settled
    <3>2. Secured(n)'
      BY Zenon, <1>d, <2>1, <3>1 DEF Owns, OwningLabels, UnacceptedLabels
    <3> QED
      BY Zenon, <2>1, <3>2 DEF n
  <2>3. CASE CtxDone(w)
    <3>1. w \in Doomed(n) /\ w \notin Doomed(n)'
      BY <1>j, <2>1, <2>3 DEF Doomed, AnsweredLabels, UnacceptedLabels, n
    <3> QED
      BY Zenon, <2>1, <3>1 DEF n
  <2> QED
    BY Zenon, <2>1, <2>2, <2>3
<1>5. CASE RecordAttempt(w)
  <2>1. /\ accepted' = accepted
        /\ pc[w] \in UnacceptedLabels \/ pc'[w] = "markSent"
    BY Zenon, <1>t, <1>5 DEF RecordAttempt, Goto, UnacceptedLabels
  <2>2. pc'[w] = "markSent" => Secured(n)'
    BY Zenon, <1>j, <1>l DEF Secured, AnsweredLabels, n
  <2> QED
    BY Zenon, <1>u, <2>1, <2>2 DEF n
<1>6. CASE \/ AcquireLock(w) \/ LockHeld(w) \/ SetNXError(w) \/ DeferToHolder(w)
           \/ TakeAllowed(w) \/ TakeThrottled(w) \/ TakeError(w)
           \/ StartCall(w) \/ BreakerOpen(w) \/ SendCancelled(w)
           \/ CallFailsTerminal(w) \/ RevertForRetry(w) \/ TerminalMark(w)
  <2>1. accepted' = accepted /\ pc[w] \in UnacceptedLabels
    BY Zenon, <1>6 DEF AcquireLock, LockHeld, SetNXError, DeferToHolder, TakeAllowed, TakeThrottled,
       TakeError, StartCall, BreakerOpen, SendCancelled, CallFailsTerminal, RevertForRetry,
       TerminalMark, Goto, UnacceptedLabels
  <2> QED
    BY Zenon, <1>u, <2>1 DEF n
<1>7. CASE \/ CASHit(w) \/ CASMiss(w) \/ CASError(w) \/ routeToRetryTier(w) \/ TerminalInsert(w)
           \/ UndoAfterMarkSent(w) \/ Unlock(w) \/ requeueViaWaitTier(w)
  <2>1. accepted' = accepted /\ pc[w] \notin UnacceptedLabels \cup AnsweredLabels
    BY Zenon, <1>7 DEF CASHit, CASMiss, CASError, routeToRetryTier, TerminalInsert,
       UndoAfterMarkSent, Unlock, requeueViaWaitTier, Goto, UnacceptedLabels, AnsweredLabels
  <2> QED
    BY Zenon, <1>a, <2>1 DEF n
<1> QED
  BY Zenon, <1>1, <1>2, <1>3, <1>4, <1>5, <1>6, <1>7 DEF HandlerStep

(* The acceptances of n, and the one that is still to come. *)
Accepts(n) == accepted[n] + (IF Secured(n) THEN 0 ELSE 1)

(* Adding one keeps the order. *)
LEMMA Successor ==
  ASSUME NEW x \in Nat, NEW y \in Nat, x <= y
  PROVE  x + 1 \in Nat /\ y + 1 \in Nat /\ x + 1 <= y + 1
  OBVIOUS

(* Every acceptance but one has cost a fault, and so has every worker that  *)
(* is going to leave one unrecorded.                                        *)
LEMMA RepeatStep ==
  ASSUME TypeInv, OwnInv, RepeatInv, [Next]_vars
  PROVE  RepeatInv'
<1>f. faults \in Nat /\ faults' \in Nat /\ faults <= faults'
  BY FaultsGrow
<1>t. accepted \in [Notifs -> Nat] /\ accepted' \in [Notifs -> Nat]
  BY TypeStep, TypeParts, TypePartsNext DEF EffectOK
<1> SUFFICES ASSUME NEW n \in Notifs
             PROVE  Charged(Doomed(n)', Accepts(n)', faults' + 1)
  BY Zenon DEF RepeatInv, Accepts
<1> DEFINE S == Doomed(n)
           T == Doomed(n)'
           a == Accepts(n)
           b == Accepts(n)'
           k == faults + 1
           l == faults' + 1
<1>n. a \in Nat /\ b \in Nat /\ k \in Nat /\ l \in Nat /\ k <= l /\ Charged(S, a, k)
  <2>1. a \in Nat /\ b \in Nat
    BY <1>t DEF Accepts
  <2>2. k \in Nat /\ l \in Nat /\ k <= l
    BY Zenon, <1>f, Successor
  <2>3. Charged(S, a, k)
    BY Zenon DEF RepeatInv, Accepts
  <2> QED
    BY Zenon, <2>1, <2>2, <2>3
<1>p. faults' = faults + 1 => k < l
  BY <1>f
<1>s. /\ accepted'[n] = accepted[n] /\ (Secured(n) => Secured(n)') => b <= a
      /\ accepted'[n] = accepted[n] => b <= a + 1
      /\ accepted'[n] = accepted[n] + 1 /\ ~Secured(n) => b <= a + 1
      /\ accepted'[n] = accepted[n] + 1 /\ ~Secured(n) /\ Secured(n)' => b <= a
  BY <1>t DEF Accepts
<1>d. S \subseteq Workers
  BY DEF Doomed
<1> HIDE DEF S, T, a, b, k, l
<1>1. ASSUME NEW w \in Workers, HandlerStep(w), ~Settle(w)
      PROVE  Charged(T, b, l)
  <2>1. T \subseteq S
    BY Zenon, <1>1, HandlerDoomed DEF S, T
  <2>2. CASE job[w] = n
    <3>1. \/ b <= a
          \/ b <= a + 1 /\ faults' = faults + 1
          \/ b <= a + 1 /\ w \in S /\ w \notin T
      <4>1. accepted' = [accepted EXCEPT ![n] = @ + 1] => accepted'[n] = accepted[n] + 1
        BY <1>t
      <4>2. job'[w] = n
        BY Zenon, <1>1, <2>2, HandlerLocal
      <4>3. \/ /\ accepted' = accepted
               /\ (Secured(n) => Secured(n)') \/ faults' = faults + 1 \/ (w \in S /\ w \notin T)
            \/ /\ accepted' = [accepted EXCEPT ![n] = @ + 1]
               /\ ~Secured(n)
               /\ Secured(n)' \/ faults' = faults + 1
        BY Zenon, <1>1, <2>2, <4>2, HandlerSecured DEF S, T
      <4> QED
        BY Zenon, <1>s, <4>1, <4>3
    <3> QED
      BY Zenon, <1>n, <1>p, <2>1, <3>1, ChargedLess, ChargedPaid, ChargedCounted
  <2>3. CASE job[w] # n
    <3>1. /\ UNCHANGED job /\ status'[n] = status[n]
          /\ \A v \in Workers \ {w} : pc'[v] = pc[v]
      BY Zenon, <1>1, <2>3, HandlerLocal DEF RowStays
    <3>2. accepted'[n] = accepted[n]
      <4>1. accepted' = accepted \/ accepted' = [accepted EXCEPT ![job[w]] = @ + 1]
        BY Zenon, <1>1, HandlerSecured
      <4> QED
        BY <1>t, <2>3, <4>1
    <3>3. Secured(n) => Secured(n)'
      BY Zenon, <2>3, <3>1 DEF Secured, Settled
    <3> QED
      BY Zenon, <1>n, <1>s, <2>1, <3>2, <3>3, ChargedLess
  <2> QED
    BY Zenon, <2>2, <2>3
<1>2. ASSUME NEW w \in Workers, WorkerCrash(w)
      PROVE  Charged(T, b, l)
  <2>1. accepted'[n] = accepted[n] /\ faults' = faults + 1
    BY Zenon, <1>2 DEF WorkerCrash, Fault
  <2>2. T \subseteq S
    <3>1. /\ pc'[w] = "idle"
          /\ \A v \in Workers \ {w} : /\ pc'[v] = pc[v] /\ job'[v] = job[v]
                                      /\ left'[v] = left[v] /\ unacked'[v] = unacked[v]
      BY Zenon, <1>2, TypeParts DEF WorkerCrash, Reset, ControlOK
    <3> QED
      BY <3>1 DEF S, T, Doomed, CtxDone, UnacceptedLabels, AnsweredLabels
  <2> QED
    BY Zenon, <1>n, <1>p, <1>s, <2>1, <2>2, ChargedPaid
<1>3. ASSUME Quiet
      PROVE  Charged(T, b, l)
  <2>1. b <= a
    BY Zenon, <1>3, <1>s, QuietSecured DEF Quiet
  <2>2. CASE T \subseteq S
    BY Zenon, <1>n, <2>1, <2>2, ChargedLess
  <2>3. ASSUME faults' = faults + 1, NEW x, \A v \in T : v \in S \/ v = x
        PROVE  Charged(T, b, l)
    BY Zenon, <1>n, <1>p, <2>1, <2>3, ChargedMore
  <2> QED
    BY Zenon, <2>2, <2>3, DoomedMoves DEF S, T
<1>4. Charged(T, b, l)
  BY Zenon, <1>1, <1>2, <1>3, StepKinds
<1> QED
  BY Zenon, <1>4 DEF T, b, l

(* A provider accepts a notification once, and once more for each fault at  *)
(* most: whatever faults happen and however many, a repeated request is     *)
(* paid for by a fault of its own.                                          *)
THEOREM RepeatsArePaidFor == Spec => []RepeatsCostFaults
<1>1. Init => RepeatInv
  <2> SUFFICES ASSUME Init, NEW n \in Notifs
               PROVE  Charged(Doomed(n), accepted[n] + (IF Secured(n) THEN 0 ELSE 1), faults + 1)
    BY Zenon DEF RepeatInv
  <2>1. \A w \in Workers : pc[w] = "idle"
    BY Zenon DEF Init, WorkerInit
  <2>2. Doomed(n) = {} /\ \A w \in Workers : pc[w] \notin AnsweredLabels
    BY <2>1 DEF Doomed, UnacceptedLabels, AnsweredLabels
  <2>3. ~Secured(n)
    <3>1. status[n] = "absent"
      BY Zenon DEF Init, StoreInit
    <3> QED
      BY <2>2, <3>1 DEF Secured, Settled
  <2>4. accepted[n] = 0 /\ faults = 0
    BY Zenon DEF Init, WorkerInit, FaultsInit
  <2>5. Charged({}, 1, 1)
    <3>1. [d \in {} |-> 0] \in [{} -> (1 + 1)..1] /\ 1 <= 1
      OBVIOUS
    <3> QED
      BY Zenon, <3>1 DEF Charged
  <2>6. accepted[n] + (IF Secured(n) THEN 0 ELSE 1) = 1 /\ faults + 1 = 1
    BY <2>3, <2>4
  <2> QED
    BY Zenon, <2>2, <2>5, <2>6
<1>2. TypeInv /\ RepeatInv => RepeatsCostFaults
  <2> SUFFICES ASSUME TypeInv, RepeatInv, NEW n \in Notifs
               PROVE  accepted[n] <= 1 + faults
    BY Zenon DEF RepeatsCostFaults
  <2>1. accepted[n] \in Nat /\ faults \in Nat
    BY TypeParts DEF EffectOK, FaultsTypeOK
  <2>2. accepted[n] + (IF Secured(n) THEN 0 ELSE 1) <= faults + 1
    BY Zenon DEF RepeatInv, Charged
  <2> QED
    BY <2>1, <2>2
<1> QED
  BY <1>1, <1>2, RepeatStep, TypeCorrect, OwnInvariant, PTL DEF Spec
=============================================================================

------------------------------- MODULE Faults -------------------------------
(***************************************************************************)
(* The environment's fault budget.  A fault is something the code cannot   *)
(* prevent but has a path for: a process killed between two calls, a call  *)
(* to Postgres, Redis or RabbitMQ that returns an error, an AMQP           *)
(* connection that drops while a delivery is being handled.  A model lets  *)
(* the kinds in FaultKinds happen, at most MaxFaults times in a behaviour. *)
(*                                                                         *)
(*   crash    a worker or dispatcher process dies                          *)
(*   conn     a replica's AMQP connection drops during a delivery          *)
(*   shutdown a replica is stopped gracefully while handling a delivery    *)
(*   slow     a handler runs into its 30 s deadline                        *)
(*   db       a Postgres statement returns an error                        *)
(*   redis    a Redis call other than the deferred DEL returns an error    *)
(*   unlock   the deferred DEL of the in-flight lock fails                 *)
(*   publish  an AMQP publish is not confirmed                             *)
(*   provider the provider accepts a request and the answer is lost        *)
(***************************************************************************)
EXTENDS Naturals

CONSTANTS FaultKinds,   \* the kinds of fault this model lets happen
          MaxFaults     \* bound on the number of faults in a behaviour

AllFaultKinds == {"crash", "conn", "shutdown", "slow", "db", "redis", "unlock", "publish", "provider"}

ASSUME FaultsAssumption == /\ FaultKinds \subseteq AllFaultKinds
                           /\ MaxFaults \in Nat

VARIABLE faults   \* number of faults so far

FaultsTypeOK == faults \in 0..MaxFaults

FaultsInit == faults = 0

(* One fault of kind k happens in this step. *)
Fault(k) ==
  /\ k \in FaultKinds
  /\ faults < MaxFaults
  /\ faults' = faults + 1

NoFault == UNCHANGED faults
=============================================================================

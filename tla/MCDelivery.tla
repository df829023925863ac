----------------------------- MODULE MCDelivery -----------------------------
(* Delivery for TLC.  Nothing tells two workers, or two notifications,      *)
(* apart.                                                                   *)
EXTENDS DeliveryInv, TLC

WorkerSymmetry == Permutations(Workers)
Symmetry       == Permutations(Notifs) \cup Permutations(Workers)
=============================================================================

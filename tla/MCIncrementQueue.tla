-------------------------- MODULE MCIncrementQueue --------------------------
(* IncrementQueue with few deliveries, for TLC. *)
EXTENDS IncrementQueue, TLC

\* The deliveries are interchangeable in everything that concerns safety.
DeliverySymmetry == Permutations(Deliveries)
=============================================================================

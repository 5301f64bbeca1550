-------------------------- MODULE MCBillingOperation --------------------------
(* BillingOperation with few operations and calls, for TLC. *)
EXTENDS BillingOperation, TLC

CONSTANTS o1, c1, c2

OneOperation == {o1}
TwoCalls == {c1, c2}

CallSymmetry == Permutations(TwoCalls)
=============================================================================

--------------------------- MODULE MCBillingLedger ---------------------------
(* BillingLedger with few transactions of one or two units, for TLC. *)
EXTENDS BillingLedger
=============================================================================

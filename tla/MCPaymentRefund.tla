--------------------------- MODULE MCPaymentRefund ---------------------------
(* PaymentRefund with few attempts and refunds, for TLC. *)
EXTENDS PaymentRefund

CONSTANTS a1, a2, r1, r2
=============================================================================

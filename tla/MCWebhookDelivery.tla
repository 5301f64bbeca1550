------------------------ MODULE MCWebhookDelivery ------------------------
(***************************************************************************)
(* Instances of WebhookDelivery for TLC: a delivery with its redelivery,   *)
(* and as many crashes, each with its startup pass, as there are passes.   *)
(* No symmetry is declared, for the liveness property is checked with the  *)
(* rest.                                                                   *)
(***************************************************************************)
EXTENDS WebhookDelivery
=============================================================================

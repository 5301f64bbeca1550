-------------------------- MODULE DeliveryPromise --------------------------
(***************************************************************************)
(* What the receipts of webhook_execution_service.py promise of one        *)
(* delivery: its outside effects are begun by one handler at most, its     *)
(* execution by one worker at most, and no worker begins once the business *)
(* operation has ended.                                                    *)
(***************************************************************************)
CONSTANTS Handlers, Workers

VARIABLES
  acted,    \* the handlers that began the outside effects
  started,  \* the workers that began the execution
  ended     \* the operation has its outcome

pvars == <<acted, started, ended>>

PInit == acted = {} /\ started = {} /\ ended = FALSE

Act ==
  /\ acted = {}
  /\ \E h \in Handlers : acted' = {h}
  /\ UNCHANGED <<started, ended>>

Begin ==
  /\ started = {} /\ ~ended
  /\ \E w \in Workers : started' = {w}
  /\ UNCHANGED <<acted, ended>>

End ==
  /\ ended' = TRUE
  /\ UNCHANGED <<acted, started>>

PNext == Act \/ Begin \/ End

PSpec == PInit /\ [][PNext]_pvars
=============================================================================

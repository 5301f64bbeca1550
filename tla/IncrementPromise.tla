-------------------------- MODULE IncrementPromise --------------------------
(***************************************************************************)
(* What the queue of increments promises of every admitted push: it is run *)
(* at most once, under its own operation, and not after that has ended.    *)
(***************************************************************************)
EXTENDS Naturals

CONSTANT Deliveries

VARIABLES
  runs,   \* how often each push was run
  ended   \* the pushes whose operation has its outcome

pvars == <<runs, ended>>

PInit == runs = [d \in Deliveries |-> 0] /\ ended = {}

Run(d) ==
  /\ runs[d] = 0 /\ d \notin ended
  /\ runs' = [runs EXCEPT ![d] = 1]
  /\ UNCHANGED ended

End ==
  /\ ended \subseteq ended' /\ ended' \subseteq Deliveries
  /\ UNCHANGED runs

PNext == End \/ \E d \in Deliveries : Run(d)

PSpec == PInit /\ [][PNext]_pvars
=============================================================================

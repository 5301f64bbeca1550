-------------------------- MODULE ActivityDelivery --------------------------
(***************************************************************************)
(* What the activity outbox promises its callers: a notification committed *)
(* with its event is offered at least once before it counts as published,  *)
(* it settles at most once, and what has settled never opens again.  A     *)
(* copy may still arrive late, from a dispatcher whose claim was taken     *)
(* over.                                                                   *)
(***************************************************************************)
CONSTANT Rows   \* notifications: an event and one of its recipients

VARIABLES
  outcome,    \* where each notification stands
  delivered   \* the notifications of which a copy was sent

avars == <<outcome, delivered>>

Settlements == {"published", "failed", "cancelled"}

AInit ==
  /\ outcome = [r \in Rows |-> "absent"]
  /\ delivered = {}

\* A transaction commits an event with its notifications.
Commit(new) ==
  /\ \A r \in new : outcome[r] = "absent"
  /\ outcome' = [r \in Rows |-> IF r \in new THEN "open" ELSE outcome[r]]
  /\ UNCHANGED delivered

Deliver(r) ==
  /\ outcome[r] # "absent"
  /\ delivered' = delivered \cup {r}
  /\ UNCHANGED outcome

Settle(r, result) ==
  /\ outcome[r] = "open"
  /\ result = "published" => r \in delivered
  /\ outcome' = [outcome EXCEPT ![r] = result]
  /\ UNCHANGED delivered

ANext ==
  \/ \E new \in SUBSET Rows : Commit(new)
  \/ \E r \in Rows : Deliver(r)
  \/ \E r \in Rows, result \in Settlements : Settle(r, result)

ASpec == AInit /\ [][ANext]_avars
=============================================================================

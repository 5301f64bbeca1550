--------------------------- MODULE BillingOperation ---------------------------
(***************************************************************************)
(* Metered operations of one wallet: billing_service.py with the calls of  *)
(* ai_usage_service.py and billing_reconciliation_service.py.              *)
(*                                                                         *)
(* An operation is admitted with a reserve and frozen policies, starts AI  *)
(* calls (committed before they are sent), records their usage, settles    *)
(* after every result, ends with an outcome and may be resumed.  A result  *)
(* may be late, unknown or lost; an expired operation that no live worker  *)
(* owns may be recovered, and an operator may review what stayed unknown.  *)
(* Every service call locks the wallet first and commits once: one step.   *)
(* Credits of a usage are counted in fractions of a unit, Scale to one.    *)
(***************************************************************************)
EXTENDS Integers, FiniteSets, Functions

CONSTANTS
  Operations,
  Calls,
  Costs,          \* what a call can cost, in fractions
  Scale,          \* fractions of a unit
  InitialReserve, \* billing_initial_reserve_credits
  Funds,          \* what the wallet has to begin with
  Limit           \* concurrency_limit of the user's plans

ASSUME OperationAssumption ==
  /\ Costs \subseteq Nat \ {0}
  /\ {Scale, Limit} \subseteq Nat \ {0}
  /\ {InitialReserve, Funds} \subseteq Nat
  /\ "none" \notin Operations

ASSUME FiniteAssumption == IsFiniteSet(Operations) /\ IsFiniteSet(Calls)

VARIABLES
  balance, reserved,  \* the wallet
  held,       \* what of its reserve a refund under way holds
  outcome,    \* outcome[o]: "absent" before registration, "open", or terminal
  policy,     \* policy[o]: what was frozen at the registration
  reserve,    \* reserve[o]: reserve_units
  settled,    \* settled[o]: settled_units
  known,      \* known[o]: known_credits, in fractions
  pending,    \* the operations with a pending_reason
  expired,    \* the operations past expires_at
  spared,     \* the operations with a live worker's ownership or, before their
              \* first call, a recoverable carrier in a queue
  callOf,     \* callOf[c]: the operation of the attempt, or "none"
  state,      \* state[c]: of the attempt
  priced,     \* the calls whose attempt has a price profile
  record,     \* record[c]: which usage record the attempt selects
  usage,      \* usage[<<c, k>>]: the usage record of kind k, or NoUsage
  quoted,     \* the usage records with a frozen charge
  late,       \* late[c]: outcome of evidence that came after a review
  inflight    \* the calls whose worker may still deliver a result

wallet == <<balance, reserved, held>>
closing == <<outcome, policy, expired, spared>>
calls == <<callOf, state, priced, record, usage, late, inflight>>
money == <<wallet, reserve, settled, known, pending, quoted>>
vars == <<money, closing, calls>>

Unknown == -1
Kinds == {"own", "reviewed"}
Records == Calls \X Kinds
Results == {"completed", "failed"}   \* a cancelled call is treated as a failed one
Terminal == {"completed", "failed", "cancelled"}
NoUsage == [cost |-> Unknown, outcome |-> "none"]
Policies == [charging : BOOLEAN, failed : BOOLEAN, failedCalls : BOOLEAN]
Unresolved == {"started", "pending"}

Init ==
  /\ balance = Funds /\ reserved = 0 /\ held = 0
  /\ outcome = [o \in Operations |-> "absent"]
  /\ policy \in [Operations -> Policies]
  /\ reserve = [o \in Operations |-> 0]
  /\ settled = [o \in Operations |-> 0]
  /\ known = [o \in Operations |-> 0]
  /\ pending = {} /\ expired = {} /\ spared = {}
  /\ callOf = [c \in Calls |-> "none"]
  /\ state = [c \in Calls |-> "none"]
  /\ priced = {}
  /\ record = [c \in Calls |-> "none"]
  /\ usage = [r \in Records |-> NoUsage]
  /\ quoted = {}
  /\ late = [c \in Calls |-> "none"]
  /\ inflight = {}

-----------------------------------------------------------------------------
Larger(a, b) == IF a > b THEN a ELSE b
Smaller(a, b) == IF a < b THEN a ELSE b
RoundUp(fractions) == (fractions + Scale - 1) \div Scale
Open == {o \in Operations : outcome[o] = "open"}
Closed == {o \in Operations : outcome[o] \in Terminal}
CallsOf(o) == {c \in Calls : callOf[c] = o}

\* The usage records an operation is charged by, in the calls as they are now.
Selected(o) == {r \in Records : callOf[r[1]] = o /\ record[r[1]] = r[2]}
\* Failed calls are the platform's unless the policy says otherwise.
Payable(o, outc) == policy[o].failedCalls \/ outc = "completed"
SumOf(o, rows, u) ==
  SumFunctionOnSet([r \in rows |-> IF Payable(o, u[r].outcome) THEN u[r].cost ELSE 0], rows)

\* The parts of settle_operation.  They read the calls and the outcome as the
\* caller of the settlement leaves them.
\* What is quoted now: a known usage under the price frozen for its call.
Quotes(o) == {r \in Selected(o)' : usage'[r].cost # Unknown /\ r[1] \in priced'}

\* Mutated form of Uncertain: a usage that cannot be priced is overlooked.
UncertainOfResults(o) == \E c \in CallsOf(o)' : state'[c] \in Unresolved
Uncertain(o) ==
  \/ \E c \in CallsOf(o)' : state'[c] \in Unresolved
  \/ Selected(o)' \ Quotes(o) # {}

\* Mutated forms of Due: the total is charged again; failures are charged.
DueAgain(o, total) ==
  IF policy[o].charging /\ outcome'[o] = "completed" THEN settled[o] + RoundUp(total) ELSE settled[o]
DueOfAnyOutcome(o, total) ==
  IF policy[o].charging THEN Larger(settled[o], RoundUp(total)) ELSE settled[o]

\* What a terminal operation has to have paid: the total beyond what is settled.
Due(o, total) ==
  LET charged == policy[o].charging /\ (outcome'[o] = "completed" \/ policy[o].failed)
  IN  IF charged /\ RoundUp(total) > settled[o] THEN RoundUp(total) ELSE settled[o]

\* Mutated forms of Kept: an uncertain operation keeps its reserve; the reserve
\* follows the total whatever is free.
KeptWhileUncertain(o, total) ==
  IF outcome'[o] # "open" /\ ~Uncertain(o) THEN 0 ELSE reserve[o]
KeptUncapped(o, total) ==
  IF outcome'[o] # "open" THEN 0
  ELSE IF policy[o].charging THEN Larger(reserve[o], RoundUp(total) - settled[o])
  ELSE reserve[o]

\* The reserve: released with the outcome, before that raised towards the
\* total as far as the wallet has free units.
Kept(o, total) ==
  LET free == balance - reserved + reserve[o]
      wanted == Larger(reserve[o], RoundUp(total) - settled[o])
  IN  IF outcome'[o] # "open" THEN 0
      ELSE IF policy[o].charging THEN Smaller(wanted, Larger(free, reserve[o]))
      ELSE reserve[o]

Settle(o) ==
  LET total == SumOf(o, Quotes(o), usage')
      due == IF outcome'[o] # "open" THEN Due(o, total) ELSE settled[o]
  IN  /\ quoted' = quoted \cup Quotes(o)
      /\ known' = [known EXCEPT ![o] = total]
      /\ pending' = IF Uncertain(o) THEN pending \cup {o} ELSE pending \ {o}
      /\ reserve' = [reserve EXCEPT ![o] = Kept(o, total)]
      /\ reserved' = reserved - reserve[o] + Kept(o, total)
      /\ settled' = [settled EXCEPT ![o] = due]
      /\ balance' = balance - (due - settled[o])
      /\ UNCHANGED held

-----------------------------------------------------------------------------
\* register_operation commits the admission before anything is queued.  A
\* second registration returns the first.
Register(o) ==
  LET units == IF policy[o].charging THEN InitialReserve ELSE 0
  IN  /\ outcome[o] = "absent"
      /\ Cardinality(Open) < Limit
      /\ policy[o].charging => balance > reserved /\ balance - reserved >= units
      /\ outcome' = [outcome EXCEPT ![o] = "open"]
      /\ reserve' = [reserve EXCEPT ![o] = units]
      /\ reserved' = reserved + units
      /\ UNCHANGED <<balance, held, settled, known, pending, quoted, policy, expired, spared, calls>>

\* start_call: what makes it refuse an operation with a pending_reason.
LateRows(o) == {c \in CallsOf(o) : late[c] # "none"}
UnknownPayable(o) ==
  \/ \E r \in Selected(o) : Payable(o, usage[r].outcome) /\ r \notin quoted
  \/ \E c \in LateRows(o) : Payable(o, late[c])
NeedsReconciliation(o) ==
  policy[o].charging /\ o \in pending /\ (UnknownPayable(o) \/ policy[o].failedCalls)

Affordable(o) ==
  policy[o].charging =>
    balance - reserved + reserve[o] > Larger(0, RoundUp(known[o]) - settled[o])

StartCall(c, o) ==
  /\ callOf[c] = "none"
  /\ outcome[o] = "open"
  /\ Affordable(o)
  /\ ~NeedsReconciliation(o)
  /\ callOf' = [callOf EXCEPT ![c] = o]
  /\ state' = [state EXCEPT ![c] = "started"]
  /\ \E p \in IF policy[o].charging THEN {TRUE} ELSE BOOLEAN :
       priced' = IF p THEN priced \cup {c} ELSE priced
  /\ inflight' = inflight \cup {c}
  /\ expired' = expired \ {o}
  /\ UNCHANGED <<money, outcome, policy, spared, record, usage, late>>

\* finish_ai_call, also of an operation that ended meanwhile.  A result that
\* comes after a review is kept as evidence and never replaces it.
FinishCall(c, cost, result) ==
  LET own == <<c, "own">>
      reviewed == record[c] = "reviewed"
  IN  /\ c \in inflight
      /\ inflight' = inflight \ {c}
      /\ IF reviewed
           THEN /\ late' = [late EXCEPT ![c] = result]
                /\ UNCHANGED <<usage, record, state>>
           ELSE /\ usage' = [usage EXCEPT ![own] = [cost |-> cost, outcome |-> result]]
                /\ record' = [record EXCEPT ![c] = "own"]
                /\ \E st \in IF cost = Unknown THEN {"pending", "known"} ELSE {"known"} :
                     state' = [state EXCEPT ![c] = st]
                /\ UNCHANGED late
      /\ UNCHANGED <<callOf, priced, closing>>
      /\ Settle(callOf[c])

\* The worker dies with its request on the way: no result will come.
CallLost(c) ==
  /\ c \in inflight
  /\ inflight' = inflight \ {c}
  /\ UNCHANGED <<money, closing, callOf, state, priced, record, usage, late>>

-----------------------------------------------------------------------------
\* finish_operation: a second outcome must agree with the first.
FinishOperation(o, out) ==
  /\ outcome[o] \in {"open", out}
  /\ outcome' = [outcome EXCEPT ![o] = out]
  /\ UNCHANGED <<policy, expired, spared, calls>>
  /\ Settle(o)

\* _has_payable_pending: uncertainty of the provider's cost alone does not
\* count, but without a failed record nothing is exempt.
Exempt(o) == {r \in Selected(o) : ~Payable(o, usage[r].outcome)}
PayablePending(o) ==
  \/ Exempt(o) = {} /\ ~\E c \in LateRows(o) : ~Payable(o, late[c])
  \/ \E c \in CallsOf(o) : state[c] \in Unresolved /\ <<c, record[c]>> \notin Exempt(o)
  \/ UnknownPayable(o)

\* resume_operation of a worker that continues an ended execution.
Resume(o) ==
  /\ outcome[o] \in Terminal
  /\ o \in pending /\ policy[o].charging => ~PayablePending(o)
  /\ Cardinality(Open) < Limit
  /\ outcome' = [outcome EXCEPT ![o] = "open"]
  /\ expired' = expired \ {o}
  /\ UNCHANGED <<money, policy, spared, calls>>

-----------------------------------------------------------------------------
\* recover_operations: an expired operation without a live worker or a carrier
\* has failed, and its calls without a result are left to reconciliation.
Recover(o) ==
  /\ outcome[o] = "open"
  /\ o \in expired /\ o \notin spared
  /\ outcome' = [outcome EXCEPT ![o] = "failed"]
  /\ state' = [c \in Calls |-> IF callOf[c] = o /\ state[c] = "started" THEN "pending" ELSE state[c]]
  /\ UNCHANGED <<policy, expired, spared, callOf, priced, record, usage, late, inflight>>
  /\ Settle(o)

\* resolve_billing_call: an operator supplies what a call of an ended
\* operation used; what is quoted is immutable.
Reconcile(c, cost, result) ==
  LET reviewed == <<c, "reviewed">>
      o == callOf[c]
  IN  /\ o \in Closed /\ o \notin spared
      /\ <<c, record[c]>> \notin quoted
      /\ usage' = [usage EXCEPT ![reviewed] = [cost |-> cost, outcome |-> result]]
      /\ record' = [record EXCEPT ![c] = "reviewed"]
      /\ state' = [state EXCEPT ![c] = "known"]
      /\ priced' = priced \cup {c}
      /\ UNCHANGED <<callOf, late, inflight, closing>>
      /\ Settle(o)

-----------------------------------------------------------------------------
\* expires_at passes, and refresh_billing_admission_liveness extends it.
Expire(o) ==
  /\ o \in Open \ expired
  /\ expired' = expired \cup {o}
  /\ UNCHANGED <<money, outcome, policy, spared, calls>>

Refresh(o) ==
  /\ o \in Open \cap expired
  /\ expired' = expired \ {o}
  /\ UNCHANGED <<money, outcome, policy, spared, calls>>

\* A worker's ownership or a carrier's wait begins or ends.
Spare(o) ==
  /\ outcome[o] # "absent"
  /\ \/ spared' = spared \cup {o}
     \/ spared' = spared \ {o}
  /\ UNCHANGED <<money, outcome, policy, expired, calls>>

\* A refund of the same wallet protects a free unit, and the provider refuses
\* it: hold_purchase_refund and release_purchase_refund, one at a time.
HoldRefund ==
  /\ held = 0 /\ balance > reserved
  /\ held' = 1 /\ reserved' = reserved + 1
  /\ UNCHANGED <<balance, reserve, settled, known, pending, quoted, closing, calls>>

ReleaseRefund ==
  /\ held > 0
  /\ held' = 0 /\ reserved' = reserved - held
  /\ UNCHANGED <<balance, reserve, settled, known, pending, quoted, closing, calls>>

Next ==
  \/ HoldRefund \/ ReleaseRefund
  \/ \E o \in Operations :
       \/ Register(o) \/ Resume(o) \/ Recover(o)
       \/ Expire(o) \/ Refresh(o) \/ Spare(o)
       \/ \E out \in Terminal : FinishOperation(o, out)
       \/ \E c \in Calls : StartCall(c, o)
  \/ \E c \in Calls :
       \/ CallLost(c)
       \/ \E cost \in Costs, result \in Results : FinishCall(c, cost, result) \/ Reconcile(c, cost, result)
       \/ \E result \in Results : FinishCall(c, Unknown, result)

Spec == Init /\ [][Next]_vars

-----------------------------------------------------------------------------
TypeOK ==
  /\ balance \in Int /\ reserved \in Nat /\ held \in Nat
  /\ outcome \in [Operations -> {"absent", "open"} \cup Terminal]
  /\ policy \in [Operations -> Policies]
  /\ reserve \in [Operations -> Nat] /\ settled \in [Operations -> Nat]
  /\ known \in [Operations -> Nat]
  /\ {pending, expired, spared} \subseteq SUBSET Operations
  /\ callOf \in [Calls -> Operations \cup {"none"}]
  /\ state \in [Calls -> {"none", "started", "pending", "known"}]
  /\ priced \subseteq Calls /\ inflight \subseteq Calls
  /\ record \in [Calls -> Kinds \cup {"none"}]
  /\ usage \in [Records -> [cost : Costs \cup {Unknown}, outcome : Results \cup {"none"}]]
  /\ quoted \subseteq Records
  /\ late \in [Calls -> Results \cup {"none"}]

\* Whoever ended an operation, in whatever order results, recovery and reviews
\* settle it, it keeps no reserve.
ClosedHoldsNothing == \A o \in Closed : reserve[o] = 0

\* The debits are the settled units; an operation never pays more than what its
\* payable calls cost together, rounded up once, and a completed one without a
\* pending_reason pays no less, in whatever order its results are settled.
ChargedExactly ==
  /\ balance = Funds - SumFunctionOnSet(settled, Operations)
  /\ \A o \in Operations : settled[o] <= RoundUp(SumOf(o, Selected(o) \cap quoted, usage))
  /\ \A o \in Closed \ pending :
       outcome[o] = "completed" /\ policy[o].charging =>
         settled[o] >= RoundUp(SumOf(o, Selected(o), usage))

\* An ended operation without a pending_reason hides nothing: each of its
\* calls has a result that is quoted, also when results come late.
NothingForgotten ==
  \A o \in Closed \ pending : \A c \in CallsOf(o) :
    state[c] = "known" /\ <<c, record[c]>> \in quoted

\* Nothing is debited against the policies frozen at the registration.
PolicyRespected ==
  [][\A o \in Operations : settled'[o] # settled[o] =>
        policy[o].charging /\ (outcome'[o] = "completed" \/ policy[o].failed)]_vars

\* An ended operation is only reopened when nothing it did may still be
\* charged: no request without a result, no payable usage without a quote.
ReopenedSettled ==
  [][\A o \in Closed : outcome'[o] = "open" /\ policy[o].charging =>
        \A c \in CallsOf(o) :
          /\ state[c] # "started" /\ record[c] # "none"
          /\ Payable(o, usage[<<c, record[c]>>].outcome) => <<c, record[c]>> \in quoted]_vars

\* A reserve is only raised by units no other operation or refund holds.
ReservedIsFree == [][reserved' > reserved => reserved' <= balance']_vars
=============================================================================
